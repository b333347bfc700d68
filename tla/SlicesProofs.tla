---------------------------- MODULE SlicesProofs ----------------------------
(***************************************************************************)
(* SliceRows keeps its contract for every file, layout, stride, batching   *)
(* and range; global row numbers are right for every lake, whatever was    *)
(* indexed, healed, saved and loaded; the inspectors and the chunking      *)
(* readers of object files agree on the rows of every file; the columns of *)
(* a slice are those asked for, of every file and with every reader; what  *)
(* the inspector of an Avro file finds are its blocks, of every file and   *)
(* whatever is damaged.                                                    *)
(***************************************************************************)
EXTENDS MCSlices, DataLemmas, FiniteSetTheorems, TLAPS

-----------------------------------------------------------------------------
(* SliceRows. *)

File == [total: Nat, kind: Kinds, stride: Strides]
Source == [next: Nat, stop: Nat, group: Nat, rest: SUBSET Nat, skip: Nat, from: Nat]

\* No rows taken: a typed answer.
LEMMA EmptyOut == <<>> \in [0 .. (0 - 1) -> Nat]
OBVIOUS

\* A closed reader has its type.
LEMMA ClosedType == Closed \in Source
BY DEF Closed, Opened, Source

\* The initial states are type-correct.
LEMMA InitTypeOK == Init => TypeOK
<1> SUFFICES ASSUME Init PROVE TypeOK
  OBVIOUS
<1>1. groups \in Seq(RowGroupLocation)
  BY DEF Init
<1>2. file \in File
  BY RowsAssumption DEF Init, File
<1>3. out \in [0 .. (collected - 1) -> Nat]
  BY EmptyOut DEF Init
<1>4. QED
  BY <1>1, <1>2, <1>3, ClosedType DEF Init, TypeOK, NoBlock, Source, File

\* A group number is a position in the list of locators.
LEMMA GroupFacts ==
  ASSUME TypeOK
  PROVE  /\ Len(groups) \in Nat
         /\ DOMAIN groups = Groups
         /\ groups = <<>> <=> Len(groups) = 0
         /\ \A g \in Groups : /\ groups[g] \in RowGroupLocation
                              /\ groups[g].first_row \in Nat
                              /\ groups[g].row_count \in Nat
                              /\ groups[g].first_byte \in Nat
                              /\ End(g) \in Nat
                              /\ groups[g].first_row <= End(g)
<1>1. groups \in Seq(RowGroupLocation)
  BY DEF TypeOK
<1>2. Len(groups) \in Nat /\ DOMAIN groups = Groups /\ (groups = <<>> <=> Len(groups) = 0)
  BY <1>1 DEF Groups
<1>3. ASSUME NEW g \in Groups
      PROVE  /\ groups[g] \in RowGroupLocation
             /\ groups[g].first_row \in Nat
             /\ groups[g].row_count \in Nat
             /\ groups[g].first_byte \in Nat
  <2>1. groups[g] \in RowGroupLocation
    BY <1>1, <1>2 DEF Groups
  <2>2. QED
    BY <2>1 DEF RowGroupLocation
<1>4. QED
  BY <1>2, <1>3 DEF End

\* What a pushed locator leaves of the list before it.
LEMMA PushFacts ==
  ASSUME TypeOK, NEW first \in Nat, NEW count \in Nat, NEW byte \in Nat,
         Push(first, count, byte)
  PROVE  /\ groups' \in Seq(RowGroupLocation)
         /\ Len(groups') = Len(groups) + 1
         /\ \A g \in Groups : groups'[g] = groups[g]
         /\ groups'[Len(groups) + 1] = [first_row |-> first, row_count |-> count,
                                        first_byte |-> byte]
BY DEF Push, TypeOK, RowGroupLocation, Groups
-----------------------------------------------------------------------------
(* The inspector. *)

\* A pushed group that starts where the list ends extends the tiling.
LEMMA PushTiles ==
  ASSUME TypeOK, TiledSoFar, NEW n \in Nat, NEW byte \in Nat,
         Push(first_row, n, byte), file' = file, first_row' = first_row + n,
         file.kind # "sheet" => byte = first_row
  PROVE  TiledSoFar'
<1>0. PICK m \in Nat : m = Len(groups) + 1
  BY GroupFacts
<1>a. first_row \in Nat
  BY DEF TypeOK
<1>1. /\ groups' \in Seq(RowGroupLocation) /\ Len(groups') = m /\ m \in Nat
      /\ \A g \in Groups : groups'[g] = groups[g]
      /\ groups'[m].first_row = first_row
      /\ groups'[m].row_count = n
      /\ groups'[m].first_byte = byte
      /\ first_row \in Nat
  <2>1. /\ groups' \in Seq(RowGroupLocation) /\ Len(groups') = Len(groups) + 1
        /\ \A g \in Groups : groups'[g] = groups[g]
        /\ groups'[Len(groups) + 1] = [first_row |-> first_row, row_count |-> n,
                                       first_byte |-> byte]
    BY <1>a, PushFacts
  <2>2. QED
    BY <1>0, <1>a, <2>1
<1>2. Groups' = Groups \cup {m} /\ m \notin Groups
  BY <1>0, <1>1, GroupFacts DEF Groups
<1>3. End(m)' = first_row + n /\ \A g \in Groups : End(g)' = End(g)
  BY <1>1 DEF End
<1>4. ASSUME NEW g \in Groups'
      PROVE  groups'[g].first_row = IF g = 1 THEN 0 ELSE End(g - 1)'
  <2>1. CASE g \in Groups
    <3>1. g = 1 \/ g - 1 \in Groups
      BY <2>1, GroupFacts DEF Groups
    <3>2. QED
      BY <1>1, <1>3, <2>1, <3>1 DEF TiledSoFar
  <2>2. CASE g = m
    <3>1. CASE m = 1
      BY <1>0, <1>1, <2>2, <3>1, GroupFacts DEF TiledSoFar
    <3>2. CASE m # 1
      <4>1. Len(groups) \in Groups /\ groups # <<>> /\ g - 1 = Len(groups)
        BY <1>0, <2>2, <3>2, GroupFacts DEF Groups
      <4>2. QED
        BY <1>1, <1>3, <2>2, <3>2, <4>1 DEF TiledSoFar
    <3>3. QED
      BY <3>1, <3>2
  <2>3. QED
    BY <1>2, <2>1, <2>2
<1>5. ASSUME NEW g \in Groups', NEW h \in Groups', g < h
      PROVE  End(g)' <= groups'[h].first_row
  <2>0. g \in Nat /\ h \in Nat /\ (h \in Groups => h < m)
    BY <1>0, <1>1, <1>5, GroupFacts DEF Groups
  <2>1. g \in Groups
    <3>1. g # m
      BY <1>0, <1>2, <1>5, <2>0
    <3>2. QED
      BY <1>2, <1>5, <3>1
  <2>2. CASE h = m
    <3>1. End(g)' = End(g) /\ groups'[h].first_row = first_row
      BY <1>1, <1>3, <2>1, <2>2
    <3>2. End(g) <= first_row
      BY <2>1 DEF TiledSoFar
    <3>3. QED
      BY <3>1, <3>2
  <2>3. CASE h \in Groups
    BY <1>1, <1>3, <1>5, <2>1, <2>3 DEF TiledSoFar
  <2>4. QED
    BY <1>2, <2>2, <2>3
<1>6. ASSUME NEW g \in Groups'
      PROVE  End(g)' <= first_row'
  <2>1. CASE g \in Groups
    <3>1. End(g) <= first_row /\ End(g) \in Nat
      BY <2>1, GroupFacts DEF TiledSoFar
    <3>2. QED
      BY <1>1, <1>3, <2>1, <3>1
  <2>2. CASE g = m
    BY <1>1, <1>3, <2>2
  <2>3. QED
    BY <1>2, <2>1, <2>2
<1>7. (first_row = IF groups = <<>> THEN 0 ELSE End(Len(groups)))'
  <2>1. End(Len(groups))' = End(m)'
    BY <1>1 DEF End
  <2>2. groups' # <<>>
    BY <1>0, <1>1, GroupFacts
  <2>3. QED
    BY <1>3, <2>1, <2>2
<1>8. ASSUME NEW row \in 0 .. (first_row' - 1)
      PROVE  \E g \in Groups' : Holds(g, row)'
  <2>1. CASE row < first_row
    <3>0. row \in 0 .. (first_row - 1)
      BY <1>a, <1>8, <2>1
    <3>1. PICK g \in Groups : Holds(g, row)
      BY <3>0 DEF TiledSoFar
    <3>2. Holds(g, row)'
      BY <1>1, <1>3, <3>1 DEF Holds
    <3>3. QED
      BY <1>2, <3>2
  <2>2. CASE row >= first_row
    <3>1. Holds(m, row)'
      BY <1>1, <1>3, <1>8, <2>2 DEF Holds
    <3>2. QED
      BY <1>2, <3>1
  <2>3. QED
    BY <1>1, <2>1, <2>2
<1>9. file'.kind # "sheet" => \A g \in Groups' : groups'[g].first_byte = groups'[g].first_row
  BY <1>1, <1>2 DEF TiledSoFar
<1>10. QED
  BY <1>4, <1>5, <1>6, <1>7, <1>8, <1>9 DEF TiledSoFar

\* What a step of the inspectors may disturb of the types.
LEMMA InspectTypes ==
  ASSUME TypeOK, UNCHANGED <<file, ask, readVars>>,
         groups' \in Seq(RowGroupLocation), first_row' \in Nat, row_count' \in Nat,
         block_start' \in [set: BOOLEAN, row: Nat], pc' \in {"inspect", "idle"}
  PROVE  TypeOK'
BY SMTT(30) DEF TypeOK, readVars

\* Every step of the inspectors keeps types and invariant.
LEMMA InspectStep ==
  ASSUME TypeOK, SliceInv, Inspect
  PROVE  TypeOK' /\ SliceInv'
<1> USE DEF SliceInv
<1>1. /\ pc = "inspect" /\ UNCHANGED <<file, ask, readVars>>
      /\ pc' \in {"inspect", "idle"}
  BY DEF Inspect, InspectRow, InspectGroup, InspectBlock, InspectEnd
<1>2. ReadSoFar' /\ SliceRight'
  BY <1>1 DEF ReadSoFar, SliceRight
<1>3. /\ file.total \in Nat /\ file.stride \in Nat \ {0}
      /\ first_row \in Nat /\ row_count \in Nat
      /\ first_row + row_count <= file.total
      /\ block_start.set => block_start.row = first_row
      /\ block_start.set <=> row_count > 0
  BY LayoutAssumption DEF TypeOK, BlockSoFar
<1>4. CASE InspectRow
  <2> DEFINE begin == IF block_start.set THEN block_start.row
                                         ELSE first_row + row_count
  <2>1. begin = first_row
    BY <1>3
  <2>2. CASE row_count + 1 = file.stride
    <3>1. /\ Push(first_row, row_count + 1, begin)
          /\ first_row' = first_row + row_count + 1
          /\ row_count' = 0 /\ block_start' = NoBlock /\ pc' = pc
          /\ first_row + row_count < file.total
      BY <1>4, <2>2 DEF InspectRow
    <3>2. TypeOK'
      <4>1. groups' \in Seq(RowGroupLocation)
        <5>1. row_count + 1 \in Nat /\ Push(first_row, row_count + 1, first_row)
          BY <1>3, <2>1, <3>1
        <5>2. QED
          BY <1>3, <5>1, PushFacts
      <4>2. first_row' \in Nat /\ row_count' \in Nat
        BY <1>3, <3>1
      <4>3. block_start' \in [set: BOOLEAN, row: Nat]
        BY <3>1 DEF NoBlock
      <4>4. QED
        BY <1>1, <4>1, <4>2, <4>3, InspectTypes
    <3>3. TiledSoFar'
      BY <1>1, <1>3, <2>1, <3>1, PushTiles
    <3>4. BlockSoFar'
      BY <1>1, <1>3, <3>1 DEF BlockSoFar, NoBlock
    <3>5. QED
      BY <1>2, <3>2, <3>3, <3>4
  <2>3. CASE row_count + 1 # file.stride
    <3>1. /\ row_count' = row_count + 1
          /\ block_start' = Block(begin) /\ pc' = pc
          /\ UNCHANGED <<groups, first_row>>
          /\ first_row + row_count < file.total
          /\ Strided
      BY <1>4, <2>3 DEF InspectRow
    <3>2. TypeOK'
      <4>1. groups' \in Seq(RowGroupLocation) /\ first_row' \in Nat /\ row_count' \in Nat
        BY <1>3, <3>1 DEF TypeOK
      <4>2. block_start' \in [set: BOOLEAN, row: Nat]
        BY <1>3, <2>1, <3>1 DEF Block
      <4>3. QED
        BY <1>1, <4>1, <4>2, InspectTypes
    <3>3. TiledSoFar'
      BY <1>1, <3>1 DEF TiledSoFar, Groups, End, Holds
    <3>4. BlockSoFar'
      BY <1>1, <1>3, <2>1, <3>1 DEF BlockSoFar, Block, Strided
    <3>5. QED
      BY <1>2, <3>2, <3>3, <3>4
  <2>4. QED
    BY <2>2, <2>3
<1>5. ASSUME NEW n \in Nat, Push(first_row, n, IF file.kind = "sheet" THEN 0 ELSE first_row),
             first_row + n <= file.total, ~Strided, pc' = pc,
             first_row' = first_row + n, UNCHANGED <<row_count, block_start>>
      PROVE  TypeOK' /\ SliceInv'
  <2>1. row_count = 0
    BY <1>3, <1>5 DEF BlockSoFar
  <2>2. TypeOK'
    <3>1. groups' \in Seq(RowGroupLocation)
      BY <1>3, <1>5, PushFacts
    <3>2. first_row' \in Nat /\ row_count' \in Nat
      BY <1>3, <1>5
    <3>3. block_start' \in [set: BOOLEAN, row: Nat]
      BY <1>5 DEF TypeOK
    <3>4. QED
      BY <1>1, <3>1, <3>2, <3>3, InspectTypes
  <2>3. TiledSoFar'
    BY <1>1, <1>3, <1>5, PushTiles
  <2>4. BlockSoFar'
    BY <1>1, <1>3, <1>5, <2>1 DEF BlockSoFar
  <2>5. QED
    BY <1>2, <2>2, <2>3, <2>4
<1>6. ASSUME NEW n \in GroupSizes, InspectGroup(n)
      PROVE  TypeOK' /\ SliceInv'
  <2>1. file.kind # "sheet" /\ ~Strided /\ n \in Nat
    BY <1>6, LayoutAssumption DEF InspectGroup, Physical, Strided
  <2>2. QED
    BY <1>5, <1>6, <2>1 DEF InspectGroup
<1>7. CASE InspectBlock
  <2> DEFINE n == Smaller(file.stride, file.total - first_row)
  <2>1. n \in Nat /\ first_row + n <= file.total /\ file.kind = "sheet" /\ ~Strided
    BY <1>3, <1>7 DEF InspectBlock, Smaller, Strided
  <2>2. QED
    BY <1>5, <1>7, <2>1 DEF InspectBlock
<1>8. CASE InspectEnd
  <2>1. /\ first_row' = file.total /\ file.total = first_row + row_count
        /\ row_count' = 0 /\ block_start' = NoBlock /\ pc' = "idle"
    BY <1>8 DEF InspectEnd
  <2>2. groups' \in Seq(RowGroupLocation) /\ TiledSoFar'
    <3>1. CASE row_count > 0
      <4>1. Push(first_row, row_count, block_start.row) /\ block_start.row = first_row
        BY <1>3, <1>8, <3>1 DEF InspectEnd
      <4>2. QED
        BY <1>1, <1>3, <2>1, <4>1, PushFacts, PushTiles
    <3>2. CASE row_count = 0
      <4>1. groups' = groups /\ first_row' = first_row
        BY <1>3, <1>8, <2>1, <3>2 DEF InspectEnd
      <4>2. QED
        BY <1>1, <4>1 DEF TypeOK, TiledSoFar, Groups, End, Holds
    <3>3. QED
      BY <1>3, <3>1, <3>2
  <2>3. TypeOK'
    BY <1>1, <1>3, <2>1, <2>2 DEF TypeOK, NoBlock, readVars
  <2>4. BlockSoFar'
    BY <1>1, <1>3, <2>1 DEF BlockSoFar, NoBlock
  <2>5. QED
    BY <1>2, <2>2, <2>3, <2>4
<1>9. QED
  BY <1>4, <1>6, <1>7, <1>8 DEF Inspect
-----------------------------------------------------------------------------
(* The resolved reader. *)

\* The locator that find returns holds the row.
LEMMA FoundGroupFacts ==
  ASSUME TypeOK, TiledSoFar, NEW row \in Nat, \E g \in Groups : Holds(g, row)
  PROVE  Found(row) \in Groups /\ Holds(Found(row), row)
<1>1. PICK g \in Groups : Holds(g, row)
  OBVIOUS
<1>2. ASSUME NEW h \in Groups, Holds(h, row) PROVE g <= h
  <2>1. g \in Nat /\ h \in Nat /\ End(h) \in Nat /\ groups[g].first_row \in Nat
    BY GroupFacts DEF Groups
  <2>2. h < g => End(h) <= groups[g].first_row
    BY DEF TiledSoFar
  <2>3. QED
    BY <1>1, <1>2, <2>1, <2>2 DEF Holds
<1>3. QED
  BY <1>1, <1>2, GroupFacts DEF Found

\* The first row group the range needs is the one that holds its first row.
LEMMA FirstSelected ==
  ASSUME TypeOK, TiledSoFar, BlockSoFar, pc # "inspect",
         NEW o \in Nat, NEW l \in Nat, o < file.total, l > 0
  PROVE  /\ Selected(o, l) # {}
         /\ First(Selected(o, l)) \in Selected(o, l)
         /\ \A h \in Selected(o, l) : First(Selected(o, l)) <= h
         /\ Holds(First(Selected(o, l)), o)
<1>0. file.total \in Nat /\ first_row = file.total
  BY DEF TypeOK, BlockSoFar
<1>1. PICK g \in Groups : Holds(g, o)
  BY <1>0 DEF TiledSoFar
<1>2. g \in Selected(o, l)
  BY <1>0, <1>1, GroupFacts DEF Selected, Holds, Smaller
<1>3. ASSUME NEW h \in Selected(o, l) PROVE g <= h
  <2>1. h \in Groups /\ End(h) > o
    BY GroupFacts DEF Selected
  <2>2. h < g => End(h) <= groups[g].first_row
    BY <2>1 DEF TiledSoFar
  <2>3. groups[g].first_row <= o /\ groups[g].first_row \in Nat /\ End(h) \in Nat
    BY <1>1, <2>1, GroupFacts DEF Holds
  <2>4. g \in Nat /\ h \in Nat
    BY <2>1 DEF Groups
  <2>5. QED
    BY <2>1, <2>2, <2>3, <2>4
<1>4. First(Selected(o, l)) = g
  <2>1. \A x \in Selected(o, l) : (\A h \in Selected(o, l) : x <= h) => x = g
    BY <1>2, <1>3 DEF Selected, Groups, GroupFacts
  <2>2. QED
    BY <1>2, <1>3, <2>1 DEF First
<1>5. QED
  BY <1>1, <1>2, <1>3, <1>4

\* Whatever reader slice_rows opens, it starts at a row from which skipping
\* brings it to the offset.
LEMMA ReaderAimed ==
  ASSUME TypeOK, TiledSoFar, BlockSoFar, pc = "idle",
         NEW o \in Nat, NEW l \in Nat, NEW s,
         s = Direct(o) \/ (l > 0 /\ s = Resolved(o, l))
  PROVE  /\ s \in Source
         /\ s.next = s.from /\ s.next <= s.stop
         /\ Aimed(s, o, l)
<1> DEFINE Good(r) == /\ r \in Source
                      /\ r.next = r.from /\ r.next <= r.stop
                      /\ Aimed(r, o, l)
<1>0. file.total \in Nat /\ first_row = file.total
  BY DEF TypeOK, BlockSoFar
<1>1. Good(Direct(o))
  BY <1>0 DEF Direct, Opened, Source, Aimed
<1>2. o >= file.total => Good(Opened(file.total, file.total, {}, 0))
  BY <1>0 DEF Opened, Source, Aimed
<1>3. ASSUME o < file.total, \E g \in DOMAIN groups : Holds(g, o),
             NEW byte, byte = groups[Found(o)].first_row
      PROVE  Good(Opened(byte, file.total, {}, Less(o, groups[Found(o)].first_row)))
  <2>1. Found(o) \in Groups /\ Holds(Found(o), o)
    BY <1>3, FoundGroupFacts, GroupFacts
  <2>2. groups[Found(o)].first_row \in Nat /\ groups[Found(o)].first_row <= o
    BY <2>1, GroupFacts DEF Holds
  <2>3. Less(o, groups[Found(o)].first_row) = o - groups[Found(o)].first_row
    BY <2>2 DEF Less
  <2>4. QED
    BY <1>0, <1>3, <2>2, <2>3 DEF Opened, Source, Aimed
<1>4. file.kind # "sheet" => Good(ByteCheckpoint(o))
  <2>1. CASE o < file.total /\ \E g \in DOMAIN groups : Holds(g, o)
    <3>1. Found(o) \in Groups
      BY <2>1, FoundGroupFacts, GroupFacts
    <3>2. file.kind # "sheet" => groups[Found(o)].first_byte = groups[Found(o)].first_row
      BY <3>1 DEF TiledSoFar
    <3>3. QED
      BY <1>0, <1>3, <2>1, <3>2 DEF ByteCheckpoint
  <2>2. CASE ~(o < file.total /\ \E g \in DOMAIN groups : Holds(g, o))
    BY <1>0, <1>1, <1>2, <2>2 DEF ByteCheckpoint
  <2>3. QED
    BY <2>1, <2>2
<1>5. Good(SheetBlock(o))
  BY <1>0, <1>1, <1>2, <1>3 DEF SheetBlock
<1>6. Good(IpcBatch(o))
  BY <1>0, <1>1, <1>3 DEF IpcBatch
<1>7. l > 0 => Good(RowGroups(o, l))
  <2>1. CASE o < file.total /\ l > 0
    <3> DEFINE S == Selected(o, l)
               g == First(S)
               r == [Opened(groups[g].first_row, End(g), S \ {g},
                            Less(o, groups[g].first_row)) EXCEPT !.group = g]
    <3>1. S # {} /\ g \in S /\ (\A h \in S : g <= h) /\ Holds(g, o)
      BY <2>1, FirstSelected
    <3>2. S \subseteq Groups /\ S \subseteq Nat
      BY GroupFacts DEF Selected, Groups
    <3>3. /\ groups[g].first_row \in Nat /\ groups[g].first_row <= o
          /\ End(g) \in Nat /\ End(g) <= file.total
          /\ groups[g].first_row <= End(g)
      BY <1>0, <3>1, <3>2, GroupFacts DEF Holds, TiledSoFar
    <3>4. Less(o, groups[g].first_row) = o - groups[g].first_row
      BY <3>3 DEF Less
    <3>5. S \ {g} = {h \in S : h > g}
      BY <3>1, <3>2
    <3>6. RowGroups(o, l) = r
      BY <1>0, <2>1, <3>1 DEF RowGroups
    <3>7. r \in Source
      BY <3>1, <3>2, <3>3, <3>4 DEF Source, Opened
    <3>8. g # 0
      BY <3>1, <3>2 DEF Groups
    <3>9. /\ r.next = groups[g].first_row /\ r.from = r.next /\ r.stop = End(g)
          /\ r.group = g /\ r.rest = S \ {g} /\ r.skip = o - groups[g].first_row
      BY <3>4 DEF Opened
    <3>10. ASSUME NEW q, q.from = groups[g].first_row, q.stop = End(g),
                  q.group = g, q.rest = S \ {g}, q.skip = o - groups[g].first_row
           PROVE  Aimed(q, o, l)
      <4>1. q.stop <= file.total /\ q.from + q.skip = o
        BY <3>3, <3>10
      <4>2. q.group # 0 /\ q.group \in S /\ q.stop = End(q.group)
        BY <3>1, <3>8, <3>10
      <4>3. q.rest = {h \in S : h > q.group}
        BY <3>5, <3>10
      <4>4. QED
        BY <1>0, <2>1, <4>1, <4>2, <4>3 DEF Aimed
    <3>11. Aimed(r, o, l)
      BY <3>9, <3>10
    <3>12. QED
      BY <3>3, <3>6, <3>7, <3>9, <3>11
  <2>2. CASE o >= file.total
    BY <1>2, <2>2 DEF RowGroups
  <2>3. QED
    BY <1>0, <2>1, <2>2
<1>8. file.kind \in AllKinds
  BY LayoutAssumption DEF TypeOK
<1>9. l > 0 => Good(Resolved(o, l))
  <2>1. CASE groups = <<>>
    BY <1>1, <2>1 DEF Resolved
  <2>2. CASE groups # <<>> /\ file.kind = "parquet"
    BY <1>7, <2>2 DEF Resolved
  <2>3. CASE groups # <<>> /\ file.kind = "sheet"
    BY <1>5, <2>3 DEF Resolved
  <2>4. CASE groups # <<>> /\ file.kind = "batches"
    BY <1>6, <2>4 DEF Resolved
  <2>5. CASE groups # <<>> /\ file.kind \in {"lines", "array", "stripes"}
    BY <1>4, <2>5 DEF Resolved
  <2>6. QED
    BY <1>8, <2>1, <2>2, <2>3, <2>4, <2>5 DEF AllKinds
<1>10. QED
  BY <1>1, <1>9
-----------------------------------------------------------------------------
(* The read loop. *)

\* Steps that leave the locators alone keep the tiling.
LEMMA LocatorsKept ==
  ASSUME TiledSoFar, BlockSoFar, pc # "inspect", pc' # "inspect",
         UNCHANGED <<file, inspectVars>>
  PROVE  TiledSoFar' /\ BlockSoFar'
BY DEF TiledSoFar, BlockSoFar, inspectVars, Groups, End, Holds, Strided

\* A new slice opens a reader that is aimed.
LEMMA SliceStep ==
  ASSUME TypeOK, SliceInv, NEW o \in Offsets, NEW l \in Limits,
         NEW healthy \in BOOLEAN, Slice(o, l, healthy)
  PROVE  TypeOK' /\ SliceInv'
<1>1. /\ pc = "idle" /\ pc' = "read" /\ ask' = [offset |-> o, limit |-> l]
      /\ skipped' = 0 /\ collected' = 0 /\ out' = <<>>
      /\ UNCHANGED <<file, inspectVars>>
      /\ o \in Nat /\ l \in Nat
  BY RowsAssumption DEF Slice
<1>2. source' = Direct(o) \/ (l > 0 /\ source' = Resolved(o, l))
  BY DEF Slice
<1>3. source' \in Source /\ source'.next = source'.from
      /\ source'.next <= source'.stop /\ Aimed(source', o, l)
  BY <1>1, <1>2, ReaderAimed DEF SliceInv
<1>4. TypeOK'
  BY <1>1, <1>3, EmptyOut DEF TypeOK, inspectVars, Source
<1>5. Aimed(source, ask.offset, ask.limit)'
  BY <1>1, <1>3 DEF Aimed, Selected, End, inspectVars
<1>6. ReadSoFar'
  BY <1>1, <1>3, <1>5 DEF ReadSoFar, Less, Source
<1>7. QED
  BY <1>1, <1>4, <1>6, LocatorsKept DEF SliceInv, SliceRight

\* What is wanted, in the inspected file.
LEMMA WantedFacts ==
  ASSUME NEW rows \in Nat, NEW o \in Nat, NEW l \in Nat,
         NEW c \in Nat, NEW f \in [0 .. (c - 1) -> Nat],
         \A k \in 0 .. (c - 1) : f[k] = o + k,
         c = IF o < rows THEN (IF l < rows - o THEN l ELSE rows - o) ELSE 0
  PROVE  f = Contract!Wanted(rows, [offset |-> o, limit |-> l])
<1>1. Contract!Length(rows, [offset |-> o, limit |-> l]) = c
  BY DEF Contract!Length, Contract!Smaller
<1>2. QED
  BY <1>1 DEF Contract!Wanted

\* A reader that stops at the limit or the end has the rows of the range.
LEMMA DoneRight ==
  ASSUME TypeOK', file' = file, ask' = ask, TypeOK,
         \A k \in 0 .. (collected' - 1) : out'[k] = ask.offset + k,
         collected' = IF ask.offset < file.total
                        THEN (IF ask.limit < file.total - ask.offset
                                THEN ask.limit ELSE file.total - ask.offset)
                        ELSE 0
  PROVE  SliceRight'
<1>1. /\ file.total \in Nat /\ ask.offset \in Nat /\ ask.limit \in Nat
      /\ ask = [offset |-> ask.offset, limit |-> ask.limit]
      /\ collected' \in Nat /\ out' \in [0 .. (collected' - 1) -> Nat]
  BY DEF TypeOK
<1>2. out' = Contract!Wanted(file.total, [offset |-> ask.offset, limit |-> ask.limit])
  BY <1>1 DEF Contract!Wanted, Contract!Length, Contract!Smaller
<1>3. QED
  BY <1>1, <1>2 DEF SliceRight

\* The numbers of one turn of the loop that takes rows.
BatchFits(from, skip, seen, n, l, o, rows, stop) ==
  /\ from + seen + n <= stop
  /\ stop <= rows
  /\ Less(seen, skip) < l
  /\ seen + n > skip
  /\ o < rows => from + skip = o
  /\ o >= rows => from + skip >= rows

BatchTakes(from, skip, seen, n, l, o, rows, begin, take, had) ==
  /\ begin \in Nat /\ take \in Nat
  /\ o < rows
  /\ from + seen + begin = o + had
  /\ had + take <= l
  /\ had + take >= l => had + take = l /\ l <= rows - o
  /\ had + take < l => had + take = Less(seen + n, skip)

\* What a batch adds to the rows passed and to the rows taken.
LEMMA BatchArithmetic ==
  ASSUME NEW from \in Nat, NEW skip \in Nat, NEW seen \in Nat, NEW n \in Nat,
         NEW l \in Nat, NEW o \in Nat, NEW rows \in Nat, NEW stop \in Nat,
         BatchFits(from, skip, seen, n, l, o, rows, stop)
  PROVE  BatchTakes(from, skip, seen, n, l, o, rows, Less(skip, seen),
                    Smaller(l - Less(seen, skip), n - Less(skip, seen)),
                    Less(seen, skip))
BY DEF BatchFits, BatchTakes, Less, Smaller

\* Taking rows b .. b+t-1 after the first c rows of the range.
LEMMA TakeRows ==
  ASSUME NEW c \in Nat, NEW t \in Nat, NEW o \in Nat, NEW b \in Nat, NEW f, NEW g,
         b = o + c, \A k \in 0 .. (c - 1) : f[k] = o + k,
         g = [k \in 0 .. (c + t - 1) |-> IF k < c THEN f[k] ELSE b + (k - c)]
  PROVE  /\ g \in [0 .. (c + t - 1) -> Nat]
         /\ \A k \in 0 .. (c + t - 1) : g[k] = o + k
<1>1. ASSUME NEW k \in 0 .. (c + t - 1)
      PROVE  (IF k < c THEN f[k] ELSE b + (k - c)) = o + k
  <2>1. CASE k < c
    <3>1. k \in 0 .. (c - 1)
      BY <2>1
    <3>2. QED
      BY <2>1, <3>1
  <2>2. CASE ~(k < c)
    BY <2>2
  <2>3. QED
    BY <2>1, <2>2
<1>2. \A k \in 0 .. (c + t - 1) : o + k \in Nat
  OBVIOUS
<1>3. \A k \in 0 .. (c + t - 1) : g[k] = o + k
  BY <1>1
<1>4. QED
  BY <1>1, <1>2, <1>3

\* What a turn of the read loop may disturb of the types.
LEMMA ReadTypes ==
  ASSUME TypeOK, UNCHANGED <<file, inspectVars, ask>>, pc' \in {"read", "done"},
         source' \in Source, skipped' \in Nat, collected' \in Nat,
         out' \in [0 .. (collected' - 1) -> Nat]
  PROVE  TypeOK'
<1>1. /\ file' \in [total: Nat, kind: Kinds, stride: Strides]
      /\ ask' \in [offset: Nat, limit: Nat]
  BY DEF TypeOK
<1>2. /\ groups' \in Seq(RowGroupLocation) /\ first_row' \in Nat /\ row_count' \in Nat
      /\ block_start' \in [set: BOOLEAN, row: Nat]
  BY DEF TypeOK, inspectVars
<1>3. pc' \in {"inspect", "idle", "read", "done", "failed"}
  OBVIOUS
<1>4. QED
  BY <1>1, <1>2, <1>3 DEF TypeOK, Source

\* One turn of the read loop keeps the invariant.
LEMMA ReadBatchStep ==
  ASSUME TypeOK, SliceInv, NEW n \in BatchSizes, ReadBatch(n)
  PROVE  TypeOK' /\ SliceInv'
<1> DEFINE o == ask.offset
           l == ask.limit
           s == source
           begin == Less(s.skip, skipped)
           take  == Smaller(l - collected, n - begin)
<1>0. n \in Nat
  BY LayoutAssumption
<1>1. /\ pc = "read" /\ l > 0 /\ s.next + n <= s.stop
      /\ source' = [source EXCEPT !.next = @ + n]
      /\ skipped' = skipped + n
      /\ UNCHANGED <<file, inspectVars, ask>>
  BY DEF ReadBatch, NextBatch
<1>2. /\ o \in Nat /\ l \in Nat /\ skipped \in Nat /\ collected \in Nat
      /\ s \in Source /\ s.next \in Nat /\ s.stop \in Nat /\ s.skip \in Nat
      /\ s.from \in Nat /\ file.total \in Nat
  BY DEF TypeOK, Source
<1>3. /\ Aimed(s, o, l)
      /\ s.next = s.from + skipped
      /\ collected = Less(skipped, s.skip)
      /\ collected < l
      /\ \A k \in 0 .. (collected - 1) : out[k] = o + k
      /\ out \in [0 .. (collected - 1) -> Nat]
  BY <1>1 DEF SliceInv, ReadSoFar, TypeOK
<1>4. /\ source' \in Source /\ source'.next = s.next + n
      /\ source'.stop = s.stop /\ source'.skip = s.skip /\ source'.from = s.from
      /\ source'.group = s.group /\ source'.rest = s.rest
  BY <1>0, <1>1, <1>2 DEF Source
<1>5. Aimed(source, ask.offset, ask.limit)'
  BY <1>1, <1>3, <1>4 DEF Aimed, Selected, End, inspectVars
<1>6. CASE skipped + n <= s.skip
  <2>1. UNCHANGED <<collected, out, pc>>
    BY <1>6 DEF ReadBatch
  <2>2. TypeOK'
    <3>1. skipped' \in Nat /\ source' \in Source
      BY <1>0, <1>1, <1>2, <1>4
    <3>2. QED
      BY <1>1, <2>1, <3>1 DEF TypeOK, inspectVars, Source
  <2>3. collected' = Less(skipped', source'.skip)
    BY <1>0, <1>1, <1>2, <1>3, <1>4, <1>6, <2>1 DEF Less
  <2>4. ReadSoFar'
    BY <1>0, <1>1, <1>2, <1>3, <1>4, <1>5, <2>1, <2>3 DEF ReadSoFar
  <2>5. QED
    BY <1>1, <2>1, <2>2, <2>4, LocatorsKept DEF SliceInv, SliceRight
<1>7. CASE skipped + n > s.skip
  <2>1. /\ begin \in Nat /\ take \in Nat
        /\ o < file.total
        /\ s.next + begin = o + collected
        /\ collected + take <= l
        /\ collected + take >= l => collected + take = l /\ l <= file.total - o
        /\ collected + take < l => collected + take = Less(skipped + n, s.skip)
    <3>1. /\ s.stop <= file.total
          /\ o < file.total => s.from + s.skip = o
          /\ o >= file.total => s.from + s.skip >= file.total
      BY <1>3 DEF Aimed
    <3>2. BatchFits(s.from, s.skip, skipped, n, l, o, file.total, s.stop)
      BY <1>1, <1>3, <1>7, <3>1 DEF BatchFits
    <3>3. BatchTakes(s.from, s.skip, skipped, n, l, o, file.total, begin, take, collected)
      BY <1>0, <1>2, <1>3, <3>2, BatchArithmetic
    <3>4. QED
      BY <1>3, <3>3 DEF BatchTakes
  <2>2. /\ collected' = collected + take
        /\ pc' = IF collected + take >= l THEN "done" ELSE "read"
    BY <1>0, <1>2, <1>7 DEF ReadBatch, Take
  <2>3. /\ out' \in [0 .. (collected' - 1) -> Nat]
        /\ \A k \in 0 .. (collected' - 1) : out'[k] = o + k
    <3>0. PICK c \in Nat, t \in Nat, b \in Nat, p \in Nat :
            c = collected /\ t = take /\ b = s.next + begin /\ p = ask.offset
      BY <1>2, <2>1
    <3>1. out' = [k \in 0 .. (c + t - 1) |-> IF k < c THEN out[k] ELSE b + (k - c)]
      BY <1>0, <1>2, <1>7, <3>0 DEF ReadBatch, Take
    <3>2. collected' = c + t
      BY <2>2, <3>0
    <3>3. b = p + c /\ \A k \in 0 .. (c - 1) : out[k] = p + k
      BY <1>3, <2>1, <3>0
    <3>4. /\ out' \in [0 .. (c + t - 1) -> Nat]
          /\ \A k \in 0 .. (c + t - 1) : out'[k] = p + k
      BY <3>1, <3>3, TakeRows
    <3>5. QED
      BY <3>0, <3>2, <3>4
  <2>4. collected' \in Nat /\ pc' \in {"read", "done"}
    BY <1>2, <2>1, <2>2
  <2>5. TypeOK'
    <3>1. skipped' \in Nat /\ source' \in Source
      BY <1>0, <1>1, <1>2, <1>4
    <3>2. UNCHANGED <<file, inspectVars, ask>>
      BY <1>1
    <3>3. out' \in [0 .. (collected' - 1) -> Nat]
      BY <2>3
    <3>4. QED
      BY <2>4, <3>1, <3>2, <3>3, ReadTypes
  <2>6. CASE collected + take >= l
    <3>1. collected' = l /\ pc' = "done" /\ l <= file.total - o
      BY <1>2, <2>1, <2>2, <2>6
    <3>2. SliceRight'
      <4>1. collected' = IF o < file.total
                           THEN (IF l < file.total - o THEN l ELSE file.total - o)
                           ELSE 0
        <5>1. o < file.total /\ o \in Nat /\ l \in Nat /\ file.total \in Nat
          BY <1>2, <2>1
        <5>2. ~(l < file.total - o) => l = file.total - o
          BY <3>1, <5>1
        <5>3. QED
          BY <3>1, <5>1, <5>2
      <4>2. file' = file /\ ask' = ask
        BY <1>1
      <4>3. \A k \in 0 .. (collected' - 1) : out'[k] = ask.offset + k
        BY <2>3
      <4>4. QED
        BY <2>5, <4>1, <4>2, <4>3, DoneRight
    <3>3. QED
      BY <1>1, <2>5, <3>1, <3>2, LocatorsKept DEF SliceInv, ReadSoFar
  <2>7. CASE collected + take < l
    <3>1. pc' = "read" /\ collected' < l
      BY <1>2, <2>1, <2>2, <2>7
    <3>2. collected' = Less(skipped', source'.skip)
      BY <1>1, <1>4, <2>1, <2>2, <2>7
    <3>3. source'.next = source'.from + skipped' /\ source'.next <= source'.stop
      BY <1>0, <1>1, <1>2, <1>3, <1>4
    <3>4. ReadSoFar'
      BY <1>1, <1>5, <2>3, <3>1, <3>2, <3>3 DEF ReadSoFar
    <3>5. QED
      BY <1>1, <2>5, <3>1, <3>4, LocatorsKept DEF SliceInv, SliceRight
  <2>8. QED
    BY <1>2, <2>1, <2>6, <2>7
<1>8. QED
  BY <1>0, <1>2, <1>6, <1>7

\* A limit of zero rows is answered with none.
LEMMA ReadNothingStep ==
  ASSUME TypeOK, SliceInv, ReadNothing
  PROVE  TypeOK' /\ SliceInv'
<1>1. /\ pc = "read" /\ ask.limit = 0 /\ pc' = "done"
      /\ UNCHANGED <<file, inspectVars, ask, readVars>>
  BY DEF ReadNothing
<1>2. TypeOK'
  BY <1>1 DEF TypeOK, inspectVars, readVars
<1>3. /\ collected' = 0 /\ ask.offset \in Nat /\ file.total \in Nat
      /\ \A k \in 0 .. (collected' - 1) : out'[k] = ask.offset + k
  BY <1>1 DEF SliceInv, ReadSoFar, readVars, TypeOK
<1>4. SliceRight'
  BY <1>1, <1>2, <1>3, DoneRight
<1>5. QED
  BY <1>1, <1>2, <1>4, LocatorsKept DEF SliceInv, ReadSoFar

\* The row group after a selected one, if any later one is selected.
LEMMA NextSelected ==
  ASSUME TypeOK, TiledSoFar, NEW o \in Nat, NEW l \in Nat,
         NEW g \in Selected(o, l), NEW rest,
         rest = {h \in Selected(o, l) : h > g}, rest # {}
  PROVE  /\ First(rest) = g + 1 /\ g + 1 \in rest /\ g + 1 \in Groups
         /\ groups[g + 1].first_row = End(g)
<1>1. PICK h \in Selected(o, l) : h > g
  OBVIOUS
<1>2. Selected(o, l) \subseteq Groups /\ Groups \subseteq Nat \ {0} /\ file.total \in Nat
  <2>1. file.total \in Nat
    BY DEF TypeOK
  <2>2. Selected(o, l) \subseteq Groups
    BY GroupFacts DEF Selected
  <2>3. QED
    BY <2>1, <2>2 DEF Groups
<1>a. g \in Nat
  BY <1>2
<1>3. PICK n \in Nat : n = g + 1
  BY <1>a
<1>4. n \in Groups /\ n # 1 /\ n - 1 = g /\ n <= h
  BY <1>1, <1>2, <1>3, GroupFacts DEF Groups
<1>5. groups[n].first_row = End(g)
  BY <1>4 DEF TiledSoFar
<1>6. End(g) <= groups[h].first_row
  BY <1>1, <1>2 DEF TiledSoFar
<1>7. /\ End(g) \in Nat /\ End(n) \in Nat /\ groups[h].first_row \in Nat
      /\ groups[n].first_row <= End(n)
  BY <1>1, <1>2, <1>4, GroupFacts
<1>8. groups[h].first_row < Smaller(o + l, file.total) /\ End(g) > o
  BY <1>1 DEF Selected
<1>9. Smaller(o + l, file.total) \in Nat
  BY <1>2 DEF Smaller
<1>10. n \in Selected(o, l)
  <2>1. groups[n].first_row < Smaller(o + l, file.total) /\ End(n) > o
    BY <1>5, <1>6, <1>7, <1>8, <1>9
  <2>2. QED
    BY <1>4, <2>1, GroupFacts DEF Selected
<1>11. n \in rest /\ \A x \in rest : x \in Nat /\ n <= x
  BY <1>2, <1>3, <1>10
<1>12. First(rest) = n
  <2>1. \A x \in rest : (\A y \in rest : x <= y) => x = n
    BY <1>11
  <2>2. QED
    BY <1>11, <2>1 DEF First
<1>13. QED
  BY <1>3, <1>4, <1>5, <1>11, <1>12

\* Going on with the next selected row group keeps the reader aimed.
LEMMA NextGroupStep ==
  ASSUME TypeOK, SliceInv, NextGroup
  PROVE  TypeOK' /\ SliceInv'
<1>1. /\ pc = "read" /\ ask.limit > 0 /\ source.next = source.stop
      /\ source.rest # {}
      /\ UNCHANGED <<file, inspectVars, pc, ask, skipped, collected, out>>
  BY DEF NextGroup
<1>2. /\ source \in Source /\ file.total \in Nat
      /\ ask.offset \in Nat /\ ask.limit \in Nat
  BY DEF TypeOK, Source
<1>3. ReadSoFar /\ Aimed(source, ask.offset, ask.limit) /\ TiledSoFar /\ BlockSoFar
  BY <1>1 DEF SliceInv, ReadSoFar
<1>4. PICK m : m = source.group
  OBVIOUS
<1>5. /\ ask.offset < file.total
      /\ m \in Selected(ask.offset, ask.limit)
      /\ source.stop = End(m)
      /\ source.rest = {h \in Selected(ask.offset, ask.limit) : h > m}
      /\ source.from + source.skip = ask.offset
  BY <1>1, <1>3, <1>4 DEF Aimed
<1>6. PICK n : n = First(source.rest)
  OBVIOUS
<1>7. n = m + 1 /\ n \in source.rest /\ n \in Groups /\ groups[n].first_row = End(m)
  BY <1>1, <1>2, <1>3, <1>5, <1>6, NextSelected
<1>8. /\ m \in Nat /\ n \in Nat /\ n # 0 /\ End(n) \in Nat /\ End(n) <= file.total
      /\ End(m) <= End(n) /\ groups[n].first_row \in Nat
  <2>1. m \in Nat /\ n \in Nat /\ n # 0
    BY <1>5, <1>7, GroupFacts DEF Selected, Groups
  <2>2. End(n) <= first_row /\ first_row = file.total
    BY <1>1, <1>3, <1>7 DEF TiledSoFar, BlockSoFar
  <2>3. QED
    BY <1>7, <2>1, <2>2, GroupFacts
<1>9. source' = [source EXCEPT !.next = groups[n].first_row, !.stop = End(n),
                               !.group = n, !.rest = @ \ {n}]
  BY <1>6 DEF NextGroup
<1>10. /\ source' \in Source
       /\ source'.next = source.next /\ source'.stop = End(n)
       /\ source'.group = n /\ source'.rest = source.rest \ {n}
       /\ source'.skip = source.skip /\ source'.from = source.from
  <2>1. groups[n].first_row = source.next
    BY <1>1, <1>5, <1>7
  <2>2. QED
    BY <1>2, <1>8, <1>9, <2>1 DEF Source
<1>11. source.rest \ {n} = {h \in Selected(ask.offset, ask.limit) : h > n}
  <2>1. Selected(ask.offset, ask.limit) \subseteq Nat
    BY GroupFacts DEF Selected, Groups
  <2>2. QED
    BY <1>5, <1>7, <1>8, <2>1
<1>12. Aimed(source', ask.offset, ask.limit)
  BY <1>5, <1>7, <1>8, <1>10, <1>11 DEF Aimed
<1>13. Aimed(source, ask.offset, ask.limit)'
  BY <1>1, <1>12 DEF Aimed, Selected, End, inspectVars
<1>14. TypeOK'
  BY <1>1, <1>10 DEF TypeOK, inspectVars, Source
<1>15. source'.next = source'.from + skipped' /\ source'.next <= source'.stop
  BY <1>1, <1>2, <1>3, <1>5, <1>8, <1>10 DEF ReadSoFar, Source
<1>16. ReadSoFar'
  BY <1>1, <1>3, <1>10, <1>13, <1>15 DEF ReadSoFar
<1>17. QED
  BY <1>1, <1>3, <1>14, <1>16, LocatorsKept DEF SliceInv, SliceRight

\* The numbers of a reader that has nothing left: o rows were skipped and all
\* the others taken.
Drained(from, skip, seen, l, o, rows) ==
  /\ from + seen = rows
  /\ Less(seen, skip) < l
  /\ o < rows => from + skip = o
  /\ o >= rows => from + skip >= rows

AllTaken(had, l, o, rows) ==
  had = IF o < rows THEN (IF l < rows - o THEN l ELSE rows - o) ELSE 0

\* A reader at the end of its source has what there was.
LEMMA EndArithmetic ==
  ASSUME NEW from \in Nat, NEW skip \in Nat, NEW seen \in Nat, NEW l \in Nat,
         NEW o \in Nat, NEW rows \in Nat, Drained(from, skip, seen, l, o, rows)
  PROVE  AllTaken(Less(seen, skip), l, o, rows)
BY DEF Less, Drained, AllTaken

\* A reader at the end of its source is done.
LEMMA EndOfSourceStep ==
  ASSUME TypeOK, SliceInv, EndOfSource
  PROVE  TypeOK' /\ SliceInv'
<1>1. /\ pc = "read" /\ ask.limit > 0 /\ source.next = source.stop
      /\ source.rest = {} /\ pc' \in {"done", "failed"}
      /\ UNCHANGED <<file, inspectVars, ask, readVars>>
  BY DEF EndOfSource
<1>2. /\ source \in Source /\ file.total \in Nat
      /\ source.next \in Nat /\ source.from \in Nat /\ source.skip \in Nat
      /\ ask.offset \in Nat /\ ask.limit \in Nat /\ skipped \in Nat /\ collected \in Nat
  BY DEF TypeOK, Source
<1>3. ReadSoFar /\ Aimed(source, ask.offset, ask.limit) /\ TiledSoFar /\ BlockSoFar
  BY <1>1 DEF SliceInv, ReadSoFar
<1>4. TypeOK'
  BY <1>1 DEF TypeOK, inspectVars, readVars
<1>5. source.next = source.from + skipped /\ collected = Less(skipped, source.skip)
      /\ collected < ask.limit
  BY <1>1, <1>3 DEF ReadSoFar
<1>6. source.next = file.total
  <2>1. CASE source.group = 0
    BY <1>1, <1>3, <2>1 DEF Aimed
  <2>2. CASE source.group # 0
    <3>1. PICK m : m = source.group
      OBVIOUS
    <3>2. /\ ask.offset < file.total
          /\ m \in Selected(ask.offset, ask.limit)
          /\ source.next = End(m)
          /\ {h \in Selected(ask.offset, ask.limit) : h > m} = {}
          /\ source.from + source.skip = ask.offset
      BY <1>1, <1>3, <2>2, <3>1 DEF Aimed
    <3>3. /\ m \in Groups /\ m \in Nat /\ End(m) \in Nat /\ End(m) > ask.offset
          /\ groups[m].first_row <= End(m) /\ groups[m].first_row \in Nat
          /\ End(m) <= file.total /\ first_row = file.total
      BY <1>1, <1>3, <3>2, GroupFacts DEF Selected, Groups, TiledSoFar, BlockSoFar
    <3>4. End(m) < ask.offset + ask.limit
      BY <1>2, <1>5, <3>2, <3>3 DEF Less
    <3>5. ASSUME End(m) < file.total PROVE FALSE
      <4>1. PICK h \in Groups : Holds(h, End(m))
        BY <1>2, <1>3, <3>3, <3>5 DEF TiledSoFar
      <4>2. /\ h \in Nat /\ groups[h].first_row \in Nat /\ End(h) \in Nat
            /\ groups[h].first_row <= End(m) /\ End(m) < End(h)
        BY <4>1, GroupFacts DEF Holds, Groups
      <4>3. h < m => End(h) <= groups[m].first_row
        BY <1>3, <3>3 DEF TiledSoFar
      <4>4. h > m
        BY <3>3, <4>2, <4>3
      <4>5. groups[h].first_row < Smaller(ask.offset + ask.limit, file.total)
        BY <1>2, <3>3, <3>4, <3>5, <4>2 DEF Smaller
      <4>6. h \in Selected(ask.offset, ask.limit)
        BY <1>2, <3>3, <4>2, <4>5, GroupFacts DEF Selected
      <4>7. QED
        BY <3>2, <4>4, <4>6
    <3>6. QED
      BY <1>2, <3>2, <3>3, <3>5
  <2>3. QED
    BY <2>1, <2>2
<1>7. collected = IF ask.offset < file.total
                    THEN (IF ask.limit < file.total - ask.offset
                            THEN ask.limit ELSE file.total - ask.offset)
                    ELSE 0
  <2>1. /\ ask.offset < file.total => source.from + source.skip = ask.offset
        /\ ask.offset >= file.total => source.from + source.skip >= file.total
    BY <1>3 DEF Aimed
  <2>2. Drained(source.from, source.skip, skipped, ask.limit, ask.offset, file.total)
    BY <1>5, <1>6, <2>1 DEF Drained
  <2>3. AllTaken(collected, ask.limit, ask.offset, file.total)
    BY <1>2, <1>5, <2>2, EndArithmetic
  <2>4. QED
    BY <2>3 DEF AllTaken
<1>8. \A k \in 0 .. (collected - 1) : out[k] = ask.offset + k
  BY <1>1, <1>3 DEF ReadSoFar
<1>9. SliceRight'
  BY <1>1, <1>4, <1>7, <1>8, DoneRight DEF readVars
<1>10. QED
  BY <1>1, <1>3, <1>4, <1>9, LocatorsKept DEF SliceInv, ReadSoFar

\* Returning the rows keeps the invariant.
LEMMA CollectStep ==
  ASSUME TypeOK, SliceInv, Collect
  PROVE  TypeOK' /\ SliceInv'
<1>1. /\ pc \in {"done", "failed"} /\ pc' = "idle"
      /\ ask' = [offset |-> 0, limit |-> 0]
      /\ source' = Closed /\ skipped' = 0 /\ collected' = 0 /\ out' = <<>>
      /\ UNCHANGED <<file, inspectVars>>
  BY DEF Collect
<1>2. TypeOK'
  BY <1>1, EmptyOut, ClosedType DEF TypeOK, inspectVars, Source
<1>3. QED
  BY <1>1, <1>2, LocatorsKept DEF SliceInv, ReadSoFar, SliceRight
-----------------------------------------------------------------------------
\* The initial states satisfy the invariant.
LEMMA InitInv == Init => SliceInv
<1> SUFFICES ASSUME Init PROVE SliceInv
  OBVIOUS
<1>1. /\ groups = <<>> /\ first_row = 0 /\ row_count = 0 /\ pc = "inspect"
      /\ block_start = NoBlock /\ file.total \in Nat /\ Len(groups) = 0
  BY RowsAssumption DEF Init
<1>2. Groups = {}
  BY <1>1 DEF Groups
<1>3. QED
  BY <1>1, <1>2 DEF SliceInv, TiledSoFar, BlockSoFar, ReadSoFar, SliceRight, NoBlock

\* Every step keeps types and invariant.
LEMMA NextStep ==
  ASSUME TypeOK, SliceInv, [Next]_vars
  PROVE  TypeOK' /\ SliceInv'
<1>1. CASE UNCHANGED vars
  <2>1. TypeOK'
    BY <1>1 DEF vars, TypeOK
  <2>2. TiledSoFar'
    BY <1>1 DEF vars, SliceInv, TiledSoFar, Groups, End, Holds
  <2>3. BlockSoFar'
    BY <1>1 DEF vars, SliceInv, BlockSoFar, Strided
  <2>4. ReadSoFar'
    <3>1. Aimed(source, ask.offset, ask.limit)' = Aimed(source, ask.offset, ask.limit)
      BY <1>1 DEF vars, Aimed, Selected, Groups, End
    <3>2. QED
      BY <1>1, <3>1 DEF vars, SliceInv, ReadSoFar
  <2>5. SliceRight'
    BY <1>1 DEF vars, SliceInv, SliceRight, Selected
  <2>6. QED
    BY <2>1, <2>2, <2>3, <2>4, <2>5 DEF SliceInv
<1>2. CASE Read
  BY <1>2, ReadNothingStep, ReadBatchStep, NextGroupStep, EndOfSourceStep DEF Read
<1>3. QED
  BY <1>1, <1>2, InspectStep, SliceStep, CollectStep DEF Next

\* Types and invariant hold in every reachable state.
LEMMA SliceInvHolds == Spec => [](TypeOK /\ SliceInv)
<1>1. Init => TypeOK /\ SliceInv
  BY InitTypeOK, InitInv
<1>2. TypeOK /\ SliceInv /\ [Next]_vars => (TypeOK /\ SliceInv)'
  BY NextStep
<1>3. QED
  BY <1>1, <1>2, PTL DEF Spec

\* Every variable keeps its type: the locators the inspector writes and the
\* counters of the reader never leave the naturals, saturating subtraction
\* included (inspect.rs, ranges.rs, formats/mod.rs:91-132).
THEOREM RowsTyped == Spec => []TypeOK
BY SliceInvHolds, PTL

\* The rows a slice returns are exactly the rows of the range that exist, in
\* order, through the map or not (slice.rs:21-183).
THEOREM SliceIsRight == Spec => []SliceRight
<1>1. SliceInv => SliceRight
  BY DEF SliceInv
<1>2. QED
  BY <1>1, SliceInvHolds, PTL

\* The locators of an inspected file tile it (inspect.rs:125-528).
THEOREM LocatorsCover == Spec => []LocatorsTile
<1>1. TypeOK /\ SliceInv => LocatorsTile
  BY GroupFacts DEF SliceInv, TiledSoFar, BlockSoFar, LocatorsTile
<1>2. QED
  BY <1>1, SliceInvHolds, PTL
-----------------------------------------------------------------------------
(* Refinement. *)

\* A reader that fails was opened past the last row of the range.
LEMMA FailsPastEnd ==
  ASSUME TypeOK, SliceInv, EndOfSource, pc' = "failed"
  PROVE  ask.offset >= file.total
<1>1. pc = "read" /\ PastBracket
  BY DEF EndOfSource
<1>2. /\ source.from \in Nat /\ source.skip \in Nat /\ file.total \in Nat
      /\ ask.offset \in Nat
  BY RowsAssumption DEF TypeOK
<1>3. ask.offset < file.total => source.from + source.skip = ask.offset
  BY <1>1 DEF SliceInv, ReadSoFar, Aimed
<1>4. QED
  BY <1>1, <1>2, <1>3 DEF PastBracket

\* An initial state is an initial state of the contract.
LEMMA ContractInit == Init => Contract!Init
BY DEF Init, Contract!Init

\* Every step of the reader is a step of the contract or leaves what the caller
\* sees unchanged.
LEMMA ContractStep ==
  ASSUME TypeOK, SliceInv, SliceInv', [Next]_vars
  PROVE  [Contract!Next]_(Contract!sliceVars)
<1> USE DEF Contract!sliceVars
<1>1. CASE UNCHANGED vars
  BY <1>1 DEF vars
<1>2. CASE Inspect
  <2>1. pc = "inspect" /\ pc' \in {"inspect", "idle"} /\ UNCHANGED <<file, ask>>
    BY <1>2 DEF Inspect, InspectRow, InspectGroup, InspectBlock, InspectEnd
  <2>2. QED
    BY <2>1
<1>3. ASSUME NEW o \in Offsets, NEW l \in Limits, NEW healthy \in BOOLEAN,
             Slice(o, l, healthy)
      PROVE  Contract!Next
  <2>1. pc = "idle" /\ pc' = "read" /\ ask' = [offset |-> o, limit |-> l] /\ file' = file
    BY <1>3 DEF Slice
  <2>2. Contract!Ask(o, l)
    BY <2>1 DEF Contract!Ask
  <2>3. QED
    BY <2>2 DEF Contract!Next
<1>4. CASE Read
  <2>1. pc = "read" /\ pc' \in {"read", "done", "failed"} /\ UNCHANGED <<file, ask>>
    BY <1>4 DEF Read, ReadNothing, ReadBatch, NextBatch, Take, NextGroup, EndOfSource
  <2>2. CASE pc' = "read"
    BY <2>1, <2>2
  <2>3. CASE pc' = "done"
    <3>1. out' = Contract!Wanted(file.total, ask)
      BY <2>1, <2>3 DEF SliceInv, SliceRight
    <3>2. Contract!Answer
      BY <2>1, <2>3, <3>1 DEF Contract!Answer
    <3>3. QED
      BY <3>2 DEF Contract!Next
  <2>4. CASE pc' = "failed"
    <3>1. EndOfSource
      BY <1>4, <2>1, <2>4 DEF Read, ReadNothing, ReadBatch, NextBatch, Take, NextGroup
    <3>2. ask.offset >= file.total
      BY <2>4, <3>1, FailsPastEnd
    <3>3. Contract!Refuse
      BY <2>1, <2>4, <3>2 DEF Contract!Refuse
    <3>4. QED
      BY <3>3 DEF Contract!Next
  <2>5. QED
    BY <2>1, <2>2, <2>3, <2>4
<1>5. CASE Collect
  <2>1. /\ pc' = "idle" /\ file' = file /\ ask' = [offset |-> 0, limit |-> 0]
        /\ pc \in {"done", "failed"}
    BY <1>5 DEF Collect
  <2>2. QED
    BY <2>1 DEF Contract!Next, Contract!Collect
<1>6. QED
  BY <1>1, <1>2, <1>3, <1>4, <1>5 DEF Next

\* slice_rows refines its contract (RowSlice) for every kind of file, layout,
\* stride, batching and range: the rows asked for, and an error only past the
\* end of the file.
THEOREM SlicesKeepContract == Spec => KeepsContract
<1>1. TypeOK /\ SliceInv /\ SliceInv' /\ [Next]_vars => [Contract!Next]_(Contract!sliceVars)
  BY ContractStep
<1>2. QED
  BY <1>1, ContractInit, SliceInvHolds, PTL
     DEF Spec, KeepsContract, Contract!Spec
-----------------------------------------------------------------------------
(* GlobalRows. *)

\* Saturating addition.
LEMMA PlusFacts ==
  ASSUME NEW a \in Nat, NEW b \in Nat, a <= MaxRow
  PROVE  /\ Plus(a, b) \in Nat
         /\ a <= Plus(a, b) /\ Plus(a, b) <= MaxRow
         /\ Plus(a, b) <= a + b
         /\ Plus(a, b) < MaxRow => Plus(a, b) = a + b
         /\ \A c \in Nat : c < MaxRow /\ c < a + b => c < Plus(a, b)
BY WidthAssumption DEF Plus, Lesser

GlobalInv == GlobalTypeOK /\ NumberedSoFar /\ EntriesWhole

\* The fields of an entry have their types.
LEMMA EntryFacts ==
  ASSUME GlobalTypeOK, NEW p \in Paths
  PROVE  /\ entries[p] \in Entry
         /\ entries[p].rows \in Nat /\ entries[p].first \in Nat /\ p \in Nat
BY PathsAssumption DEF GlobalTypeOK, Entry
-----------------------------------------------------------------------------
(* The numbering. *)

\* A missing file has a typed entry.
LEMMA MissingEntry == Missing \in Entry
<1>1. <<>> \in Seq(Group)
  OBVIOUS
<1>2. QED
  BY <1>1 DEF Missing, Entry

\* A newly inspected file has a typed and whole entry.
LEMMA InspectedEntry ==
  ASSUME NEW layout \in Layouts
  PROVE  /\ Inspected(layout) \in Entry
         /\ Inspected(layout).rows <= MaxRow
         /\ Inspected(layout).groups = <<>> \/ Tiles(Inspected(layout))
<1>1. layout.rows \in Nat /\ layout.groups \in Seq(Group) /\ layout.rows <= MaxRow
  BY LayoutsAssumption, WidthAssumption DEF Layout
<1>2. layout.groups = <<>> \/ Tiles(layout)
  BY LayoutsAssumption
<1>3. QED
  BY <1>1, <1>2 DEF Inspected, Entry, Tiles

\* A vector of whole entries, before the loop, whatever numbers it carries.
WholeMap(map) ==
  /\ map \in [Paths -> Entry]
  /\ \A p \in Paths : map[p].rows <= MaxRow /\ (map[p].groups = <<>> \/ Tiles(map[p]))

\* Numbering a new vector of entries starts with the invariant.
LEMMA StartStep ==
  ASSUME NEW map, WholeMap(map), StartNumbering(map), UNCHANGED saved, GlobalInv
  PROVE  GlobalInv'
<1>1. entries' = map /\ todo' = Indexed(map) /\ next_row' = 0 /\ turn' = "number"
  BY DEF StartNumbering
<1>2. GlobalTypeOK'
  BY <1>1 DEF GlobalTypeOK, WholeMap, Indexed, GlobalInv
<1>3. Numbered' = {} /\ todo' = Indexed(entries')
  BY <1>1 DEF Numbered, Indexed
<1>4. NumberedSoFar'
  BY <1>1, <1>3, WidthAssumption DEF NumberedSoFar, Indexed
<1>5. EntriesWhole'
  BY <1>1 DEF WholeEntry, EntriesWhole, WholeMap, GlobalInv
<1>6. QED
  BY <1>2, <1>4, <1>5 DEF GlobalInv

\* Building or healing a map keeps the invariant.
LEMMA IndexStep ==
  ASSUME GlobalInv, NEW kept, NEW inspected, NEW layout \in [inspected -> Layouts],
         Index(kept, inspected, layout)
  PROVE  GlobalInv'
<1> DEFINE map == [p \in Paths |->
                     IF p \in inspected THEN Inspected(layout[p])
                     ELSE IF p \in kept THEN entries[p] ELSE Missing]
<1>1. ASSUME NEW p \in Paths
      PROVE  /\ map[p] \in Entry /\ map[p].rows <= MaxRow
             /\ map[p].groups = <<>> \/ Tiles(map[p])
  <2>1. CASE p \in inspected
    BY <2>1, InspectedEntry
  <2>2. CASE p \notin inspected /\ p \in kept
    BY <2>2 DEF GlobalInv, GlobalTypeOK, WholeEntry, EntriesWhole
  <2>3. CASE p \notin inspected /\ p \notin kept
    <3>1. Missing.rows = 0 /\ Missing.groups = <<>>
      BY DEF Missing
    <3>2. QED
      BY <2>3, <3>1, MissingEntry, WidthAssumption
  <2>4. QED
    BY <2>1, <2>2, <2>3
<1>2. WholeMap(map)
  BY <1>1 DEF WholeMap
<1>3. StartNumbering(map) /\ UNCHANGED saved
  BY DEF Index
<1>4. QED
  BY <1>2, <1>3, StartStep

\* One turn of the numbering loop keeps the invariant.
LEMMA NumberStep ==
  ASSUME GlobalInv, NumberEntry
  PROVE  GlobalInv'
<1> USE DEF GlobalInv
<1>1. PICK p \in todo :
        /\ \A q \in todo : p <= q
        /\ entries' = [entries EXCEPT ![p].first = next_row]
        /\ next_row' = Plus(next_row, entries[p].rows)
        /\ todo' = todo \ {p}
        /\ UNCHANGED <<saved, turn>> /\ turn = "number"
  BY DEF NumberEntry
<1>2. /\ p \in Paths /\ p \in Nat /\ entries[p].indexed /\ next_row \in Nat
      /\ next_row <= MaxRow /\ entries[p].rows \in Nat
  BY <1>1, EntryFacts DEF GlobalTypeOK, NumberedSoFar, Indexed
<1>3. PICK e \in Entry : e = [entries[p] EXCEPT !.first = next_row]
  BY <1>2, EntryFacts DEF Entry
<1>4. /\ e.first = next_row /\ e.rows = entries[p].rows
      /\ e.groups = entries[p].groups /\ e.indexed = entries[p].indexed
  BY <1>2, <1>3, EntryFacts DEF Entry
<1>5. entries' = [entries EXCEPT ![p] = e]
  BY <1>1, <1>2, <1>3 DEF GlobalTypeOK
<1>6. entries'[p] = e /\ \A q \in Paths : q # p => entries'[q] = entries[q]
  BY <1>2, <1>5 DEF GlobalTypeOK
<1>7. /\ next_row' \in Nat /\ next_row <= next_row' /\ next_row' <= MaxRow
      /\ \A c \in Nat : c < next_row' => c < MaxRow
  BY <1>1, <1>2, PlusFacts, WidthAssumption
<1>8. GlobalTypeOK'
  BY <1>1, <1>2, <1>3, <1>5, <1>7 DEF GlobalTypeOK
<1>9. Indexed(entries)' = Indexed(entries)
  BY <1>4, <1>6 DEF Indexed
<1>10. Numbered' = Numbered \cup {p} /\ p \notin Numbered /\ Numbered \subseteq Paths
  BY <1>1, <1>2, <1>9 DEF Numbered, NumberedSoFar, Indexed
<1>11. EntryEnd(p)' = next_row' /\ \A q \in Numbered : EntryEnd(q)' = EntryEnd(q) /\ q # p
  BY <1>1, <1>4, <1>6, <1>10 DEF EntryEnd
<1>12. entries'[p].first = next_row /\ \A q \in Numbered : entries'[q] = entries[q]
  BY <1>4, <1>6, <1>10
<1>13. ASSUME NEW q \in Numbered', NEW r \in todo' PROVE q < r
  <2>1. CASE q = p
    <3>1. p <= r /\ r # p /\ r \in Nat
      BY <1>1, <1>13, PathsAssumption DEF GlobalTypeOK
    <3>2. QED
      BY <1>2, <2>1, <3>1
  <2>2. CASE q \in Numbered
    BY <1>1, <1>13, <2>2 DEF NumberedSoFar
  <2>3. QED
    BY <1>10, <2>1, <2>2
<1>14. ASSUME NEW q \in Numbered', NEW r \in Numbered', q < r
       PROVE  EntryEnd(q)' <= entries'[r].first
  <2>1. q # p
    <3>1. ASSUME q = p PROVE FALSE
      <4>1. r # p /\ r \in Numbered
        BY <1>2, <1>10, <1>14, <3>1
      <4>2. r < p /\ r \in Nat
        BY <1>1, <1>10, <4>1, PathsAssumption DEF NumberedSoFar
      <4>3. QED
        BY <1>2, <1>14, <3>1, <4>2
    <3>2. QED
      BY <3>1
  <2>2. q \in Numbered
    BY <1>10, <2>1
  <2>3. CASE r = p
    BY <1>11, <1>12, <2>2, <2>3 DEF NumberedSoFar
  <2>4. CASE r \in Numbered
    BY <1>11, <1>12, <1>14, <2>2, <2>4 DEF NumberedSoFar
  <2>5. QED
    BY <1>10, <2>3, <2>4
<1>15. ASSUME NEW q \in Numbered' PROVE entries'[q].first <= next_row' /\ EntryEnd(q)' <= next_row'
  <2>1. CASE q = p
    BY <1>2, <1>7, <1>11, <1>12, <2>1
  <2>2. CASE q \in Numbered
    <3>1. /\ EntryEnd(q) <= next_row /\ EntryEnd(q)' = EntryEnd(q)
          /\ entries[q].first <= next_row /\ entries'[q] = entries[q]
      BY <1>11, <1>12, <2>2 DEF NumberedSoFar
    <3>2. EntryEnd(q) \in Nat /\ entries[q].first \in Nat
      BY <1>10, <2>2, EntryFacts, WidthAssumption DEF EntryEnd, Plus, Lesser
    <3>3. QED
      BY <1>2, <1>7, <3>1, <3>2
  <2>3. QED
    BY <1>10, <2>1, <2>2
<1>16. ASSUME NEW row \in 0 .. (next_row' - 1)
       PROVE  \E q \in Numbered' : EntryHolds(q, row)'
  <2>1. CASE row < next_row
    <3>1. PICK q \in Numbered : EntryHolds(q, row)
      BY <1>2, <1>16, <2>1 DEF NumberedSoFar
    <3>2. EntryHolds(q, row)'
      BY <1>12, <3>1 DEF EntryHolds
    <3>3. QED
      BY <1>10, <3>2
  <2>2. CASE row >= next_row
    <3>1. row < Plus(entries'[p].first, entries'[p].rows) /\ entries'[p].indexed
      BY <1>1, <1>2, <1>4, <1>6, <1>7, <1>16
    <3>2. EntryHolds(p, row)'
      BY <1>12, <2>2, <3>1 DEF EntryHolds
    <3>3. QED
      BY <1>10, <3>2
  <2>3. QED
    BY <1>2, <1>7, <1>16, <2>1, <2>2
<1>17. NumberedSoFar'
  <2>1. todo' \subseteq Indexed(entries)' /\ (turn' = "ready" => todo' = {})
    BY <1>1, <1>9 DEF NumberedSoFar
  <2>2. QED
    BY <1>7, <1>13, <1>14, <1>15, <1>16, <2>1 DEF NumberedSoFar
<1>18. EntriesWhole'
  <2>1. ASSUME NEW q \in Paths
        PROVE  /\ entries'[q].rows <= MaxRow
               /\ entries'[q].groups = <<>> \/ Tiles(entries'[q])
    BY <1>2, <1>4, <1>6 DEF WholeEntry, EntriesWhole, Tiles
  <2>2. QED
    BY <1>1, <2>1 DEF WholeEntry, EntriesWhole
<1>19. QED
  BY <1>8, <1>17, <1>18

\* An entry as the old format keeps it.
LEMMA LegacyEntry ==
  ASSUME NEW e \in Entry
  PROVE  /\ Legacy(e) \in Entry
         /\ Legacy(e).rows = e.rows
         /\ Legacy(e).groups = <<>>
<1>1. <<>> \in Seq(Group)
  OBVIOUS
<1>2. e.indexed \in BOOLEAN /\ e.rows \in Nat
  BY DEF Entry
<1>3. Legacy(e) = [indexed |-> e.indexed, rows |-> e.rows, groups |-> <<>>, first |-> 0]
  BY DEF Legacy
<1>4. QED
  BY <1>1, <1>2, <1>3 DEF Entry

\* Saving and loading keep the invariant.
LEMMA SaveStep ==
  ASSUME GlobalInv, NEW legacy \in BOOLEAN, Save(legacy)
  PROVE  GlobalInv'
<1>1. UNCHANGED <<entries, todo, next_row, turn>>
  BY DEF Save
<1>2. WholeMap(entries)
  BY DEF GlobalInv, GlobalTypeOK, WholeEntry, EntriesWhole, WholeMap
<1>3. WholeMap(saved')
  <2>1. CASE legacy
    <3>1. saved' = [p \in Paths |-> Legacy(entries[p])]
      BY <2>1 DEF Save, Legacy
    <3>2. ASSUME NEW p \in Paths
          PROVE  /\ saved'[p] \in Entry /\ saved'[p].rows = entries[p].rows
                 /\ saved'[p].groups = <<>>
      <4>1. entries[p] \in Entry
        BY EntryFacts DEF GlobalInv
      <4>2. saved'[p] = Legacy(entries[p])
        BY <3>1
      <4>3. QED
        BY <4>1, <4>2, LegacyEntry
    <3>3. QED
      BY <1>2, <3>1, <3>2 DEF WholeMap
  <2>2. CASE ~legacy
    BY <1>2, <2>2 DEF Save
  <2>3. QED
    BY <2>1, <2>2
<1>4. GlobalTypeOK' /\ EntriesWhole'
  BY <1>1, <1>3 DEF GlobalInv, GlobalTypeOK, WholeEntry, EntriesWhole, WholeMap
<1>5. NumberedSoFar'
  BY <1>1 DEF GlobalInv, NumberedSoFar, Numbered, Indexed, EntryEnd, EntryHolds
<1>6. QED
  BY <1>4, <1>5 DEF GlobalInv

\* An empty map is whole.
LEMMA GlobalStart == GlobalInit => GlobalInv
<1> SUFFICES ASSUME GlobalInit PROVE GlobalInv
  OBVIOUS
<1>1. entries = [p \in Paths |-> Missing] /\ saved = entries /\ todo = {}
      /\ next_row = 0 /\ turn = "ready"
  BY DEF GlobalInit
<1>2. GlobalTypeOK
  BY <1>1, MissingEntry DEF GlobalTypeOK
<1>3. Missing.rows = 0 /\ Missing.groups = <<>> /\ Missing.indexed = FALSE
  BY DEF Missing
<1>4. EntriesWhole
  <2>1. \A p \in Paths : entries[p] = Missing /\ saved[p] = Missing
    BY <1>1
  <2>2. WholeEntry(Missing)
    BY <1>3, WidthAssumption DEF WholeEntry
  <2>3. QED
    BY <2>1, <2>2 DEF EntriesWhole
<1>5. Indexed(entries) = {} /\ Numbered = {}
  BY <1>1, <1>3 DEF Indexed, Numbered
<1>6. NumberedSoFar
  BY <1>1, <1>5, WidthAssumption DEF NumberedSoFar
<1>7. QED
  BY <1>2, <1>4, <1>6 DEF GlobalInv

\* Every step of the map keeps the invariant.
LEMMA GlobalStep ==
  ASSUME GlobalInv, [GlobalNext]_globalVars
  PROVE  GlobalInv'
<1>1. CASE EndNumbering
  BY <1>1 DEF EndNumbering, GlobalInv, GlobalTypeOK, WholeEntry, EntriesWhole, NumberedSoFar,
              Numbered, Indexed, EntryEnd, EntryHolds
<1>2. CASE Load
  <2>1. WholeMap(saved)
    BY DEF GlobalInv, GlobalTypeOK, WholeEntry, EntriesWhole, WholeMap
  <2>2. QED
    BY <1>2, <2>1, StartStep DEF Load
<1>3. CASE UNCHANGED globalVars
  BY <1>3 DEF globalVars, GlobalInv, GlobalTypeOK, WholeEntry, EntriesWhole, NumberedSoFar,
              Numbered, Indexed, EntryEnd, EntryHolds
<1>4. CASE \E kept \in SUBSET Paths, inspected \in SUBSET Paths :
             \E layout \in [inspected -> Layouts] : Index(kept, inspected, layout)
  BY <1>4, IndexStep
<1>5. CASE NumberEntry
  BY <1>5, NumberStep
<1>6. CASE \E legacy \in BOOLEAN : Save(legacy)
  BY <1>6, SaveStep
<1>7. QED
  BY <1>1, <1>2, <1>3, <1>4, <1>5, <1>6 DEF GlobalNext

\* The invariant holds in every reachable state.
LEMMA GlobalInvHolds == GlobalSpec => []GlobalInv
BY GlobalStart, GlobalStep, PTL DEF GlobalSpec
-----------------------------------------------------------------------------
(* The lookup. *)

\* The entry a lookup finds holds the row; no other entry does.
LEMMA FoundEntryFacts ==
  ASSUME GlobalInv, turn = "ready", NEW row \in Nat, IsFound(row)
  PROVE  FoundEntry(row) \in Paths /\ EntryHolds(FoundEntry(row), row) /\ FoundEntry(row) \in Numbered
<1>1. PICK p \in Paths : EntryHolds(p, row)
  BY DEF IsFound
<1>2. ASSUME NEW q \in Paths, EntryHolds(q, row) PROVE p <= q
  <2>1. /\ p \in Numbered /\ q \in Numbered /\ p \in Nat /\ q \in Nat
        /\ entries[p].first \in Nat
    BY <1>1, <1>2, EntryFacts DEF GlobalInv, NumberedSoFar, Numbered, Indexed, EntryHolds
  <2>2. q < p => EntryEnd(q) <= entries[p].first
    BY <2>1 DEF GlobalInv, NumberedSoFar
  <2>3. row < EntryEnd(q) /\ entries[p].first <= row /\ EntryEnd(q) \in Nat
    BY <1>1, <1>2, <2>1, EntryFacts, WidthAssumption DEF EntryHolds, EntryEnd, Plus, Lesser, GlobalInv
  <2>4. QED
    BY <2>1, <2>2, <2>3
<1>3. FoundEntry(row) \in Paths /\ EntryHolds(FoundEntry(row), row)
  BY <1>1, <1>2 DEF FoundEntry
<1>4. QED
  BY <1>3 DEF GlobalInv, NumberedSoFar, Numbered, Indexed, EntryHolds

\* What a ready catalog says of one indexed file.
LEMMA ReadyFacts ==
  ASSUME GlobalInv, turn = "ready", NEW p \in Paths, entries[p].indexed
  PROVE  /\ p \in Numbered /\ p \in Nat
         /\ entries[p].first \in Nat /\ entries[p].rows \in Nat /\ EntryEnd(p) \in Nat
         /\ entries[p].first <= EntryEnd(p) /\ EntryEnd(p) <= next_row /\ next_row <= MaxRow
         /\ next_row \in Nat
         /\ EntryEnd(p) < MaxRow => EntryEnd(p) = entries[p].first + entries[p].rows
         /\ EntryEnd(p) <= entries[p].first + entries[p].rows
<1>1. /\ p \in Numbered /\ EntryEnd(p) <= next_row /\ next_row <= MaxRow /\ next_row \in Nat
      /\ entries[p].first <= next_row
  BY DEF GlobalInv, NumberedSoFar, Numbered, Indexed, GlobalTypeOK
<1>2. entries[p].first \in Nat /\ entries[p].rows \in Nat /\ p \in Nat
  BY EntryFacts DEF GlobalInv
<1>3. entries[p].first <= MaxRow
  BY <1>1, <1>2, WidthAssumption
<1>4. QED
  BY <1>1, <1>2, <1>3, PlusFacts DEF EntryEnd

\* A row before another has a smaller place in the lake.
LEMMA RowsInOrder ==
  ASSUME GlobalInv, turn = "ready",
         NEW p \in Paths, NEW q \in Paths, entries[p].indexed, entries[q].indexed,
         p < q
  PROVE  EntryEnd(p) <= entries[q].first
BY ReadyFacts DEF GlobalInv, NumberedSoFar

\* In a ready catalog with the invariant every lookup is right.
LEMMA LookupRight ==
  ASSUME GlobalInv, turn = "ready",
         NEW row \in 0 .. (MaxRow - 1), NEW p \in Paths, NEW k \in 0 .. MaxRow
  PROVE  LET at == [path |-> p, offset |-> k]
             Passed == row > 0 /\ ~Precedes(Located(row - 1), at)
         IN IF IsFound(row)
              THEN /\ IsRow(Located(row))
                   /\ row > 0 => /\ IsFound(row - 1)
                                 /\ Precedes(Located(row - 1), Located(row))
                   /\ IsRow(at) /\ Precedes(at, Located(row)) => Passed
              ELSE IsRow(at) /\ (row > 0 => IsFound(row - 1)) => Passed
<1> DEFINE at == [path |-> p, offset |-> k]
           Passed == row > 0 /\ ~Precedes(Located(row - 1), at)
<1>0. row \in Nat /\ MaxRow \in Nat /\ row < MaxRow /\ k \in Nat /\ p \in Nat
  BY WidthAssumption, PathsAssumption
<1>1. ASSUME row > 0, IsFound(row - 1)
      PROVE  /\ FoundEntry(row - 1) \in Paths /\ FoundEntry(row - 1) \in Nat
             /\ entries[FoundEntry(row - 1)].indexed
             /\ entries[FoundEntry(row - 1)].first <= row - 1
             /\ row - 1 < EntryEnd(FoundEntry(row - 1))
  <2>1. row - 1 \in Nat
    BY <1>0, <1>1
  <2>2. QED
    BY <1>1, <2>1, FoundEntryFacts, PathsAssumption DEF EntryHolds, EntryEnd
\* A row before the one that follows global row row-1 is not after it.
<1>2. ASSUME row > 0, IsFound(row - 1), IsRow(at), EntryEnd(p) <= row,
             entries[p].first + entries[p].rows = EntryEnd(p)
      PROVE  ~Precedes(Located(row - 1), at)
  <2>1. PICK g \in Paths : g = FoundEntry(row - 1)
    BY <1>1, <1>2
  <2>2. /\ g \in Nat /\ entries[g].indexed /\ entries[g].first <= row - 1
        /\ row - 1 < EntryEnd(g)
    BY <1>1, <1>2, <2>1
  <2>3. entries[p].indexed /\ k < entries[p].rows
    BY <1>2 DEF IsRow
  <2>4. /\ entries[p].first \in Nat /\ entries[p].rows \in Nat
        /\ entries[g].first \in Nat /\ EntryEnd(g) \in Nat /\ EntryEnd(p) \in Nat
    BY <2>2, <2>3, ReadyFacts
  <2>5. ~(g < p)
    <3>1. ASSUME g < p PROVE FALSE
      <4>1. EntryEnd(g) <= entries[p].first
        BY <2>2, <2>3, <3>1, RowsInOrder
      <4>2. QED
        BY <1>0, <1>2, <2>2, <2>3, <2>4, <4>1
    <3>2. QED
      BY <3>1
  <2>6. g = p => ~(row - 1 - entries[g].first < k)
    BY <1>0, <1>2, <2>2, <2>3, <2>4
  <2>7. Located(row - 1) = [path |-> g, offset |-> row - 1 - entries[g].first]
    BY <2>1 DEF Located
  <2>8. QED
    BY <2>5, <2>6, <2>7 DEF Precedes
<1>3. CASE IsFound(row)
  <2>1. PICK f \in Paths : f = FoundEntry(row)
    BY <1>0, <1>3, FoundEntryFacts
  <2>2. /\ f \in Nat /\ entries[f].indexed /\ entries[f].first <= row
        /\ row < EntryEnd(f)
    BY <1>0, <1>3, <2>1, FoundEntryFacts, PathsAssumption DEF EntryHolds, EntryEnd
  <2>3. /\ entries[f].first \in Nat /\ entries[f].rows \in Nat /\ EntryEnd(f) \in Nat
        /\ EntryEnd(f) <= next_row /\ next_row \in Nat
        /\ EntryEnd(f) <= entries[f].first + entries[f].rows
    BY <2>2, ReadyFacts
  <2>4. Located(row) = [path |-> f, offset |-> row - entries[f].first]
    BY <2>1 DEF Located
  <2>5. IsRow(Located(row))
    BY <1>0, <2>2, <2>3, <2>4 DEF IsRow
  <2>6. ASSUME row > 0
        PROVE  IsFound(row - 1) /\ Precedes(Located(row - 1), Located(row))
    <3>1. row - 1 \in 0 .. (next_row - 1)
      BY <1>0, <2>2, <2>3, <2>6
    <3>2. IsFound(row - 1)
      BY <3>1 DEF GlobalInv, NumberedSoFar, Numbered, Indexed, IsFound
    <3>3. PICK g \in Paths : g = FoundEntry(row - 1)
      BY <1>1, <2>6, <3>2
    <3>4. /\ g \in Nat /\ entries[g].indexed /\ entries[g].first <= row - 1
          /\ row - 1 < EntryEnd(g)
      BY <1>1, <2>6, <3>2, <3>3
    <3>5. entries[g].first \in Nat /\ EntryEnd(g) \in Nat
      BY <3>4, ReadyFacts
    <3>6. ~(f < g)
      <4>1. ASSUME f < g PROVE FALSE
        <5>1. EntryEnd(f) <= entries[g].first
          BY <2>2, <3>4, <4>1, RowsInOrder
        <5>2. QED
          BY <1>0, <2>2, <2>3, <3>4, <3>5, <5>1
      <4>2. QED
        BY <4>1
    <3>7. Located(row - 1) = [path |-> g, offset |-> row - 1 - entries[g].first]
      BY <3>3 DEF Located
    <3>8. g < f \/ (g = f /\ row - 1 - entries[g].first < row - entries[f].first)
      BY <1>0, <2>2, <2>3, <3>4, <3>5, <3>6
    <3>9. QED
      BY <2>4, <3>2, <3>7, <3>8 DEF Precedes
  <2>7. ASSUME IsRow(at), Precedes(at, Located(row)) PROVE Passed
    <3>1. p < f \/ (p = f /\ k < row - entries[f].first)
      BY <2>4, <2>7 DEF Precedes
    <3>2. entries[p].indexed /\ k < entries[p].rows
      BY <2>7 DEF IsRow
    <3>3. /\ entries[p].first \in Nat /\ entries[p].rows \in Nat /\ EntryEnd(p) \in Nat
          /\ EntryEnd(p) < MaxRow => EntryEnd(p) = entries[p].first + entries[p].rows
      BY <3>2, ReadyFacts
    <3>4. CASE p < f
      <4>1. EntryEnd(p) <= entries[f].first
        BY <2>2, <3>2, <3>4, RowsInOrder
      <4>2. EntryEnd(p) <= row /\ entries[p].first + entries[p].rows = EntryEnd(p) /\ row > 0
        BY <1>0, <2>2, <2>3, <3>2, <3>3, <4>1
      <4>3. QED
        BY <1>2, <2>6, <2>7, <4>2
    <3>5. CASE p = f /\ k < row - entries[f].first
      <4>1. row > 0
        BY <1>0, <2>3, <3>5
      <4>2. PICK g \in Paths : g = FoundEntry(row - 1)
        BY <1>1, <2>6, <4>1
      <4>3. /\ g \in Nat /\ entries[g].indexed /\ entries[g].first <= row - 1
            /\ row - 1 < EntryEnd(g)
        BY <1>1, <2>6, <4>1, <4>2
      <4>4. entries[g].first \in Nat /\ EntryEnd(g) \in Nat
        BY <4>3, ReadyFacts
      <4>5. ~(g < p)
        <5>1. ASSUME g < p PROVE FALSE
          <6>1. EntryEnd(g) <= entries[p].first
            BY <3>2, <4>3, <5>1, RowsInOrder
          <6>2. QED
            BY <1>0, <2>2, <2>3, <3>5, <4>3, <4>4, <6>1
        <5>2. QED
          BY <5>1
      <4>6. g = p => ~(row - 1 - entries[g].first < k)
        BY <1>0, <2>3, <3>5
      <4>7. Located(row - 1) = [path |-> g, offset |-> row - 1 - entries[g].first]
        BY <4>2 DEF Located
      <4>8. QED
        BY <4>1, <4>5, <4>6, <4>7 DEF Precedes
    <3>6. QED
      BY <3>1, <3>4, <3>5
  <2>8. QED
    BY <1>3, <2>5, <2>6, <2>7
<1>4. CASE ~IsFound(row)
  <2>1. next_row <= row
    BY <1>0, <1>4 DEF GlobalInv, NumberedSoFar, Numbered, Indexed, IsFound, GlobalTypeOK
  <2>2. ASSUME IsRow(at), row > 0 => IsFound(row - 1) PROVE Passed
    <3>1. entries[p].indexed /\ k < entries[p].rows
      BY <2>2 DEF IsRow
    <3>2. /\ entries[p].first \in Nat /\ entries[p].rows \in Nat /\ EntryEnd(p) \in Nat
          /\ EntryEnd(p) < MaxRow => EntryEnd(p) = entries[p].first + entries[p].rows
          /\ EntryEnd(p) <= next_row /\ next_row \in Nat
      BY <3>1, ReadyFacts
    <3>3. EntryEnd(p) <= row /\ entries[p].first + entries[p].rows = EntryEnd(p) /\ row > 0
      BY <1>0, <2>1, <3>1, <3>2
    <3>4. QED
      BY <1>2, <2>2, <3>3
  <2>3. QED
    BY <1>4, <2>2
<1>5. QED
  BY <1>3, <1>4

\* Entries, numbered, saved, loaded or healed in any order, keep their types.
THEOREM NumbersTyped == GlobalSpec => []GlobalTypeOK
<1>1. GlobalInv => GlobalTypeOK
  BY DEF GlobalInv
<1>2. QED
  BY <1>1, GlobalInvHolds, PTL

\* Global row numbers enumerate the rows of the lake in rel_path order, without
\* a gap or a repetition, after any history of indexing, healing, saving (also
\* in the old format) and loading (model.rs:424-442, 608-641).
THEOREM GlobalRowsAreRight == GlobalSpec => []LocateRight
<1>1. GlobalInv => LocateRight
  BY LookupRight DEF LocateRight
<1>2. QED
  BY <1>1, GlobalInvHolds, PTL

\* The row group a lookup reports holds the row (model.rs:619-640).
THEOREM RowGroupsAreRight == GlobalSpec => []GroupRight
<1>1. GlobalInv => GroupRight
  <2> SUFFICES ASSUME GlobalInv, turn = "ready", NEW row \in 0 .. (MaxRow - 1),
                      IsFound(row), entries[FoundEntry(row)].groups # <<>>
               PROVE  /\ RowGroup(FoundEntry(row), Located(row).offset)
                           \in DOMAIN entries[FoundEntry(row)].groups
                      /\ InGroup(FoundEntry(row),
                                 RowGroup(FoundEntry(row), Located(row).offset),
                                 Located(row).offset)
    <3>1. ASSUME GlobalInv, NEW p \in Paths, NEW n \in DOMAIN entries[p].groups, NEW k \in Nat,
                 InGroup(p, n, k)
          PROVE  /\ entries[p].groups[n].first_row <= k
                 /\ k < entries[p].groups[n].first_row + entries[p].groups[n].row_count
      <4>1. entries[p].groups[n] \in Group
        <5>1. entries[p] \in Entry
          BY <3>1, EntryFacts DEF GlobalInv
        <5>2. QED
          BY <5>1 DEF Entry
      <4>2. QED
        BY <3>1, <4>1, WidthAssumption DEF InGroup, Plus, Lesser, Group
    <3>2. ASSUME GlobalInv, turn = "ready", NEW row \in 0 .. (MaxRow - 1), IsFound(row)
          PROVE  FoundEntry(row) \in Paths /\ Located(row).offset \in Nat
      <4>1. row \in Nat
        BY WidthAssumption
      <4>2. FoundEntry(row) \in Paths /\ EntryHolds(FoundEntry(row), row)
        BY <3>2, <4>1, FoundEntryFacts
      <4>3. entries[FoundEntry(row)].first \in Nat /\ entries[FoundEntry(row)].first <= row
        BY <3>2, <4>2, EntryFacts DEF GlobalInv, EntryHolds
      <4>4. QED
        BY <4>1, <4>2, <4>3 DEF Located
    <3>3. QED
      BY <3>1, <3>2 DEF GroupRight
  <2>1. PICK p \in Paths : p = FoundEntry(row)
    BY WidthAssumption, FoundEntryFacts
  <2>2. row \in Nat /\ row < MaxRow /\ EntryHolds(p, row)
    BY <2>1, WidthAssumption, FoundEntryFacts
  <2>3. /\ entries[p].first \in Nat /\ entries[p].rows \in Nat
        /\ entries[p].first <= row /\ row < entries[p].first + entries[p].rows
    BY <2>2, ReadyFacts DEF EntryHolds, EntryEnd
  <2>4. PICK k \in Nat : k = row - entries[p].first
    BY <2>2, <2>3
  <2>5. Located(row).offset = k /\ k < entries[p].rows /\ k < MaxRow
    <3>1. Located(row).offset = row - entries[p].first
      BY <2>1 DEF Located
    <3>2. QED
      BY <2>2, <2>3, <2>4, <3>1, WidthAssumption
  <2>6. Tiles(entries[p]) /\ entries[p].groups \in Seq(Group)
    <3>1. entries[p] \in Entry
      BY EntryFacts DEF GlobalInv
    <3>2. entries[p].groups = <<>> \/ Tiles(entries[p])
      BY DEF GlobalInv, WholeEntry, EntriesWhole
    <3>3. QED
      BY <2>1, <3>1, <3>2 DEF Entry
  <2>7. PICK n \in DOMAIN entries[p].groups :
          entries[p].groups[n].first_row <= k
            /\ k < entries[p].groups[n].first_row + entries[p].groups[n].row_count
    <3>1. k \in 0 .. (entries[p].rows - 1)
      BY <2>3, <2>5
    <3>2. \A i \in 0 .. (entries[p].rows - 1) : \E n \in DOMAIN entries[p].groups :
            /\ entries[p].groups[n].first_row <= i
            /\ i < entries[p].groups[n].first_row + entries[p].groups[n].row_count
      BY <2>6, Zenon DEF Tiles
    <3>3. QED
      BY <3>1, <3>2, Zenon
  <2>8. InGroup(p, n, k)
    <3>1. entries[p].groups[n] \in Group
      BY <2>6
    <3>2. QED
      BY <2>4, <2>5, <2>7, <3>1, WidthAssumption DEF InGroup, Plus, Lesser, Group
  <2>9. PICK T : T = {m \in DOMAIN entries[p].groups : InGroup(p, m, k)}
    OBVIOUS
  <2>10. T \subseteq Nat /\ T # {}
    BY <2>6, <2>8, <2>9
  <2>11. PICK m \in T : \A y \in T : m <= y
    BY <2>10, LeastExists
  <2>12. RowGroup(p, k) \in DOMAIN entries[p].groups /\ InGroup(p, RowGroup(p, k), k)
    BY <2>8, <2>9, <2>11 DEF RowGroup
  <2>13. QED
    BY <2>1, <2>5, <2>12
<1>2. QED
  BY <1>1, GlobalInvHolds, PTL

\* The global row numbers of any lake, whatever was built, healed, saved and
\* loaded, enumerate its rows, and the row groups named with them hold them
\* (model.rs:424-442, 603-641).
THEOREM RowsAreNumbered == GlobalSpec => []RowsNumbered
  BY GlobalRowsAreRight, RowGroupsAreRight, PTL DEF RowsNumbered
-----------------------------------------------------------------------------
(* ObjectRows. *)

\* The files.
Objects == [kind: {"msgpack", "sheet"}, values: Seq({"map", "empty", "other", "bad"}),
            stride: ObjectStrides, batch: ChunkSizes]

\* The values of a file.
LEMMA ValueFacts ==
  ASSUME ObjectTypeOK
  PROVE  /\ Size \in Nat /\ DOMAIN Values = 1 .. Size
         /\ \A i \in DOMAIN Values : Values[i] \in {"map", "empty", "other", "bad"}
         /\ objects.stride \in Nat \ {0} /\ objects.batch \in Nat \ {0}
         /\ objects.kind \in {"msgpack", "sheet"}
<1>1. objects \in Objects
  BY DEF ObjectTypeOK, Objects
<1>2. /\ objects.values \in Seq({"map", "empty", "other", "bad"})
      /\ objects.stride \in ObjectStrides /\ objects.batch \in ChunkSizes
      /\ objects.kind \in {"msgpack", "sheet"}
  BY <1>1 DEF Objects
<1>3. /\ Len(objects.values) \in Nat
      /\ DOMAIN objects.values = 1 .. Len(objects.values)
  BY <1>2
<1>4. \A i \in DOMAIN objects.values : objects.values[i] \in {"map", "empty", "other", "bad"}
  BY <1>2
<1>5. objects.stride \in Nat \ {0} /\ objects.batch \in Nat \ {0}
  BY <1>2, ObjectsAssumption
<1>6. QED
  BY <1>2, <1>3, <1>4, <1>5 DEF Values, Size

\* The values in front of the first map are an interval.
LEMMA LeadFacts ==
  ASSUME ObjectTypeOK
  PROVE  /\ Lead \in Nat /\ Lead <= Size /\ Leading = 1 .. Lead
         /\ \A i \in 1 .. Lead : Values[i] = "other"
         /\ Lead < Size => Values[Lead + 1] # "other"
<1> DEFINE T == {i \in 1 .. Size : Values[i] # "other"}
<1>1. Size \in Nat /\ DOMAIN Values = 1 .. Size
  BY ValueFacts
<1>2. PICK n \in 0 .. Size : /\ \A i \in 1 .. n : Values[i] = "other"
                             /\ n < Size => Values[n + 1] # "other"
  <2>1. CASE T = {}
    BY <1>1, <2>1
  <2>2. CASE T # {}
    <3>1. PICK x \in T : \A y \in T : x <= y
      <4>1. T \subseteq Nat
        BY <1>1
      <4> HIDE DEF T
      <4>2. QED
        BY <2>2, <4>1, LeastExists
    <3>2. x - 1 \in 0 .. Size /\ (x - 1) + 1 = x
      BY <1>1, <3>1
    <3>3. \A i \in 1 .. x - 1 : Values[i] = "other"
      BY <1>1, <3>1
    <3>4. QED
      BY <3>1, <3>2, <3>3
  <2>3. QED
    BY <2>1, <2>2
<1>3. Leading = 1 .. n
  BY <1>1, <1>2 DEF Leading
<1>4. Cardinality(1 .. n) = n
  BY <1>1, FS_Interval
<1>5. Lead = n
  BY <1>3, <1>4 DEF Lead
<1>6. QED
  BY <1>1, <1>2, <1>3, <1>5

\* The numbers after p up to q.
LEMMA IntervalSize ==
  ASSUME NEW p \in Nat, NEW q \in Nat, p <= q
  PROVE  Cardinality(p + 1 .. q) = q - p
<1>1. \A a, b \in Int : Cardinality(a .. b) = IF a > b THEN 0 ELSE b - a + 1
  BY FS_Interval
<1>2. p + 1 \in Int /\ q \in Int
  OBVIOUS
<1>3. Cardinality(p + 1 .. q) = IF p + 1 > q THEN 0 ELSE q - (p + 1) + 1
  BY <1>1, <1>2
<1>4. QED
  BY <1>3

\* The rows from p on, if the first that cannot be read follows q.
LEMMA RowsFromFacts ==
  ASSUME ObjectTypeOK, NEW p \in Nat, NEW q \in Nat, p <= q, NoneBad(p, q),
         q >= Size \/ Values[q + 1] = "bad"
  PROVE  RowsFrom(p) = [k \in 1 .. q - p |-> p + k] /\ Len(RowsFrom(p)) = q - p
<1> DEFINE good == {i \in p + 1 .. Size : \A j \in p + 1 .. i : Values[j] # "bad"}
<1>1. Size \in Nat
  BY ValueFacts
<1>2. good = p + 1 .. q
  BY <1>1 DEF NoneBad
<1>3. Cardinality(p + 1 .. q) = q - p
  BY IntervalSize
<1>4. RowsFrom(p) = [k \in 1 .. q - p |-> p + k]
  BY <1>2, <1>3 DEF RowsFrom
<1>5. QED
  BY <1>4

\* There are at least as many rows as have been pulled.
LEMMA RowsFromBound ==
  ASSUME ObjectTypeOK, NEW p \in Nat, NEW q \in Nat, p <= q, NoneBad(p, q)
  PROVE  Len(RowsFrom(p)) \in Nat /\ q - p <= Len(RowsFrom(p))
<1> DEFINE good == {i \in p + 1 .. Size : \A j \in p + 1 .. i : Values[j] # "bad"}
<1>1. Size \in Nat
  BY ValueFacts
<1>2. p + 1 .. q \subseteq good /\ good \subseteq 1 .. Size
  BY <1>1 DEF NoneBad
<1>3. Cardinality(p + 1 .. q) = q - p /\ IsFiniteSet(1 .. Size)
  BY <1>1, IntervalSize, FS_Interval
<1>4. IsFiniteSet(good)
  BY <1>2, <1>3, FS_Subset
<1>5. Cardinality(good) \in Nat /\ q - p <= Cardinality(good)
  BY <1>2, <1>3, <1>4, FS_Subset, FS_CardinalityType
<1>6. Len(RowsFrom(p)) = Cardinality(good)
  BY <1>5 DEF RowsFrom
<1>7. QED
  BY <1>5, <1>6

\* One more block of rows.
LEMMA OneMore ==
  ASSUME NEW n \in Nat, NEW s \in Nat
  PROVE  n * s \in Nat /\ (n + 1) * s = n * s + s
OBVIOUS

Piece == [first: Nat, count: 1 .. objects.stride, byte: 0 .. Size]

\* A block recorded behind full ones.
LEMMA TileMore ==
  ASSUME ObjectTypeOK, NEW list \in Seq(Piece), NEW n \in Nat, BlocksTile(list, n),
         n = Len(list) * objects.stride, NEW c \in 1 .. objects.stride,
         NEW y \in 0 .. Size, objects.kind = "msgpack" => y = Lead + n
  PROVE  /\ BlocksTile(Append(list, [first |-> n, count |-> c, byte |-> y]), n + c)
         /\ Append(list, [first |-> n, count |-> c, byte |-> y]) \in Seq(Piece)
<1> DEFINE r == [first |-> n, count |-> c, byte |-> y]
           more == Append(list, r)
<1>1. objects.stride \in Nat \ {0} /\ Lead \in Nat /\ Size \in Nat
  BY ValueFacts, LeadFacts
<1>2. r \in Piece /\ r.first = n /\ r.count = c /\ r.byte = y
  BY DEF Piece
<1>3. /\ Len(list) \in Nat /\ DOMAIN list = 1 .. Len(list)
      /\ \A b \in 1 .. Len(list) : list[b] \in Piece
  OBVIOUS
<1>4. /\ more \in Seq(Piece) /\ Len(more) = Len(list) + 1 /\ DOMAIN more = 1 .. Len(list) + 1
      /\ \A b \in 1 .. Len(list) : more[b] = list[b]
      /\ more[Len(list) + 1] = r
      /\ more # <<>>
  <2> HIDE DEF r
  <2>1. QED
    BY <1>2, <1>3
<1> HIDE DEF more
<1>5. \A b \in 1 .. Len(list) : list[b].first \in Nat /\ list[b].count \in Nat
  BY <1>1, <1>3 DEF Piece
<1>6. ASSUME Len(list) > 0 PROVE list[Len(list)].count = objects.stride
  <2>1. PICK k \in Nat : k + 1 = Len(list)
    <3>1. Len(list) - 1 \in Nat /\ (Len(list) - 1) + 1 = Len(list)
      BY <1>3, <1>6
    <3>2. QED
      BY <3>1
  <2>2. list[k + 1].first = k * objects.stride
    BY <1>3, <2>1 DEF BlocksTile
  <2>3. (k + 1) * objects.stride = k * objects.stride + objects.stride
    BY <1>1, <2>1, OneMore
  <2>4. list[k + 1].first + list[k + 1].count = n
    BY <1>3, <1>6, <2>1 DEF BlocksTile, Last
  <2>5. k * objects.stride \in Nat
    BY <1>1, <2>1, OneMore
  <2>6. QED
    BY <1>1, <1>3, <1>5, <2>1, <2>2, <2>3, <2>4, <2>5
<1>7. ASSUME NEW b \in 1 .. Len(list) + 1
      PROVE  /\ more[b].first = (b - 1) * objects.stride
             /\ b < Len(list) + 1 => more[b].count = objects.stride
             /\ objects.kind = "msgpack" => more[b].byte = Lead + more[b].first
             /\ more[b].first + more[b].count <= n + c
  <2>1. CASE b = Len(list) + 1
    BY <1>2, <1>3, <1>4, <2>1
  <2>2. CASE b \in 1 .. Len(list)
    <3>1. more[b] = list[b] /\ b \in DOMAIN list
      BY <1>3, <1>4, <2>2
    <3>2. /\ list[b].first = (b - 1) * objects.stride
          /\ b < Len(list) => list[b].count = objects.stride
          /\ objects.kind = "msgpack" => list[b].byte = Lead + list[b].first
          /\ list[b].first + list[b].count <= n
      BY <3>1 DEF BlocksTile
    <3>3. list[b].count = objects.stride
      BY <1>3, <1>6, <2>2, <3>2
    <3>4. list[b].first + list[b].count <= n + c
      BY <1>5, <2>2, <3>2
    <3>5. QED
      BY <3>1, <3>2, <3>3, <3>4
  <2>3. QED
    BY <1>3, <2>1, <2>2
<1>8. Last(more).first + Last(more).count = n + c
  BY <1>2, <1>3, <1>4 DEF Last
<1>9. BlocksTile(more, n + c)
  BY <1>4, <1>7, <1>8 DEF BlocksTile
<1>10. QED
  BY <1>4, <1>9 DEF more

\* What every step leaves alone.
LEMMA ObjectsKept ==
  ASSUME ObjectTypeOK, [ObjectNext]_objectVars
  PROVE  /\ objects' = objects /\ Values' = Values /\ Size' = Size
         /\ Leading' = Leading /\ Lead' = Lead /\ SheetRows' = SheetRows
         /\ (SheetsAreSound => SheetsAreSound')
<1>1. objects' = objects
  <2>1. InspectObject \/ InspectBad \/ InspectLast \/ InspectSheet => objects' = objects
    BY DEF InspectObject, InspectBad, InspectLast, InspectSheet
  <2>2. ASSUME NEW p, OpenAt(p) PROVE objects' = objects
    BY <2>2 DEF OpenAt
  <2>3. OpenMapped => objects' = objects
    BY <2>2 DEF OpenMapped
  <2>4. Open => objects' = objects
    <3>1. Open => OpenAt(1) \/ OpenAt(Lead) \/ objects' = objects
      BY ValueFacts DEF Open
    <3>2. QED
      BY <2>2, <3>1
  <2>5. PullRow \/ PullBad \/ Deliver \/ DeliverError \/ Finish \/ AfterError
          => objects' = objects
    BY DEF PullRow, PullBad, Deliver, DeliverError, Finish, AfterError
  <2>6. QED
    BY <2>1, <2>3, <2>4, <2>5 DEF ObjectNext, objectVars
<1>2. Values' = Values
  BY <1>1 DEF Values
<1>3. Size' = Size /\ Leading' = Leading
  BY <1>2 DEF Size, Leading
<1>4. Lead' = Lead /\ SheetRows' = SheetRows
  BY <1>3 DEF Lead, SheetRows
<1>5. SheetsAreSound => SheetsAreSound'
  BY <1>1, <1>2 DEF SheetsAreSound
<1>6. QED
  BY <1>1, <1>2, <1>3, <1>4, <1>5

\* The initial states.
LEMMA ObjectsStart == ObjectInit => ObjectTypeOK /\ ObjectInv
<1> SUFFICES ASSUME ObjectInit PROVE ObjectTypeOK /\ ObjectInv
  OBVIOUS
<1>1. objects \in Objects /\ SheetsAreSound
  <2>1. ASSUME NEW A PROVE SeqsUpTo(A, MaxObjects) \subseteq Seq(A)
    BY ObjectsAssumption DEF SeqsUpTo
  <2>2. CASE objects \in [kind: {"msgpack"},
                          values: SeqsUpTo({"map", "empty", "other", "bad"}, MaxObjects),
                          stride: ObjectStrides, batch: ChunkSizes]
    BY <2>1, <2>2 DEF Objects, SheetsAreSound
  <2>3. CASE objects \in [kind: {"sheet"}, values: SeqsUpTo({"map"}, MaxObjects),
                          stride: ObjectStrides, batch: ChunkSizes]
    <3>1. objects.values \in Seq({"map"}) /\ objects.kind = "sheet"
          /\ objects.stride \in ObjectStrides /\ objects.batch \in ChunkSizes
          /\ objects = [kind |-> objects.kind, values |-> objects.values,
                        stride |-> objects.stride, batch |-> objects.batch]
      BY <2>1, <2>3
    <3>2. objects.values \in Seq({"map", "empty", "other", "bad"})
      BY <3>1
    <3>3. \A i \in DOMAIN objects.values : objects.values[i] = "map"
      BY <3>1
    <3>4. QED
      BY <3>1, <3>2, <3>3 DEF Objects, SheetsAreSound, Values
  <2>4. QED
    BY <2>2, <2>3 DEF ObjectInit
<1>2. /\ look = [at |-> 0, first |-> 0, count |-> 0, start |-> NoStart, found |-> FALSE]
      /\ blocks = <<>> /\ checked = "going"
      /\ chunker = [at |-> 0, done |-> FALSE, buffer |-> <<>>]
      /\ opened = 0 /\ given = <<>> /\ stage = "inspect"
  BY DEF ObjectInit, ObjectStart
<1>3. ObjectTypeOK
  <2>1. Size \in Nat /\ objects.stride \in Nat \ {0} /\ objects.batch \in Nat \ {0}
    <3>1. /\ objects.values \in Seq({"map", "empty", "other", "bad"})
          /\ objects.stride \in ObjectStrides /\ objects.batch \in ChunkSizes
      BY <1>1 DEF Objects
    <3>2. Len(objects.values) \in Nat
      BY <3>1
    <3>3. QED
      BY <3>1, <3>2, ObjectsAssumption DEF Size, Values
  <2>2. look \in [at: 0 .. Size, first: Nat, count: 0 .. objects.stride - 1,
                  start: -1 .. Size - 1, found: BOOLEAN]
    BY <1>2, <2>1 DEF NoStart
  <2>3. chunker \in [at: Nat, done: BOOLEAN, buffer: Seq(1 .. Size)]
    BY <1>2
  <2>4. Len(chunker.buffer) <= objects.batch
    BY <1>2, <2>1
  <2>5. QED
    BY <1>1, <1>2, <2>2, <2>3, <2>4 DEF ObjectTypeOK, Objects
<1>4. Size \in Nat /\ Lead \in Nat /\ objects.stride \in Nat /\ SheetRows \in Nat
  BY <1>3, ValueFacts, LeadFacts DEF SheetRows
<1>5. LookSoFar
  <2>1. BlocksTile(<<>>, 0)
    BY DEF BlocksTile
  <2>2. NoneBad(0, 0)
    BY DEF NoneBad
  <2>3. Len(<<>>) * objects.stride = 0
    BY <1>4
  <2>4. QED
    BY <1>2, <1>4, <2>1, <2>2, <2>3 DEF LookSoFar
<1>6. QED
  BY <1>1, <1>2, <1>3, <1>5
     DEF ObjectInv, LookEnded, UnreadSoFar, PulledSoFar, GivenSoFar, DamageAgreed

ObjectsInv == ObjectTypeOK /\ ObjectInv

LookType == [at: 0 .. Size, first: Nat, count: 0 .. objects.stride - 1,
             start: -1 .. Size - 1, found: BOOLEAN]

\* The parts of the types that a step of the inspector may change.
LEMMA LookTypes ==
  ASSUME ObjectTypeOK
  PROVE  /\ look \in LookType /\ blocks \in Seq(Piece)
         /\ look.at \in Nat /\ look.at <= Size /\ look.first \in Nat
         /\ look.count \in Nat /\ look.count < objects.stride
         /\ look.start \in Int /\ look.start >= -1 /\ look.start < Size
         /\ look.found \in BOOLEAN
         /\ Len(blocks) \in Nat
<1>1. look \in LookType
  BY DEF ObjectTypeOK, LookType
<1>2. blocks \in Seq(Piece)
  BY DEF ObjectTypeOK, Piece
<1>3. Len(blocks) \in Nat
  BY <1>2
<1>4. Size \in Nat /\ objects.stride \in Nat \ {0}
  BY ValueFacts
<1>5. /\ look.at \in 0 .. Size /\ look.first \in Nat
      /\ look.count \in 0 .. objects.stride - 1
      /\ look.start \in -1 .. Size - 1 /\ look.found \in BOOLEAN
  BY <1>1 DEF LookType
<1>6. QED
  BY <1>1, <1>2, <1>3, <1>4, <1>5

Inspection == InspectObject \/ InspectBad \/ InspectLast \/ InspectSheet

\* A step of the inspector leaves the reader alone.
LEMMA InspectionKeeps ==
  ASSUME ObjectsInv, Inspection, look' \in LookType, blocks' \in Seq(Piece)
  PROVE  /\ ObjectTypeOK' /\ SheetsAreSound'
         /\ UnreadSoFar' /\ PulledSoFar' /\ GivenSoFar' /\ DamageAgreed'
<1>1. /\ objects' = objects /\ Values' = Values /\ Size' = Size /\ Lead' = Lead
      /\ SheetsAreSound'
  BY ObjectsKept DEF ObjectsInv, ObjectInv, ObjectNext, Inspection
<1>2. /\ chunker' = chunker /\ opened' = opened /\ given' = given
      /\ stage = "inspect" /\ stage' \in {"inspect", "idle"}
      /\ checked' \in {checked, "done", "failed"}
  BY DEF Inspection, InspectObject, InspectBad, InspectLast, InspectSheet
<1>3. ObjectTypeOK'
  BY <1>1, <1>2 DEF ObjectsInv, ObjectTypeOK, LookType, Piece
<1>4. UnreadSoFar'
  BY <1>2 DEF ObjectsInv, ObjectInv, UnreadSoFar
<1>5. PulledSoFar' /\ GivenSoFar' /\ DamageAgreed'
  BY <1>2 DEF PulledSoFar, GivenSoFar, DamageAgreed
<1>6. QED
  BY <1>1, <1>3, <1>4, <1>5

\* One value of a MessagePack file.
LEMMA InspectObjectStep ==
  ASSUME ObjectsInv, InspectObject
  PROVE  ObjectsInv'
<1>1. /\ objects' = objects /\ Values' = Values /\ Size' = Size /\ Lead' = Lead
  BY ObjectsKept DEF ObjectsInv, ObjectNext
<1>2. /\ look \in LookType /\ blocks \in Seq(Piece)
      /\ look.at \in Nat /\ look.at <= Size /\ look.first \in Nat
      /\ look.count \in Nat /\ look.count < objects.stride
      /\ look.start \in Int /\ look.start >= -1 /\ look.start < Size
      /\ look.found \in BOOLEAN
      /\ Len(blocks) \in Nat
  BY LookTypes DEF ObjectsInv
<1>3. /\ Size \in Nat /\ objects.stride \in Nat \ {0}
      /\ Lead \in Nat /\ Lead <= Size
      /\ \A i \in 1 .. Lead : Values[i] = "other"
      /\ Lead < Size => Values[Lead + 1] # "other"
  BY ValueFacts, LeadFacts DEF ObjectsInv
<1>4. /\ stage = "inspect" /\ objects.kind = "msgpack"
      /\ look.at < Size /\ Values[look.at + 1] # "bad"
      /\ stage' = stage /\ checked' = checked
  BY DEF InspectObject
<1>5. /\ checked = "going" /\ BlocksTile(blocks, look.first)
      /\ look.first = Len(blocks) * objects.stride
      /\ NoneBad(0, look.at)
      /\ look.found <=> look.at > Lead
      /\ look.found => look.first + look.count = look.at - Lead
      /\ ~look.found => look.first = 0 /\ look.count = 0
      /\ look.start = IF look.count = 0 THEN NoStart ELSE Lead + look.first
  BY <1>4 DEF ObjectsInv, ObjectInv, LookSoFar
<1>6. NoneBad(0, look.at + 1)
  <2>1. \A i \in 1 .. look.at : Values[i] # "bad"
    BY <1>5 DEF NoneBad
  <2>2. \A i \in 1 .. look.at + 1 : i <= Size /\ Values[i] # "bad"
    BY <1>2, <1>3, <1>4, <2>1
  <2>3. QED
    BY <2>2 DEF NoneBad
<1>a. look.found => look.at > Lead
  BY <1>5
<1>b. ~look.found => look.at <= Lead
  BY <1>2, <1>3, <1>5
<1>c. ~look.found => look.first = 0 /\ look.count = 0
  BY <1>5
<1> DEFINE start0 == IF look.start = NoStart THEN look.at ELSE look.start
           full == look.count + 1 = objects.stride
<1>7. CASE ~look.found /\ Values[look.at + 1] = "other"
  <2>1. look' = [look EXCEPT !.at = @ + 1] /\ blocks' = blocks
    BY <1>7 DEF InspectObject
  <2>2. look.at + 1 <= Lead
    <3>1. look.at <= Lead
      BY <1>7, <1>b
    <3>2. look.at # Lead
      BY <1>3, <1>4, <1>7
    <3>3. QED
      BY <1>2, <1>3, <3>1, <3>2
  <2>3. look' \in LookType
    <3>1. look.at + 1 \in 0 .. Size /\ look \in LookType
      BY <1>2, <1>3, <1>4
    <3>2. QED
      BY <2>1, <3>1 DEF LookType
  <2>4. /\ look'.at = look.at + 1 /\ look'.first = look.first /\ look'.count = look.count
        /\ look'.start = look.start /\ look'.found = look.found
    BY <1>2, <2>1 DEF LookType
  <2>5. NoneBad(0, look.at)' /\ BlocksTile(blocks, look.first)'
    BY <1>1, <1>5, <1>6, <2>1, <2>4 DEF NoneBad, BlocksTile
  <2>6. LookSoFar'
    BY <1>1, <1>2, <1>3, <1>4, <1>5, <1>7, <2>1, <2>2, <2>4, <2>5 DEF LookSoFar, NoStart
  <2>7. LookEnded'
    BY <1>4 DEF LookEnded
  <2>8. QED
    BY <1>2, <2>1, <2>3, <2>6, <2>7, InspectionKeeps DEF Inspection, ObjectsInv, ObjectInv
<1>8. CASE ~(~look.found /\ Values[look.at + 1] = "other")
  <2>1. /\ IF full THEN Record(objects.stride, start0) ELSE UNCHANGED blocks
        /\ look' = [at    |-> look.at + 1, found |-> TRUE,
                    first |-> IF full THEN look.first + objects.stride ELSE look.first,
                    count |-> IF full THEN 0 ELSE look.count + 1,
                    start |-> IF full THEN NoStart ELSE start0]
    BY <1>8 DEF InspectObject
  <2>2. look.at >= Lead /\ look.first + look.count = look.at - Lead
    <3>1. CASE look.found
      BY <1>2, <1>3, <1>5, <1>a, <3>1
    <3>2. CASE ~look.found
      <4>1. look.at <= Lead /\ Values[look.at + 1] # "other"
        BY <1>8, <1>b, <3>2
      <4>2. ~(look.at + 1 \in 1 .. Lead)
        BY <1>3, <4>1
      <4>3. look.at = Lead
        BY <1>2, <1>3, <4>1, <4>2
      <4>4. QED
        BY <1>2, <1>3, <1>c, <3>2, <4>3
    <3>3. QED
      BY <3>1, <3>2
  <2>3. start0 = Lead + look.first /\ start0 \in 0 .. Size - 1
    <3>1. CASE look.count = 0
      <4>1. look.start = -1 /\ start0 = look.at
        BY <1>5, <3>1 DEF NoStart
      <4>2. QED
        BY <1>2, <1>3, <1>4, <2>2, <3>1, <4>1
    <3>2. CASE look.count # 0
      <4>1. look.start = Lead + look.first /\ look.start # -1
        BY <1>2, <1>3, <1>5, <3>2
      <4>2. start0 = look.start
        BY <4>1 DEF NoStart
      <4>3. QED
        BY <1>2, <1>3, <1>4, <2>2, <4>1, <4>2
    <3>3. QED
      BY <3>1, <3>2
  <2> HIDE DEF start0
  <2>4. LookEnded'
    BY <1>4 DEF LookEnded
  <2>5. CASE full
    <3>1. look' = [at |-> look.at + 1, found |-> TRUE, first |-> look.first + objects.stride,
                   count |-> 0, start |-> NoStart]
      BY <2>1, <2>5
    <3>2. blocks' = Append(blocks, [first |-> look.first, count |-> objects.stride,
                                    byte |-> start0])
      BY <2>1, <2>5 DEF Record
    <3>3. /\ BlocksTile(blocks', look.first + objects.stride)
          /\ blocks' \in Seq(Piece)
      <4>1. PICK n \in Nat, c \in 1 .. objects.stride, y \in 0 .. Size :
              n = look.first /\ c = objects.stride /\ y = start0
        BY <1>2, <1>3, <2>3
      <4>2. PICK list \in Seq(Piece) : list = blocks
        BY <1>2
      <4>3. BlocksTile(list, n) /\ n = Len(list) * objects.stride /\ y = Lead + n
        BY <1>5, <2>3, <4>1, <4>2
      <4>4. /\ BlocksTile(Append(list, [first |-> n, count |-> c, byte |-> y]), n + c)
            /\ Append(list, [first |-> n, count |-> c, byte |-> y]) \in Seq(Piece)
        BY <4>3, TileMore DEF ObjectsInv
      <4>5. blocks' = Append(list, [first |-> n, count |-> c, byte |-> y])
        BY <3>2, <4>1, <4>2
      <4>6. QED
        BY <4>1, <4>4, <4>5
    <3>4. BlocksTile(blocks, look.first)'
      BY <1>1, <3>1, <3>3 DEF BlocksTile
    <3>5. NoneBad(0, look.at)'
      BY <1>1, <1>6, <3>1 DEF NoneBad
    <3>6. look' \in LookType
      BY <1>2, <1>3, <1>4, <3>1 DEF LookType, NoStart
    <3>7. look'.first = Len(blocks') * objects.stride
      <4>1. Len(blocks') = Len(blocks) + 1
        BY <1>2, <3>2
      <4>2. (Len(blocks) + 1) * objects.stride = Len(blocks) * objects.stride + objects.stride
        BY <1>2, <1>3, OneMore
      <4>3. QED
        BY <1>5, <3>1, <4>1, <4>2
    <3>8. LookSoFar'
      <4>1. /\ look'.at = look.at + 1 /\ look'.found = TRUE /\ look'.count = 0
            /\ look'.first = look.first + objects.stride /\ look'.start = NoStart
        BY <3>1
      <4>2. look'.at > Lead /\ look'.first + look'.count = look'.at - Lead
        <5>0. /\ look.at \in Nat /\ look.first \in Nat /\ look.count \in Nat /\ Lead \in Nat
              /\ objects.stride \in Nat
          BY <1>2, <1>3
        <5>1. look.at + 1 > Lead
          BY <2>2, <5>0
        <5>2. look.first + objects.stride + 0 = look.at + 1 - Lead
          BY <2>2, <2>5, <5>0
        <5>3. QED
          BY <4>1, <5>0, <5>1, <5>2
      <4>3. QED
        BY <1>1, <1>4, <1>5, <3>4, <3>5, <3>7, <4>1, <4>2 DEF LookSoFar
    <3>9. QED
      BY <2>4, <3>3, <3>6, <3>8, InspectionKeeps DEF Inspection, ObjectsInv, ObjectInv
  <2>6. CASE ~full
    <3>1. look' = [at |-> look.at + 1, found |-> TRUE, first |-> look.first,
                   count |-> look.count + 1, start |-> start0]
      BY <2>1, <2>6
    <3>2. blocks' = blocks
      BY <2>1, <2>6
    <3>3. look' \in LookType
      <4>1. look.at + 1 \in 0 .. Size /\ look.count + 1 \in 0 .. objects.stride - 1
        BY <1>2, <1>3, <1>4, <2>6
      <4>2. start0 \in -1 .. Size - 1
        BY <1>3, <2>3
      <4>3. QED
        BY <1>2, <3>1, <4>1, <4>2 DEF LookType
    <3>4. BlocksTile(blocks, look.first)'
      BY <1>1, <1>5, <3>1, <3>2 DEF BlocksTile
    <3>5. NoneBad(0, look.at)'
      BY <1>1, <1>6, <3>1 DEF NoneBad
    <3>6. LookSoFar'
      <4>1. /\ look'.at = look.at + 1 /\ look'.found = TRUE
            /\ look'.count = look.count + 1 /\ look'.count # 0
            /\ look'.first = look.first /\ look'.start = Lead + look.first
        BY <1>2, <2>3, <3>1
      <4>2. look'.at > Lead /\ look'.first + look'.count = look'.at - Lead
        <5>0. /\ look.at \in Nat /\ look.first \in Nat /\ look.count \in Nat /\ Lead \in Nat
              /\ objects.stride \in Nat
          BY <1>2, <1>3
        <5>1. look.at + 1 > Lead
          BY <2>2, <5>0
        <5>2. look.first + (look.count + 1) = look.at + 1 - Lead
          BY <2>2, <5>0
        <5>3. QED
          BY <4>1, <5>0, <5>1, <5>2
      <4>3. look'.first = Len(blocks') * objects.stride
        BY <1>5, <3>2, <4>1
      <4>4. QED
        BY <1>1, <1>4, <1>5, <3>4, <3>5, <4>1, <4>2, <4>3 DEF LookSoFar
    <3>7. QED
      BY <1>2, <2>4, <3>2, <3>3, <3>6, InspectionKeeps DEF Inspection, ObjectsInv, ObjectInv
  <2>7. QED
    BY <2>5, <2>6
<1>9. QED
  BY <1>7, <1>8

\* A value that cannot be decoded.
LEMMA InspectBadStep ==
  ASSUME ObjectsInv, InspectBad
  PROVE  ObjectsInv'
<1>1. objects' = objects /\ Values' = Values
  BY ObjectsKept DEF ObjectsInv, ObjectNext
<1>2. /\ objects.kind = "msgpack" /\ look.at < Size /\ Values[look.at + 1] = "bad"
      /\ look' = look /\ blocks' = blocks /\ checked' = "failed" /\ stage' = "idle"
  BY DEF InspectBad
<1>3. look \in LookType /\ blocks \in Seq(Piece) /\ look.at \in Nat
  BY LookTypes DEF ObjectsInv
<1>4. look.at + 1 \in DOMAIN Values
  BY <1>2, <1>3, ValueFacts DEF ObjectsInv
<1>5. look' \in LookType /\ blocks' \in Seq(Piece)
  BY <1>2, <1>3
<1>6. LookSoFar'
  BY <1>2 DEF LookSoFar
<1>7. LookEnded'
  BY <1>1, <1>2, <1>4 DEF LookEnded
<1>8. QED
  BY <1>5, <1>6, <1>7, InspectionKeeps DEF Inspection, ObjectsInv, ObjectInv

\* How many rows a file has that holds nothing bad.
LEMMA SoundRows ==
  ASSUME ObjectTypeOK, NoneBad(0, Size)
  PROVE  Len(FileRows) = IF objects.kind = "sheet" THEN SheetRows ELSE Size - Lead
<1>1. Size \in Nat /\ Lead \in Nat /\ Lead <= Size /\ objects.kind \in {"msgpack", "sheet"}
  BY ValueFacts, LeadFacts
<1>2. \A p \in Nat : NoneBad(p, Size)
  BY <1>1 DEF NoneBad
<1>3. ASSUME NEW p \in Nat, p <= Size PROVE Len(RowsFrom(p)) = Size - p
  BY <1>1, <1>2, <1>3, RowsFromFacts
<1>4. CASE objects.kind = "sheet" /\ Size = 0
  <2>1. NoneBad(1, 1)
    BY DEF NoneBad
  <2>2. Len(RowsFrom(1)) = 1 - 1
    BY <1>1, <1>4, <2>1, RowsFromFacts
  <2>3. QED
    BY <1>4, <2>2 DEF FileRows, SheetRows
<1>5. CASE objects.kind = "sheet" /\ Size # 0
  <2>1. Len(RowsFrom(1)) = Size - 1
    BY <1>1, <1>3, <1>5
  <2>2. QED
    BY <1>5, <2>1 DEF FileRows, SheetRows
<1>6. CASE objects.kind = "msgpack"
  BY <1>1, <1>3, <1>6 DEF FileRows
<1>7. QED
  BY <1>1, <1>4, <1>5, <1>6

\* The end of a MessagePack file.
LEMMA InspectLastStep ==
  ASSUME ObjectsInv, InspectLast
  PROVE  ObjectsInv'
<1>1. objects' = objects /\ Values' = Values /\ Size' = Size /\ Lead' = Lead
  BY ObjectsKept DEF ObjectsInv, ObjectNext
<1>2. /\ stage = "inspect" /\ objects.kind = "msgpack" /\ look.at = Size
      /\ IF look.count > 0 THEN Record(look.count, look.start) ELSE UNCHANGED blocks
      /\ look' = look /\ checked' = "done" /\ stage' = "idle"
  BY DEF InspectLast
<1>3. /\ look \in LookType /\ blocks \in Seq(Piece) /\ Len(blocks) \in Nat
      /\ look.first \in Nat /\ look.count \in Nat /\ look.count < objects.stride
      /\ look.start < Size
  BY LookTypes DEF ObjectsInv
<1>4. /\ Size \in Nat /\ objects.stride \in Nat \ {0} /\ Lead \in Nat /\ Lead <= Size
  BY ValueFacts, LeadFacts DEF ObjectsInv
<1>5. /\ BlocksTile(blocks, look.first)
      /\ look.first = Len(blocks) * objects.stride
      /\ NoneBad(0, Size)
      /\ look.found <=> Size > Lead
      /\ look.found => look.first + look.count = Size - Lead
      /\ ~look.found => look.first = 0 /\ look.count = 0
      /\ look.start = IF look.count = 0 THEN NoStart ELSE Lead + look.first
  BY <1>2 DEF ObjectsInv, ObjectInv, LookSoFar
<1>6. look.first + look.count = Size - Lead
  <2>1. CASE look.found
    BY <1>5, <2>1
  <2>2. CASE ~look.found
    <3>1. ~(Size > Lead) /\ look.first = 0 /\ look.count = 0
      BY <1>5, <2>2
    <3>2. QED
      BY <1>4, <3>1
  <2>3. QED
    BY <2>1, <2>2
<1>7. Len(FileRows) = Size - Lead
  BY <1>2, <1>5, SoundRows DEF ObjectsInv
<1>8. BlocksTile(blocks', Size - Lead) /\ blocks' \in Seq(Piece)
  <2>1. CASE look.count > 0
    <3>1. PICK n \in Nat, c \in 1 .. objects.stride, y \in 0 .. Size :
            n = look.first /\ c = look.count /\ y = look.start
      <4>1. look.start = Lead + look.first
        BY <1>5, <2>1
      <4>2. look.count \in 1 .. objects.stride /\ look.start \in 0 .. Size
        BY <1>3, <1>4, <2>1, <4>1
      <4>3. QED
        BY <1>3, <4>2
    <3>2. PICK list \in Seq(Piece) : list = blocks
      BY <1>3
    <3>3. BlocksTile(list, n) /\ n = Len(list) * objects.stride /\ y = Lead + n
      BY <1>3, <1>4, <1>5, <2>1, <3>1, <3>2
    <3>4. /\ BlocksTile(Append(list, [first |-> n, count |-> c, byte |-> y]), n + c)
          /\ Append(list, [first |-> n, count |-> c, byte |-> y]) \in Seq(Piece)
      BY <3>3, TileMore DEF ObjectsInv
    <3>5. blocks' = Append(list, [first |-> n, count |-> c, byte |-> y])
      BY <1>2, <2>1, <3>1, <3>2 DEF Record
    <3>6. n + c = Size - Lead
      BY <1>6, <3>1
    <3>7. QED
      BY <3>4, <3>5, <3>6
  <2>2. CASE ~(look.count > 0)
    <3>1. look.first = Size - Lead
      <4>1. look.count = 0
        BY <1>3, <2>2
      <4>2. QED
        BY <1>3, <1>6, <4>1
    <3>2. QED
      BY <1>2, <1>3, <1>5, <2>2, <3>1
  <2>3. QED
    BY <2>1, <2>2
<1>9. look' \in LookType
  BY <1>2, <1>3
<1>10. LookSoFar'
  BY <1>2 DEF LookSoFar
<1>11. LookEnded'
  <2>1. (Len(FileRows))' = Len(FileRows)
    BY <1>1 DEF FileRows, RowsFrom
  <2>2. BlocksTile(blocks, Len(FileRows))'
    BY <1>1, <1>7, <1>8, <2>1 DEF BlocksTile
  <2>3. NoneBad(0, Size)'
    BY <1>1, <1>5 DEF NoneBad
  <2>4. QED
    BY <1>2, <2>2, <2>3 DEF LookEnded
<1>12. QED
  BY <1>8, <1>9, <1>10, <1>11, InspectionKeeps DEF Inspection, ObjectsInv, ObjectInv

\* One block of a worksheet, or its end.
LEMMA InspectSheetStep ==
  ASSUME ObjectsInv, InspectSheet
  PROVE  ObjectsInv'
<1>1. objects' = objects /\ Values' = Values /\ Size' = Size /\ Lead' = Lead
      /\ SheetRows' = SheetRows
  BY ObjectsKept DEF ObjectsInv, ObjectNext
<1>2. stage = "inspect" /\ objects.kind = "sheet"
  BY DEF InspectSheet
<1>3. /\ look \in LookType /\ blocks \in Seq(Piece) /\ Len(blocks) \in Nat
      /\ look.first \in Nat
  BY LookTypes DEF ObjectsInv
<1>4. /\ Size \in Nat /\ objects.stride \in Nat \ {0} /\ SheetRows \in Nat
      /\ DOMAIN Values = 1 .. Size
  BY ValueFacts DEF ObjectsInv, SheetRows
<1>5. /\ BlocksTile(blocks, look.first) /\ look.first <= SheetRows
      /\ look.first < SheetRows => look.first = Len(blocks) * objects.stride
      /\ checked = "going"
  BY <1>2 DEF ObjectsInv, ObjectInv, LookSoFar
<1>6. NoneBad(0, Size)
  BY <1>2, <1>4 DEF ObjectsInv, ObjectInv, SheetsAreSound, NoneBad
<1> DEFINE left0 == SheetRows - look.first
           count0 == IF left0 < objects.stride THEN left0 ELSE objects.stride
<1>7. CASE left0 = 0
  <2>1. blocks' = blocks /\ look' = look /\ checked' = "done" /\ stage' = "idle"
    BY <1>7 DEF InspectSheet
  <2>2. look.first = Len(FileRows)
    BY <1>2, <1>3, <1>4, <1>6, <1>7, SoundRows DEF ObjectsInv
  <2>3. (Len(FileRows))' = Len(FileRows)
    BY <1>1 DEF FileRows, RowsFrom
  <2>4. BlocksTile(blocks, Len(FileRows))'
    BY <1>1, <1>5, <2>1, <2>2, <2>3 DEF BlocksTile
  <2>5. NoneBad(0, Size)'
    BY <1>1, <1>6 DEF NoneBad
  <2>6. LookSoFar' /\ LookEnded'
    BY <2>1, <2>4, <2>5 DEF LookSoFar, LookEnded
  <2>7. look' \in LookType /\ blocks' \in Seq(Piece)
    <3>1. QED
      BY <1>3, <2>1
  <2>8. QED
    BY <2>6, <2>7, InspectionKeeps DEF Inspection, ObjectsInv, ObjectInv
<1>8. CASE left0 # 0
  <2>1. /\ Record(count0, 0) /\ look' = [look EXCEPT !.first = @ + count0]
        /\ checked' = checked /\ stage' = stage
    BY <1>8 DEF InspectSheet
  <2>2. /\ look.first < SheetRows /\ count0 \in 1 .. objects.stride
        /\ look.first + count0 <= SheetRows
        /\ look.first + count0 < SheetRows => count0 = objects.stride
    <3>1. look.first \in Nat /\ SheetRows \in Nat /\ objects.stride \in Nat \ {0}
      BY <1>3, <1>4
    <3>2. look.first < SheetRows
      BY <1>5, <1>8, <3>1
    <3>3. CASE left0 < objects.stride
      BY <3>1, <3>2, <3>3
    <3>4. CASE ~(left0 < objects.stride)
      BY <3>1, <3>2, <3>4
    <3>5. QED
      BY <3>3, <3>4
  <2> HIDE DEF count0
  <2>3. BlocksTile(blocks', look.first + count0) /\ blocks' \in Seq(Piece)
    <3>1. PICK n \in Nat, c \in 1 .. objects.stride, y \in 0 .. Size :
            n = look.first /\ c = count0 /\ y = 0
      BY <1>3, <1>4, <2>2
    <3>2. PICK list \in Seq(Piece) : list = blocks
      BY <1>3
    <3>3. BlocksTile(list, n) /\ n = Len(list) * objects.stride
      BY <1>5, <2>2, <3>1, <3>2
    <3>4. /\ BlocksTile(Append(list, [first |-> n, count |-> c, byte |-> y]), n + c)
          /\ Append(list, [first |-> n, count |-> c, byte |-> y]) \in Seq(Piece)
      BY <1>2, <3>3, TileMore DEF ObjectsInv
    <3>5. blocks' = Append(list, [first |-> n, count |-> c, byte |-> y])
      BY <2>1, <3>1, <3>2 DEF Record
    <3>6. QED
      BY <3>1, <3>4, <3>5
  <2>4. /\ look'.first = look.first + count0
        /\ look' \in LookType
    <3>1. look.first + count0 \in Nat
      BY <1>3, <1>4, <2>2
    <3>2. QED
      BY <1>3, <2>1, <3>1 DEF LookType
  <2>5. BlocksTile(blocks, look.first)'
    BY <1>1, <2>3, <2>4 DEF BlocksTile
  <2>6. look'.first < SheetRows => look'.first = Len(blocks') * objects.stride
    <3>1. SUFFICES ASSUME look'.first < SheetRows
                   PROVE  look'.first = Len(blocks') * objects.stride
      OBVIOUS
    <3>2. count0 = objects.stride
      BY <2>2, <2>4, <3>1
    <3>3. Len(blocks') = Len(blocks) + 1
      BY <1>3, <2>1 DEF Record
    <3>4. (Len(blocks) + 1) * objects.stride = Len(blocks) * objects.stride + objects.stride
      BY <1>3, <1>4, OneMore
    <3>5. QED
      BY <1>5, <2>2, <2>4, <3>2, <3>3, <3>4
  <2>7. LookSoFar'
    BY <1>1, <1>2, <1>5, <2>1, <2>2, <2>4, <2>5, <2>6 DEF LookSoFar
  <2>8. LookEnded'
    BY <1>2, <2>1 DEF LookEnded
  <2>9. QED
    BY <2>3, <2>4, <2>7, <2>8, InspectionKeeps DEF Inspection, ObjectsInv, ObjectInv
<1>9. QED
  BY <1>7, <1>8

ReaderStep ==
  Open \/ OpenMapped \/ PullRow \/ PullBad \/ Deliver \/ DeliverError \/ Finish \/ AfterError

\* A step of the reader leaves the inspector's findings alone.
LEMMA ReaderKeeps ==
  ASSUME ObjectsInv, ReaderStep
  PROVE  /\ objects' = objects /\ Values' = Values /\ Size' = Size /\ Lead' = Lead
         /\ HasColumns' = HasColumns
         /\ look' = look /\ blocks' = blocks /\ checked' = checked
         /\ stage # "inspect" /\ stage' # "inspect"
         /\ SheetsAreSound' /\ LookSoFar' /\ LookEnded'
<1>1. /\ objects' = objects /\ Values' = Values /\ Size' = Size /\ Lead' = Lead
      /\ SheetsAreSound'
  BY ObjectsKept DEF ObjectsInv, ObjectInv, ObjectNext, ReaderStep
<1>2. ASSUME NEW p, OpenAt(p)
      PROVE  /\ look' = look /\ blocks' = blocks /\ checked' = checked
             /\ stage' # "inspect"
  BY <1>2 DEF OpenAt
<1>3. /\ look' = look /\ blocks' = blocks /\ checked' = checked
      /\ stage # "inspect" /\ stage' # "inspect"
  <2>1. CASE Open
    <3>1. stage = "idle"
      BY <2>1 DEF Open
    <3>2. \/ OpenAt(1) \/ OpenAt(Lead)
          \/ /\ stage' = "refused" /\ look' = look /\ blocks' = blocks /\ checked' = checked
      BY <2>1, ValueFacts DEF Open, ObjectsInv
    <3>3. QED
      BY <1>2, <3>1, <3>2
  <2>2. CASE OpenMapped
    BY <1>2, <2>2 DEF OpenMapped
  <2>3. CASE PullRow \/ PullBad \/ Deliver \/ DeliverError \/ Finish \/ AfterError
    BY <2>3 DEF PullRow, PullBad, Deliver, DeliverError, Finish, AfterError, Wants
  <2>4. QED
    BY <2>1, <2>2, <2>3 DEF ReaderStep
<1>4. HasColumns' = HasColumns
  BY <1>1 DEF HasColumns
<1>5. LookSoFar'
  BY <1>3 DEF LookSoFar
<1>6. (Len(FileRows))' = Len(FileRows)
  BY <1>1 DEF FileRows, RowsFrom
<1>7. NoneBad(0, Size)' <=> NoneBad(0, Size)
  BY <1>1 DEF NoneBad
<1>8. BlocksTile(blocks, Len(FileRows))' <=> BlocksTile(blocks, Len(FileRows))
  BY <1>1, <1>3, <1>6 DEF BlocksTile
<1>9. LookEnded'
  BY <1>1, <1>3, <1>7, <1>8 DEF LookEnded, ObjectsInv, ObjectInv
<1>10. QED
  BY <1>1, <1>3, <1>4, <1>5, <1>9

ChunkerType == [at: Nat, done: BOOLEAN, buffer: Seq(1 .. Size)]

\* The parts of the types that a step of the reader may change.
LEMMA ReadTypesKept ==
  ASSUME ObjectsInv, ReaderStep,
         chunker' \in ChunkerType, Len(chunker'.buffer) <= objects.batch,
         opened' \in Nat, given' \in Seq(Seq(1 .. Size)),
         stage' \in {"read", "error", "refused", "end", "stopped"}
  PROVE  ObjectTypeOK'
BY ReaderKeeps DEF ObjectsInv, ObjectTypeOK, ChunkerType

\* The types of the reader.
LEMMA ChunkerTypes ==
  ASSUME ObjectTypeOK
  PROVE  /\ chunker \in ChunkerType /\ chunker.at \in Nat /\ chunker.done \in BOOLEAN
         /\ chunker.buffer \in Seq(1 .. Size) /\ Len(chunker.buffer) \in Nat
         /\ Len(chunker.buffer) <= objects.batch
         /\ opened \in Nat /\ given \in Seq(Seq(1 .. Size)) /\ Len(given) \in Nat
         /\ objects.batch \in Nat \ {0} /\ Size \in Nat
<1>1. chunker \in ChunkerType /\ Len(chunker.buffer) <= objects.batch
      /\ opened \in Nat /\ given \in Seq(Seq(1 .. Size))
  BY DEF ObjectTypeOK, ChunkerType
<1>2. chunker.at \in Nat /\ chunker.done \in BOOLEAN /\ chunker.buffer \in Seq(1 .. Size)
  BY <1>1 DEF ChunkerType
<1>3. Len(chunker.buffer) \in Nat /\ Len(given) \in Nat
  BY <1>1, <1>2
<1>4. QED
  BY <1>1, <1>2, <1>3, ValueFacts

\* A reader that is opened at position p.
LEMMA OpenAtStep ==
  ASSUME ObjectsInv, Open \/ OpenMapped, stage = "idle", NEW p \in Nat, OpenAt(p),
         checked = "failed" => p = Lead
  PROVE  ObjectsInv'
<1>1. ReaderStep
  BY DEF ReaderStep
<1>2. /\ objects' = objects /\ Values' = Values /\ Size' = Size /\ Lead' = Lead
      /\ HasColumns' = HasColumns /\ checked' = checked
      /\ SheetsAreSound' /\ LookSoFar' /\ LookEnded'
  BY <1>1, ReaderKeeps
<1>3. chunker = [at |-> 0, done |-> FALSE, buffer |-> <<>>] /\ given = <<>>
  BY DEF ObjectsInv, ObjectInv, UnreadSoFar
<1>4. /\ stage' = "read" /\ opened' = p /\ given' = <<>>
      /\ chunker' = [at |-> p, done |-> FALSE, buffer |-> <<>>]
  BY <1>3 DEF OpenAt
<1>5. ObjectTypeOK'
  <2>1. chunker' \in ChunkerType
    BY <1>4 DEF ChunkerType
  <2>2. Len(chunker'.buffer) <= objects.batch
    BY <1>4, ChunkerTypes DEF ObjectsInv
  <2>3. given' \in Seq(Seq(1 .. Size))
    BY <1>4
  <2>4. QED
    BY <1>1, <1>4, <2>1, <2>2, <2>3, ReadTypesKept
<1>6. UnreadSoFar'
  BY <1>4 DEF UnreadSoFar
<1>7. PulledSoFar'
  <2>1. NoneBad(opened, chunker.at)'
    BY <1>4 DEF NoneBad
  <2>2. QED
    BY <1>2, <1>4, <2>1 DEF PulledSoFar
<1>8. GivenSoFar'
  <2>1. Len(given') = 0 /\ Len(chunker'.buffer) = 0 /\ DOMAIN given' = {}
        /\ DOMAIN chunker'.buffer = {}
    BY <1>4
  <2>2. (Behind(Len(given) + 1))' = p
    BY <1>4, <2>1 DEF Behind
  <2>3. (Follows(chunker.buffer, Behind(Len(given) + 1)))'
    BY <2>1 DEF Follows
  <2>4. QED
    BY <1>4, <2>1, <2>2, <2>3 DEF GivenSoFar
<1>9. DamageAgreed'
  BY <1>4 DEF DamageAgreed
<1>10. QED
  BY <1>2, <1>5, <1>6, <1>7, <1>8, <1>9 DEF ObjectsInv, ObjectInv

\* Opening a file from its start.
LEMMA OpenStep ==
  ASSUME ObjectsInv, Open
  PROVE  ObjectsInv'
<1>1. stage = "idle" /\ Lead \in Nat /\ Size \in Nat /\ DOMAIN Values = 1 .. Size
      /\ objects.kind \in {"msgpack", "sheet"}
  BY ValueFacts, LeadFacts DEF Open, ObjectsInv
<1>2. CASE objects.kind = "sheet"
  <2>1. OpenAt(1) /\ checked # "failed"
    BY <1>1, <1>2 DEF Open, ObjectsInv, ObjectInv, LookEnded
  <2>2. QED
    BY <1>1, <2>1, OpenAtStep
<1>3. CASE objects.kind = "msgpack" /\ ~(Lead < Size /\ Values[Lead + 1] = "bad")
  <2>1. OpenAt(Lead)
    BY <1>3 DEF Open
  <2>2. QED
    BY <1>1, <2>1, OpenAtStep
<1>4. CASE objects.kind = "msgpack" /\ Lead < Size /\ Values[Lead + 1] = "bad"
  <2>1. /\ stage' = "refused" /\ chunker' = chunker /\ opened' = opened /\ given' = given
        /\ checked' = checked
    BY <1>4 DEF Open
  <2>2. ReaderStep
    BY DEF ReaderStep
  <2>3. SheetsAreSound' /\ LookSoFar' /\ LookEnded' /\ HasColumns' = HasColumns
    BY <2>2, ReaderKeeps
  <2>4. ObjectTypeOK'
    BY <2>1, <2>2, ReadTypesKept, ChunkerTypes DEF ObjectsInv
  <2>5. UnreadSoFar' /\ PulledSoFar' /\ GivenSoFar'
    BY <1>1, <2>1 DEF ObjectsInv, ObjectInv, UnreadSoFar, PulledSoFar, GivenSoFar
  <2>6. DamageAgreed'
    <3>1. checked # "done"
      <4>1. ASSUME checked = "done" PROVE FALSE
        <5>1. NoneBad(0, Size)
          BY <1>1, <4>1 DEF ObjectsInv, ObjectInv, LookEnded
        <5>2. Lead + 1 \in 0 + 1 .. Size
          BY <1>1, <1>4
        <5>3. QED
          BY <1>4, <5>1, <5>2 DEF NoneBad
      <4>2. QED
        BY <4>1
    <3>2. QED
      BY <2>1, <3>1 DEF DamageAgreed
  <2>7. QED
    BY <2>3, <2>4, <2>5, <2>6 DEF ObjectsInv, ObjectInv
<1>5. QED
  BY <1>1, <1>2, <1>3, <1>4

\* Opening a file at a block.
LEMMA OpenMappedStep ==
  ASSUME ObjectsInv, OpenMapped
  PROVE  ObjectsInv'
<1>1. stage = "idle" /\ checked = "done" /\ blocks \in Seq(Piece) /\ Len(blocks) \in Nat
      /\ Size \in Nat /\ objects.kind \in {"msgpack", "sheet"}
  BY LookTypes, ValueFacts DEF OpenMapped, ObjectsInv
<1>2. PICK b \in 1 .. Len(blocks) + 1 : OpenAt(StartOf(b))
  BY DEF OpenMapped
<1>3. StartOf(b) \in Nat
  <2>1. ASSUME b <= Len(blocks) PROVE blocks[b].first \in Nat /\ blocks[b].byte \in Nat
    <3>1. blocks[b] \in Piece
      BY <1>1, <2>1
    <3>2. QED
      BY <1>1, <3>1 DEF Piece
  <2>2. SheetRows \in Nat
    BY <1>1 DEF SheetRows
  <2>3. QED
    BY <1>1, <2>1, <2>2 DEF StartOf
<1>4. QED
  BY <1>1, <1>2, <1>3, OpenAtStep

\* The elements of a sequence.
LEMMA Elements ==
  ASSUME NEW S, NEW list \in Seq(S)
  PROVE  /\ DOMAIN list = 1 .. Len(list) /\ Len(list) \in Nat
         /\ \A n \in 1 .. Len(list) : list[n] \in S
         /\ list # <<>> => Len(list) \in 1 .. Len(list) /\ Last(list) \in S
BY DEF Last

\* A chunker that has given its rows.
LEMMA ChunkerGiven ==
  ASSUME NEW c \in ChunkerType, NEW d, d = [c EXCEPT !.buffer = <<>>]
  PROVE  /\ d.at = c.at /\ d.buffer = <<>> /\ d.done = c.done /\ d \in ChunkerType
<1>1. <<>> \in Seq(1 .. Size)
  OBVIOUS
<1>2. QED
  BY <1>1 DEF ChunkerType

\* The last of some numbers, or another.
LEMMA LastOrBefore ==
  ASSUME NEW n \in Nat
  PROVE  /\ \A k \in 1 .. n + 1 : k = n + 1 \/ k \in 1 .. n
         /\ \A k \in 1 .. n : k = n \/ k \in 1 .. n - 1
OBVIOUS

\* The row a batch follows is a number.
LEMMA BehindFacts ==
  ASSUME ObjectTypeOK, \A n \in DOMAIN given : given[n] # <<>>
  PROVE  /\ \A n \in 1 .. Len(given) + 1 : Behind(n) \in Nat
         /\ \A n \in 1 .. Len(given) : given[n] \in Seq(1 .. Size) /\ Len(given[n]) \in Nat
<1>1. given \in Seq(Seq(1 .. Size)) /\ Len(given) \in Nat /\ opened \in Nat /\ Size \in Nat
      /\ DOMAIN given = 1 .. Len(given)
  BY ChunkerTypes
<1>2. ASSUME NEW n \in 1 .. Len(given)
      PROVE  given[n] \in Seq(1 .. Size) /\ Len(given[n]) \in Nat /\ Last(given[n]) \in Nat
  <2>1. given[n] \in Seq(1 .. Size)
    <3>1. PICK S : S = Seq(1 .. Size)
      OBVIOUS
    <3>2. \A m \in 1 .. Len(given) : given[m] \in S
      BY <1>1, <3>1, Elements
    <3>3. QED
      BY <3>1, <3>2
  <2>2. given[n] # <<>>
    BY <1>1
  <2>3. Len(given[n]) \in Nat /\ Last(given[n]) \in 1 .. Size
    BY <2>1, <2>2, Elements
  <2>4. QED
    BY <1>1, <2>1, <2>3
<1>3. ASSUME NEW n \in 1 .. Len(given) + 1 PROVE Behind(n) \in Nat
  <2>1. CASE n = 1
    BY <1>1, <2>1 DEF Behind
  <2>2. CASE n # 1
    <3>1. n - 1 \in 1 .. Len(given)
      BY <1>1, <2>2
    <3>2. QED
      BY <1>2, <2>2, <3>1 DEF Behind
  <2>3. QED
    BY <2>1, <2>2
<1>4. QED
  BY <1>2, <1>3

\* The next row is pulled.
LEMMA PullRowStep ==
  ASSUME ObjectsInv, PullRow
  PROVE  ObjectsInv'
<1>1. /\ stage = "read" /\ Len(chunker.buffer) < objects.batch
      /\ ~chunker.done /\ ~(chunker.at >= Size) /\ Values[chunker.at + 1] # "bad"
      /\ ~Exhausted
      /\ chunker' = [chunker EXCEPT !.at = @ + 1, !.buffer = Append(@, chunker.at + 1)]
      /\ stage' = stage /\ opened' = opened /\ given' = given
  BY DEF PullRow, Wants, Exhausted
<1>2. ReaderStep
  BY DEF ReaderStep
<1>3. /\ objects' = objects /\ Values' = Values /\ Size' = Size /\ Lead' = Lead
      /\ HasColumns' = HasColumns /\ checked' = checked
      /\ SheetsAreSound' /\ LookSoFar' /\ LookEnded'
  BY <1>2, ReaderKeeps
<1>4. /\ chunker \in ChunkerType /\ chunker.at \in Nat
      /\ chunker.buffer \in Seq(1 .. Size) /\ Len(chunker.buffer) \in Nat
      /\ opened \in Nat /\ given \in Seq(Seq(1 .. Size)) /\ Len(given) \in Nat
      /\ objects.batch \in Nat \ {0} /\ Size \in Nat
  BY ChunkerTypes DEF ObjectsInv
<1>5. PICK more : more = Append(chunker.buffer, chunker.at + 1)
  OBVIOUS
<1>6. /\ more \in Seq(1 .. Size) /\ Len(more) = Len(chunker.buffer) + 1
      /\ DOMAIN more = 1 .. Len(chunker.buffer) + 1
      /\ \A k \in 1 .. Len(chunker.buffer) : more[k] = chunker.buffer[k]
      /\ more[Len(chunker.buffer) + 1] = chunker.at + 1
  <2>1. chunker.at + 1 \in 1 .. Size
    BY <1>1, <1>4
  <2>2. QED
    BY <1>4, <1>5, <2>1
<1>7. /\ chunker'.at = chunker.at + 1 /\ chunker'.buffer = more /\ chunker'.done = chunker.done
      /\ chunker' \in ChunkerType
  <2>1. PICK p \in Nat : p = chunker.at + 1
    BY <1>4
  <2>2. PICK c \in ChunkerType : c = chunker
    BY <1>4
  <2>3. chunker' = [c EXCEPT !.at = p, !.buffer = more]
    BY <1>1, <1>5, <2>1, <2>2
  <2>4. PICK d : d = chunker' /\ d = [at |-> p, done |-> c.done, buffer |-> more]
    BY <1>1, <1>4, <1>5, <2>1, <2>2 DEF ChunkerType
  <2>5. /\ d.at = p /\ d.buffer = more /\ d.done = c.done /\ d \in ChunkerType
    <3>1. p \in Nat /\ c.done \in BOOLEAN /\ more \in Seq(1 .. Size)
      BY <1>6, <2>1, <2>2 DEF ChunkerType
    <3>2. QED
      BY <2>4, <3>1 DEF ChunkerType
  <2>6. QED
    BY <2>1, <2>2, <2>4, <2>5
<1>8. ObjectTypeOK'
  <2>1. Len(chunker'.buffer) <= objects.batch
    BY <1>1, <1>4, <1>6, <1>7
  <2>2. QED
    BY <1>1, <1>2, <1>4, <1>7, <2>1, ReadTypesKept
<1>9. UnreadSoFar' /\ DamageAgreed'
  BY <1>1 DEF UnreadSoFar, DamageAgreed
<1>10. PulledSoFar'
  <2>1. /\ opened <= chunker.at /\ NoneBad(opened, chunker.at)
        /\ checked = "failed" => opened = Lead
    BY <1>1 DEF ObjectsInv, ObjectInv, PulledSoFar
  <2>2. \A i \in opened + 1 .. chunker.at + 1 : i <= Size /\ Values[i] # "bad"
    <3>1. \A i \in opened + 1 .. chunker.at : i <= Size /\ Values[i] # "bad"
      BY <2>1 DEF NoneBad
    <3>2. chunker.at + 1 <= Size
      BY <1>1, <1>4
    <3>3. ASSUME NEW i \in opened + 1 .. chunker.at + 1
          PROVE  i = chunker.at + 1 \/ i \in opened + 1 .. chunker.at
      <4>1. opened \in Nat /\ chunker.at \in Nat
        BY <1>4
      <4>2. QED
        BY <4>1
    <3>4. QED
      BY <1>1, <3>1, <3>2, <3>3
  <2>3. NoneBad(opened, chunker.at)'
    BY <1>1, <1>3, <1>7, <2>2 DEF NoneBad
  <2>4. opened <= chunker.at + 1
    BY <1>4, <2>1
  <2>5. QED
    BY <1>1, <1>3, <1>7, <2>1, <2>3, <2>4 DEF PulledSoFar
<1>11. GivenSoFar'
  <2>1. SUFFICES ASSUME HasColumns PROVE GivenSoFar'
    BY <1>3 DEF GivenSoFar
  <2>2. /\ chunker.at = Behind(Len(given) + 1) + Len(chunker.buffer)
        /\ \A n \in DOMAIN given :
             /\ given[n] # <<>> /\ Len(given[n]) <= objects.batch
             /\ Follows(given[n], Behind(n))
        /\ Follows(chunker.buffer, Behind(Len(given) + 1))
        /\ \A n \in 1 .. Len(given) - 1 : Len(given[n]) = objects.batch
        /\ given # <<>> => ~(Len(Last(given)) < objects.batch)
    BY <1>1, <2>1 DEF ObjectsInv, ObjectInv, GivenSoFar
  <2>3. \A n : Behind(n)' = Behind(n)
    BY <1>1 DEF Behind
  <2>4. Behind(Len(given) + 1) \in Nat
    BY <1>4, <2>2, BehindFacts DEF ObjectsInv
  <2>5. Follows(more, Behind(Len(given) + 1))
    <3>1. \A k \in 1 .. Len(chunker.buffer) : more[k] = Behind(Len(given) + 1) + k
      BY <1>4, <1>6, <2>2 DEF Follows
    <3>2. more[Len(chunker.buffer) + 1] = Behind(Len(given) + 1) + (Len(chunker.buffer) + 1)
      BY <1>4, <1>6, <2>2, <2>4
    <3>3. ASSUME NEW k \in 1 .. Len(chunker.buffer) + 1
          PROVE  k = Len(chunker.buffer) + 1 \/ k \in 1 .. Len(chunker.buffer)
      <4>1. Len(chunker.buffer) \in Nat
        BY <1>4
      <4>2. QED
        BY <4>1
    <3>4. QED
      BY <1>6, <3>1, <3>2, <3>3 DEF Follows
  <2>6. chunker'.at = Behind(Len(given) + 1) + Len(more)
    BY <1>4, <1>6, <1>7, <2>2, <2>4
  <2>7. QED
    BY <1>1, <1>3, <1>7, <2>2, <2>3, <2>5, <2>6 DEF GivenSoFar, Follows
<1>12. QED
  BY <1>3, <1>8, <1>9, <1>10, <1>11 DEF ObjectsInv, ObjectInv

\* A bad value is met.
LEMMA PullBadStep ==
  ASSUME ObjectsInv, PullBad
  PROVE  ObjectsInv'
<1>1. /\ stage = "read" /\ Len(chunker.buffer) < objects.batch
      /\ ~(chunker.at >= Size) /\ Values[chunker.at + 1] = "bad"
      /\ ~Exhausted
      /\ chunker' = [chunker EXCEPT !.done = TRUE]
      /\ stage' = "error" /\ opened' = opened /\ given' = given
  BY DEF PullBad, Wants, Exhausted
<1>2. ReaderStep
  BY DEF ReaderStep
<1>3. /\ objects' = objects /\ Values' = Values /\ Size' = Size /\ Lead' = Lead
      /\ HasColumns' = HasColumns /\ checked' = checked
      /\ SheetsAreSound' /\ LookSoFar' /\ LookEnded'
  BY <1>2, ReaderKeeps
<1>4. /\ chunker \in ChunkerType /\ chunker.at \in Nat /\ Len(chunker.buffer) <= objects.batch
      /\ opened \in Nat /\ given \in Seq(Seq(1 .. Size)) /\ Size \in Nat
  BY ChunkerTypes DEF ObjectsInv
<1>5. /\ chunker'.at = chunker.at /\ chunker'.buffer = chunker.buffer /\ chunker'.done = TRUE
      /\ chunker' \in ChunkerType
  BY <1>1, <1>4 DEF ChunkerType
<1>6. chunker.at < Size
  BY <1>1, <1>4
<1>7. ObjectTypeOK'
  BY <1>1, <1>2, <1>4, <1>5, ReadTypesKept
<1>8. PulledSoFar'
  <2>1. NoneBad(opened, chunker.at)'
    BY <1>1, <1>3, <1>5 DEF ObjectsInv, ObjectInv, PulledSoFar, NoneBad
  <2>2. QED
    BY <1>1, <1>3, <1>5, <1>6, <2>1 DEF ObjectsInv, ObjectInv, PulledSoFar
<1>9. GivenSoFar'
  <2>1. \A n : Behind(n)' = Behind(n)
    BY <1>1 DEF Behind
  <2>2. QED
    BY <1>1, <1>3, <1>5, <2>1
       DEF ObjectsInv, ObjectInv, GivenSoFar, Follows
<1>10. checked # "done"
  <2>1. ASSUME checked = "done" PROVE FALSE
    <3>1. NoneBad(0, Size)
      BY <1>1, <2>1 DEF ObjectsInv, ObjectInv, LookEnded
    <3>2. chunker.at + 1 \in 0 + 1 .. Size
      BY <1>4, <1>6
    <3>3. QED
      BY <1>1, <3>1, <3>2 DEF NoneBad
  <2>2. QED
    BY <2>1
<1>11. UnreadSoFar' /\ DamageAgreed'
  BY <1>1, <1>3, <1>10 DEF UnreadSoFar, DamageAgreed
<1>12. QED
  BY <1>3, <1>7, <1>8, <1>9, <1>11 DEF ObjectsInv, ObjectInv

\* A batch is delivered.
LEMMA DeliverStep ==
  ASSUME ObjectsInv, Deliver
  PROVE  ObjectsInv'
<1>1. /\ stage = "read" /\ chunker.buffer # <<>> /\ HasColumns
      /\ Len(chunker.buffer) < objects.batch => Exhausted
      /\ given' = Append(given, chunker.buffer)
      /\ chunker' = [chunker EXCEPT !.buffer = <<>>]
      /\ stage' = stage /\ opened' = opened
  BY DEF Deliver, Wants
<1>2. ReaderStep
  BY DEF ReaderStep
<1>3. /\ objects' = objects /\ Values' = Values /\ Size' = Size /\ Lead' = Lead
      /\ HasColumns' = HasColumns /\ checked' = checked
      /\ SheetsAreSound' /\ LookSoFar' /\ LookEnded'
  BY <1>2, ReaderKeeps
<1>4. /\ chunker \in ChunkerType /\ chunker.at \in Nat
      /\ chunker.buffer \in Seq(1 .. Size) /\ Len(chunker.buffer) \in Nat
      /\ Len(chunker.buffer) <= objects.batch
      /\ opened \in Nat /\ given \in Seq(Seq(1 .. Size)) /\ Len(given) \in Nat
      /\ objects.batch \in Nat \ {0} /\ Size \in Nat
  BY ChunkerTypes DEF ObjectsInv
<1>5. /\ chunker'.at = chunker.at /\ chunker'.buffer = <<>> /\ chunker'.done = chunker.done
      /\ chunker' \in ChunkerType
  BY <1>1, <1>4, ChunkerGiven
<1>6. /\ given' \in Seq(Seq(1 .. Size)) /\ Len(given') = Len(given) + 1
      /\ DOMAIN given' = 1 .. Len(given) + 1
      /\ \A n \in 1 .. Len(given) : given'[n] = given[n]
      /\ given'[Len(given) + 1] = chunker.buffer
      /\ Last(given') = chunker.buffer /\ given' # <<>>
  <2>1. PICK S : S = Seq(1 .. Size)
    OBVIOUS
  <2>2. PICK list \in Seq(S) : list = given
    BY <1>4, <2>1
  <2>3. PICK x \in S : x = chunker.buffer
    BY <1>4, <2>1
  <2>4. PICK more : more = Append(list, x)
    OBVIOUS
  <2>5. /\ more \in Seq(S) /\ Len(more) = Len(list) + 1
        /\ DOMAIN more = 1 .. Len(list) + 1 /\ more # <<>>
        /\ \A n \in 1 .. Len(list) : more[n] = list[n]
        /\ more[Len(list) + 1] = x /\ Last(more) = x
    BY <2>2, <2>3, <2>4 DEF Last
  <2>6. given' = more
    BY <1>1, <2>2, <2>3, <2>4
  <2>7. QED
    BY <2>1, <2>2, <2>3, <2>5, <2>6
<1>7. ObjectTypeOK'
  <2>1. Len(chunker'.buffer) <= objects.batch
    BY <1>4, <1>5
  <2>2. QED
    BY <1>1, <1>2, <1>4, <1>5, <1>6, <2>1, ReadTypesKept
<1>8. UnreadSoFar' /\ DamageAgreed'
  BY <1>1 DEF UnreadSoFar, DamageAgreed
<1>9. PulledSoFar'
  <2>1. NoneBad(opened, chunker.at)'
    BY <1>1, <1>3, <1>5 DEF ObjectsInv, ObjectInv, PulledSoFar, NoneBad
  <2>2. QED
    BY <1>1, <1>3, <1>5, <2>1 DEF ObjectsInv, ObjectInv, PulledSoFar
<1>10. GivenSoFar'
  <2>2. /\ chunker.at = Behind(Len(given) + 1) + Len(chunker.buffer)
        /\ \A n \in DOMAIN given :
             /\ given[n] # <<>> /\ Len(given[n]) <= objects.batch
             /\ Follows(given[n], Behind(n))
        /\ Follows(chunker.buffer, Behind(Len(given) + 1))
        /\ \A n \in 1 .. Len(given) - 1 : Len(given[n]) = objects.batch
        /\ given # <<>> => ~(Len(Last(given)) < objects.batch)
    BY <1>1 DEF ObjectsInv, ObjectInv, GivenSoFar
  <2>3. /\ Behind(Len(given) + 1) \in Nat
        /\ \A n \in 1 .. Len(given) : Len(given[n]) \in Nat
    BY <1>4, <2>2, BehindFacts DEF ObjectsInv
  <2>4. \A n \in 1 .. Len(given) + 1 : Behind(n)' = Behind(n)
    <3>1. \A n \in 1 .. Len(given) + 1 : n # 1 => n - 1 \in 1 .. Len(given)
      BY <1>4
    <3>2. QED
      BY <1>1, <1>6, <3>1 DEF Behind
  <2>5. (Behind(Len(given) + 1))' = chunker.at
    <3>1. (Behind(Len(given) + 1))' = Last(chunker.buffer)
      <4>1. Len(given') + 1 # 1 /\ (Len(given') + 1) - 1 = Len(given) + 1
        BY <1>4, <1>6
      <4>2. QED
        BY <1>6, <4>1 DEF Behind
    <3>2. Len(chunker.buffer) \in 1 .. Len(chunker.buffer)
          /\ DOMAIN chunker.buffer = 1 .. Len(chunker.buffer)
      BY <1>1, <1>4
    <3>3. Last(chunker.buffer) = Behind(Len(given) + 1) + Len(chunker.buffer)
      BY <2>2, <3>2 DEF Last, Follows
    <3>4. QED
      BY <2>2, <3>1, <3>3
  <2>6. \A n \in DOMAIN given' :
          /\ given'[n] # <<>> /\ Len(given'[n]) <= objects.batch
          /\ Follows(given'[n], Behind(n)')
    <3>1. ASSUME NEW n \in 1 .. Len(given)
          PROVE  /\ given'[n] # <<>> /\ Len(given'[n]) <= objects.batch
                 /\ Follows(given'[n], Behind(n)')
      <4>1. n \in DOMAIN given /\ given'[n] = given[n] /\ Behind(n)' = Behind(n)
        BY <1>4, <1>6, <2>4
      <4>2. QED
        BY <2>2, <4>1
    <3>2. Behind(Len(given) + 1) = Behind(Len(given) + 1)
      OBVIOUS
    <3>3. ASSUME NEW n, n = Len(given) + 1
          PROVE  /\ given'[n] # <<>> /\ Len(given'[n]) <= objects.batch
                 /\ Follows(given'[n], Behind(n)')
      <4>1. n \in 1 .. Len(given) + 1
        BY <1>4, <3>3
      <4>2. Behind(n)' = Behind(Len(given) + 1)
        BY <2>4, <3>3, <4>1
      <4>3. QED
        BY <1>1, <1>4, <1>6, <2>2, <3>3, <4>2
    <3>4. \A n \in DOMAIN given' : n = Len(given) + 1 \/ n \in 1 .. Len(given)
      BY <1>4, <1>6, LastOrBefore
    <3>5. QED
      BY <3>1, <3>3, <3>4
  <2>7. \A n \in 1 .. Len(given') - 1 : Len(given'[n]) = objects.batch
    <3>1. ASSUME NEW n \in 1 .. Len(given) PROVE Len(given[n]) = objects.batch
      <4>1. CASE n = Len(given)
        <5>1. given # <<>> /\ Last(given) = given[n] /\ n \in DOMAIN given
          BY <1>4, <4>1 DEF Last
        <5>2. QED
          BY <1>4, <2>2, <2>3, <5>1
      <4>2. CASE n # Len(given)
        BY <1>4, <2>2, <4>2
      <4>3. QED
        BY <4>1, <4>2
    <3>2. \A n \in 1 .. Len(given') - 1 : n \in 1 .. Len(given) /\ given'[n] = given[n]
      <4>1. Len(given') - 1 = Len(given)
        BY <1>4, <1>6
      <4>2. QED
        BY <1>6, <4>1
    <3>3. QED
      BY <3>1, <3>2
  <2>8. Len(chunker.buffer) < objects.batch => Exhausted'
    BY <1>1, <1>3, <1>5 DEF Exhausted
  <2>9. /\ chunker'.at = (Behind(Len(given) + 1))' + Len(chunker'.buffer)
        /\ Follows(chunker'.buffer, (Behind(Len(given) + 1))')
    <3>1. Len(chunker'.buffer) = 0 /\ DOMAIN chunker'.buffer = {}
      BY <1>5
    <3>2. QED
      BY <1>4, <1>5, <2>5, <3>1 DEF Follows
  <2>10. \A n \in DOMAIN given' : Follows(given[n], Behind(n))'
    BY <2>6 DEF Follows
  <2>11. QED
    BY <1>1, <1>3, <1>5, <1>6, <2>6, <2>7, <2>8, <2>9, <2>10 DEF GivenSoFar, Follows
<1>11. QED
  BY <1>3, <1>7, <1>8, <1>9, <1>10 DEF ObjectsInv, ObjectInv

\* A batch without a column is an error.
LEMMA DeliverErrorStep ==
  ASSUME ObjectsInv, DeliverError
  PROVE  ObjectsInv'
<1>1. /\ stage = "read" /\ ~HasColumns
      /\ chunker' = [chunker EXCEPT !.buffer = <<>>]
      /\ stage' = "error" /\ opened' = opened /\ given' = given
  BY DEF DeliverError
<1>2. ReaderStep
  BY DEF ReaderStep
<1>3. /\ objects' = objects /\ Values' = Values /\ Size' = Size /\ Lead' = Lead
      /\ HasColumns' = HasColumns /\ checked' = checked
      /\ SheetsAreSound' /\ LookSoFar' /\ LookEnded'
  BY <1>2, ReaderKeeps
<1>4. /\ chunker \in ChunkerType /\ opened \in Nat /\ given \in Seq(Seq(1 .. Size))
      /\ objects.batch \in Nat \ {0}
  BY ChunkerTypes DEF ObjectsInv
<1>5. /\ chunker'.at = chunker.at /\ chunker'.buffer = <<>> /\ chunker'.done = chunker.done
      /\ chunker' \in ChunkerType
  BY <1>1, <1>4, ChunkerGiven
<1>6. ObjectTypeOK'
  <2>1. Len(chunker'.buffer) <= objects.batch
    BY <1>4, <1>5
  <2>2. QED
    BY <1>1, <1>2, <1>4, <1>5, <2>1, ReadTypesKept
<1>7. PulledSoFar'
  <2>1. NoneBad(opened, chunker.at)'
    BY <1>1, <1>3, <1>5 DEF ObjectsInv, ObjectInv, PulledSoFar, NoneBad
  <2>2. QED
    BY <1>1, <1>3, <1>5, <2>1 DEF ObjectsInv, ObjectInv, PulledSoFar
<1>8. UnreadSoFar' /\ GivenSoFar' /\ DamageAgreed'
  BY <1>1, <1>3 DEF UnreadSoFar, GivenSoFar, DamageAgreed
<1>9. QED
  BY <1>3, <1>6, <1>7, <1>8 DEF ObjectsInv, ObjectInv

\* The reader has no row left.
LEMMA FinishStep ==
  ASSUME ObjectsInv, Finish
  PROVE  ObjectsInv'
<1>1. /\ stage = "read" /\ Exhausted /\ chunker.buffer = <<>>
      /\ stage' = "end" /\ chunker' = chunker /\ opened' = opened /\ given' = given
  BY DEF Finish
<1>2. ReaderStep
  BY DEF ReaderStep
<1>3. /\ objects' = objects /\ Values' = Values /\ Size' = Size /\ Lead' = Lead
      /\ HasColumns' = HasColumns /\ checked' = checked
      /\ SheetsAreSound' /\ LookSoFar' /\ LookEnded'
  BY <1>2, ReaderKeeps
<1>4. /\ chunker \in ChunkerType /\ chunker.at \in Nat /\ Len(chunker.buffer) <= objects.batch
      /\ opened \in Nat /\ given \in Seq(Seq(1 .. Size)) /\ chunker.done \in BOOLEAN
      /\ Size \in Nat /\ DOMAIN Values = 1 .. Size
      /\ Lead \in Nat /\ \A i \in 1 .. Lead : Values[i] = "other"
  BY ChunkerTypes, ValueFacts, LeadFacts DEF ObjectsInv
<1>5. ObjectTypeOK'
  BY <1>1, <1>2, <1>4, ReadTypesKept
<1>6. /\ opened <= chunker.at /\ NoneBad(opened, chunker.at)
      /\ chunker.done => chunker.at < Size /\ Values[chunker.at + 1] = "bad"
      /\ checked = "failed" => opened = Lead
  BY <1>1 DEF ObjectsInv, ObjectInv, PulledSoFar
<1>7. PulledSoFar'
  <2>1. NoneBad(opened, chunker.at)' /\ Exhausted'
    BY <1>1, <1>3, <1>6 DEF NoneBad, Exhausted
  <2>2. QED
    BY <1>1, <1>3, <1>6, <2>1 DEF PulledSoFar
<1>8. GivenSoFar'
  <2>1. \A n : Behind(n)' = Behind(n)
    BY <1>1 DEF Behind
  <2>2. Exhausted'
    BY <1>1, <1>3 DEF Exhausted
  <2>3. QED
    BY <1>1, <1>3, <2>1, <2>2 DEF ObjectsInv, ObjectInv, GivenSoFar, Follows
<1>9. ASSUME checked = "failed" PROVE chunker.done
  <2>1. PICK i \in 1 .. Size : Values[i] = "bad"
    BY <1>1, <1>4, <1>9 DEF ObjectsInv, ObjectInv, LookEnded
  <2>2. ~(i <= Lead)
    BY <1>4, <2>1
  <2>3. ASSUME chunker.at >= Size PROVE FALSE
    <3>1. i \in opened + 1 .. chunker.at
      BY <1>4, <1>6, <1>9, <2>1, <2>2, <2>3
    <3>2. QED
      BY <1>6, <2>1, <3>1 DEF NoneBad
  <2>4. QED
    BY <1>1, <2>3 DEF Exhausted
<1>10. UnreadSoFar' /\ DamageAgreed'
  BY <1>1, <1>3, <1>9 DEF UnreadSoFar, DamageAgreed
<1>11. QED
  BY <1>3, <1>5, <1>7, <1>8, <1>10 DEF ObjectsInv, ObjectInv

\* The caller goes on after an error, or stops.
LEMMA AfterErrorStep ==
  ASSUME ObjectsInv, AfterError
  PROVE  ObjectsInv'
<1>1. /\ stage = "error" /\ stage' \in {"read", "stopped"}
      /\ chunker' = chunker /\ opened' = opened /\ given' = given
  BY DEF AfterError
<1>2. ReaderStep
  BY DEF ReaderStep
<1>3. /\ objects' = objects /\ Values' = Values /\ Size' = Size /\ Lead' = Lead
      /\ HasColumns' = HasColumns /\ checked' = checked
      /\ SheetsAreSound' /\ LookSoFar' /\ LookEnded'
  BY <1>2, ReaderKeeps
<1>4. /\ chunker \in ChunkerType /\ Len(chunker.buffer) <= objects.batch
      /\ opened \in Nat /\ given \in Seq(Seq(1 .. Size))
  BY ChunkerTypes DEF ObjectsInv
<1>5. ObjectTypeOK'
  BY <1>1, <1>2, <1>4, ReadTypesKept
<1>6. PulledSoFar'
  <2>1. NoneBad(opened, chunker.at)'
    BY <1>1, <1>3 DEF ObjectsInv, ObjectInv, PulledSoFar, NoneBad
  <2>2. QED
    BY <1>1, <1>3, <2>1 DEF ObjectsInv, ObjectInv, PulledSoFar
<1>7. GivenSoFar'
  <2>1. \A n : Behind(n)' = Behind(n)
    BY <1>1 DEF Behind
  <2>2. Exhausted' = Exhausted
    BY <1>1, <1>3 DEF Exhausted
  <2>3. QED
    BY <1>1, <1>3, <2>1, <2>2 DEF ObjectsInv, ObjectInv, GivenSoFar, Follows
<1>8. UnreadSoFar' /\ DamageAgreed'
  BY <1>1, <1>3 DEF UnreadSoFar, DamageAgreed, ObjectsInv, ObjectInv
<1>9. QED
  BY <1>3, <1>5, <1>6, <1>7, <1>8 DEF ObjectsInv, ObjectInv

\* The inspector has not begun.
LEMMA ObjectsBegin == ObjectInit => ObjectsInv
BY ObjectsStart DEF ObjectsInv

\* Every step of inspector and reader keeps the invariant.
LEMMA ObjectsStep ==
  ASSUME ObjectsInv, [ObjectNext]_objectVars
  PROVE  ObjectsInv'
<1>1. CASE UNCHANGED objectVars
  <2>1. objects' = objects /\ Values' = Values /\ Size' = Size /\ Lead' = Lead
        /\ SheetRows' = SheetRows /\ SheetsAreSound'
    BY ObjectsKept DEF ObjectsInv, ObjectInv
  <2>2. /\ look' = look /\ blocks' = blocks /\ checked' = checked /\ chunker' = chunker
        /\ opened' = opened /\ given' = given /\ stage' = stage
    BY <1>1 DEF objectVars
  <2>3. /\ HasColumns' = HasColumns /\ (Len(FileRows))' = Len(FileRows)
        /\ Exhausted' = Exhausted /\ (\A n : Behind(n)' = Behind(n))
    BY <2>1, <2>2 DEF HasColumns, FileRows, RowsFrom, Exhausted, Behind
  <2>4. ObjectTypeOK'
    BY <2>1, <2>2 DEF ObjectsInv, ObjectTypeOK
  <2>5. LookSoFar'
    <3>1. /\ BlocksTile(blocks, look.first)' <=> BlocksTile(blocks, look.first)
          /\ NoneBad(0, look.at)' <=> NoneBad(0, look.at)
      BY <2>1, <2>2 DEF BlocksTile, NoneBad
    <3>2. QED
      BY <2>1, <2>2, <3>1 DEF ObjectsInv, ObjectInv, LookSoFar
  <2>6. LookEnded'
    <3>1. /\ BlocksTile(blocks, Len(FileRows))' <=> BlocksTile(blocks, Len(FileRows))
          /\ NoneBad(0, Size)' <=> NoneBad(0, Size)
      BY <2>1, <2>2, <2>3 DEF BlocksTile, NoneBad
    <3>2. QED
      BY <2>1, <2>2, <3>1 DEF ObjectsInv, ObjectInv, LookEnded
  <2>7. PulledSoFar'
    <3>1. NoneBad(opened, chunker.at)' <=> NoneBad(opened, chunker.at)
      BY <2>1, <2>2 DEF NoneBad
    <3>2. QED
      BY <2>1, <2>2, <2>3, <3>1 DEF ObjectsInv, ObjectInv, PulledSoFar
  <2>8. GivenSoFar'
    BY <2>1, <2>2, <2>3 DEF ObjectsInv, ObjectInv, GivenSoFar, Follows
  <2>9. UnreadSoFar' /\ DamageAgreed'
    BY <2>2, <2>3 DEF ObjectsInv, ObjectInv, UnreadSoFar, DamageAgreed
  <2>10. QED
    BY <2>1, <2>4, <2>5, <2>6, <2>7, <2>8, <2>9 DEF ObjectsInv, ObjectInv
<1>2. CASE ObjectNext
  BY <1>2, InspectObjectStep, InspectBadStep, InspectLastStep, InspectSheetStep,
     OpenStep, OpenMappedStep, PullRowStep, PullBadStep, DeliverStep, DeliverErrorStep,
     FinishStep, AfterErrorStep
     DEF ObjectNext
<1>3. QED
  BY <1>1, <1>2

\* The invariant of object files.
LEMMA ObjectsHold == ObjectSpec => []ObjectsInv
BY ObjectsBegin, ObjectsStep, PTL DEF ObjectSpec

\* The objects of a file, the inspector's findings and what the reader holds
\* have their types; the buffer never outgrows a batch (row_chunker.rs:36-50).
THEOREM ObjectsTyped == ObjectSpec => []ObjectTypeOK
<1>1. ObjectsInv => ObjectTypeOK
  BY DEF ObjectsInv
<1>2. QED
  BY <1>1, ObjectsHold, PTL

\* Inspector and reader agree on the rows of a file, on where its blocks start
\* and on whether it is damaged (msgpack.rs:97-205; excel.rs; inspect.rs:346-366).
THEOREM ObjectBlocksAreRight == ObjectSpec => []ObjectBlocksRight
<1>1. ASSUME ObjectsInv, checked = "done"
      PROVE  BlocksHold
  <2> DEFINE h == IF objects.kind = "sheet" THEN 1 ELSE Lead
             m == Len(FileRows)
  <2>1. /\ Size \in Nat /\ Lead \in Nat /\ Lead <= Size /\ h \in Nat
        /\ objects.kind \in {"msgpack", "sheet"} /\ SheetRows \in Nat
    BY <1>1, ValueFacts, LeadFacts DEF ObjectsInv, SheetRows
  <2>2. NoneBad(0, Size) /\ BlocksTile(blocks, Len(FileRows))
    BY <1>1 DEF ObjectsInv, ObjectInv, LookSoFar, LookEnded
  <2>3. m = IF h >= Size THEN 0 ELSE Size - h
    <3>1. m = IF objects.kind = "sheet" THEN SheetRows ELSE Size - Lead
      BY <1>1, <2>2, SoundRows DEF ObjectsInv
    <3>2. QED
      BY <2>1, <3>1 DEF SheetRows
  <2>4. ASSUME NEW p \in Nat, p <= Size
        PROVE  RowsFrom(p) = [k \in 1 .. Size - p |-> p + k]
    <3>1. NoneBad(p, Size)
      BY <2>1, <2>2 DEF NoneBad
    <3>2. QED
      BY <2>1, <2>4, <3>1, <1>1, RowsFromFacts DEF ObjectsInv
  <2>5. ASSUME NEW b \in DOMAIN blocks
        PROVE  RowsFrom(StartOf(b)) = SubSeq(FileRows, blocks[b].first + 1, Len(FileRows))
    <3>1. blocks \in Seq(Piece) /\ Len(blocks) \in Nat /\ b \in 1 .. Len(blocks)
      BY <1>1, LookTypes DEF ObjectsInv
    <3>2. blocks[b] \in Piece
      BY <3>1
    <3>3. blocks[b].first \in Nat /\ blocks[b].count \in Nat \ {0}
      BY <3>2, <1>1, ValueFacts DEF Piece, ObjectsInv
    <3>4. PICK f \in Nat : f = blocks[b].first
      BY <3>3
    <3>5. f + blocks[b].count <= m /\ (objects.kind = "msgpack" => blocks[b].byte = Lead + f)
      BY <2>2, <3>4 DEF BlocksTile
    <3>6. m \in Nat /\ m = Size - h /\ h + f <= Size /\ f <= m
      BY <2>1, <2>3, <3>3, <3>5
    <3>7. StartOf(b) = h + f
      BY <2>1, <3>1, <3>4, <3>5 DEF StartOf
    <3>8. RowsFrom(StartOf(b)) = [k \in 1 .. Size - (h + f) |-> (h + f) + k]
      BY <2>1, <2>4, <3>6, <3>7
    <3>9. FileRows = [k \in 1 .. m |-> h + k]
      <4>1. FileRows = RowsFrom(h)
        BY DEF FileRows
      <4>2. h <= Size
        BY <2>1, <3>4, <3>6
      <4>3. RowsFrom(h) = [k \in 1 .. Size - h |-> h + k]
        BY <2>1, <2>4, <4>2
      <4>4. QED
        BY <3>6, <4>1, <4>3
    <3>10. SubSeq(FileRows, f + 1, m) = [k \in 1 .. m - f |-> h + (f + k)]
      <4> HIDE DEF h, m
      <4>1. DOMAIN FileRows = 1 .. m /\ \A k \in 1 .. m : FileRows[k] = h + k
        BY <3>9
      <4>2. FileRows \in Seq(Nat)
        BY <2>1, <3>6, <3>9
      <4>3. SubSeq(FileRows, f + 1, m) = [k \in 1 .. m - f |-> FileRows[f + k]]
        BY <3>6, <4>2
      <4>4. QED
        BY <3>6, <4>1, <4>3
    <3>11. /\ Size - (h + f) = m - f
           /\ \A k \in 1 .. m - f : (h + f) + k = h + (f + k)
      BY <2>1, <3>6
    <3>12. RowsFrom(StartOf(b)) = SubSeq(FileRows, f + 1, m)
      <4> HIDE DEF h, m
      <4>1. [k \in 1 .. m - f |-> (h + f) + k] = [k \in 1 .. m - f |-> h + (f + k)]
        BY <3>11
      <4>2. QED
        BY <3>8, <3>10, <3>11, <4>1
    <3>13. QED
      BY <3>4, <3>12
  <2>6. QED
    BY <2>2, <2>5 DEF BlocksHold, BlocksTile
<1>2. ObjectsInv => ObjectBlocksRight
  BY <1>1 DEF ObjectBlocksRight, BlocksHold, ObjectsInv, ObjectInv
<1>3. QED
  BY <1>2, ObjectsHold, PTL

\* The batches hold every row that can be decoded once and in order, and all but
\* the last are full.  A bad value costs a caller who goes on no row, and one
\* who stops less than a batch (row_chunker.rs:36-50).
THEOREM ChunksAreRight == ObjectSpec => []ChunksRight
<1>1. ASSUME ObjectsInv, stage \in {"read", "error", "end", "stopped"}, HasColumns
      PROVE  ChunksRight
  <2>1. /\ chunker.at \in Nat /\ opened \in Nat /\ Len(given) \in Nat /\ Size \in Nat
        /\ Len(chunker.buffer) \in Nat
    BY <1>1, ChunkerTypes DEF ObjectsInv
  <2>2. /\ opened <= chunker.at /\ NoneBad(opened, chunker.at)
        /\ chunker.done => chunker.at < Size /\ Values[chunker.at + 1] = "bad"
        /\ stage = "end" => Exhausted
    BY <1>1 DEF ObjectsInv, ObjectInv, PulledSoFar
  <2>3. /\ chunker.at = Behind(Len(given) + 1) + Len(chunker.buffer)
        /\ \A n \in DOMAIN given : given[n] # <<>> /\ Follows(given[n], Behind(n))
        /\ Follows(chunker.buffer, Behind(Len(given) + 1))
        /\ stage \in {"error", "stopped"} =>
             chunker.done /\ Len(chunker.buffer) < objects.batch
        /\ \A n \in 1 .. Len(given) - 1 : Len(given[n]) = objects.batch
        /\ given # <<>> /\ Len(Last(given)) < objects.batch => Exhausted
    BY <1>1 DEF ObjectsInv, ObjectInv, GivenSoFar
  <2>4. chunker.at <= opened + Len(RowsFrom(opened))
    <3>1. Len(RowsFrom(opened)) \in Nat /\ chunker.at - opened <= Len(RowsFrom(opened))
      BY <2>1, <2>2, <1>1, RowsFromBound DEF ObjectsInv
    <3>2. QED
      BY <2>1, <3>1
  <2>5. ASSUME stage \in {"end", "stopped"}
        PROVE  chunker.at = opened + Len(RowsFrom(opened))
    <3>1. chunker.at >= Size \/ Values[chunker.at + 1] = "bad"
      BY <2>2, <2>3, <2>5 DEF Exhausted
    <3>2. Len(RowsFrom(opened)) = chunker.at - opened
      BY <2>1, <2>2, <3>1, <1>1, RowsFromFacts DEF ObjectsInv
    <3>3. QED
      BY <2>1, <2>2, <3>2
  <2>6. QED
    BY <2>3, <2>4, <2>5 DEF ChunksRight
<1>2. ObjectsInv => ChunksRight
  BY <1>1 DEF ChunksRight
<1>3. QED
  BY <1>2, ObjectsHold, PTL

-----------------------------------------------------------------------------
(* Projection. *)

\* p has the elements of s at the positions q, which are those of S in order.
PickedBy(q, n, p, s, S) ==
  /\ DOMAIN q = 1 .. n /\ p = [k \in 1 .. n |-> s[q[k]]]
  /\ \A k \in 1 .. n : q[k] \in S
  /\ \A i, j \in 1 .. n : i < j => q[i] < q[j]
  /\ \A x \in S : \E k \in 1 .. n : q[k] = x

\* There is such a numbering of the positions, and Picked uses it.
LEMMA PickedIs ==
  ASSUME NEW S, IsFiniteSet(S), \A x \in S : x \in Nat, NEW s
  PROVE  \E n \in Nat : \E q : PickedBy(q, n, Picked(s, S), s, S)
<1>1. PICK q : q = CHOOSE f \in [1 .. Cardinality(S) -> S] :
                     \A i, j \in DOMAIN f : i < j => f[i] < f[j]
  OBVIOUS
<1>2. InOrder(q, S)
  <2>1. \E p \in [1 .. Cardinality(S) -> S] : \A i, j \in DOMAIN p : i < j => p[i] < p[j]
    BY InOrderExists DEF InOrder
  <2>2. QED
    BY <1>1, <2>1 DEF InOrder
<1>3. PICK n \in Nat : n = Cardinality(S)
  BY FS_CardinalityType
<1>4. /\ DOMAIN q = 1 .. n
      /\ \A k \in 1 .. n : q[k] \in S
      /\ \A x \in S : \E k \in 1 .. n : q[k] = x
  BY <1>2, <1>3, InOrderOnto
<1>5. \A i, j \in 1 .. n : i < j => q[i] < q[j]
  BY <1>2, <1>4 DEF InOrder
<1>6. PICK p : p = Picked(s, S)
  OBVIOUS
<1>7. p = [k \in 1 .. n |-> s[q[k]]]
  BY <1>1, <1>4, <1>6 DEF Picked
<1>8. PickedBy(q, n, p, s, S)
  BY <1>4, <1>5, <1>7 DEF PickedBy
<1>9. QED
  BY <1>6, <1>8

\* All positions, in order, are the sequence.
LEMMA PickedAll ==
  ASSUME NEW n \in Nat, NEW s, DOMAIN s = 1 .. n, NEW p,
         NEW m \in Nat, NEW q, PickedBy(q, m, p, s, 1 .. n)
  PROVE  DOMAIN p = 1 .. n /\ \A i \in 1 .. n : p[i] = s[i]
<1>1. /\ DOMAIN q = 1 .. m /\ DOMAIN p = 1 .. m
      /\ \A k \in 1 .. m : q[k] \in 1 .. n /\ p[k] = s[q[k]]
      /\ \A i, j \in 1 .. m : i < j => q[i] < q[j]
      /\ \A x \in 1 .. n : \E k \in 1 .. m : q[k] = x
  BY DEF PickedBy
<1> DEFINE B == {i \in Nat : (i \in 1 .. m \/ i \in 1 .. n) /\ ~(i \in 1 .. m /\ i \in 1 .. n /\ q[i] = i)}
<1>2. B = {}
  <2>1. SUFFICES ASSUME B # {} PROVE FALSE
    OBVIOUS
  <2>2. PICK i \in B : \A j \in B : i <= j
    <3>1. B \subseteq Nat
      OBVIOUS
    <3> HIDE DEF B
    <3>2. QED
      BY <2>1, <3>1, LeastExists
  <2>3. i \in Nat /\ i # 0
    OBVIOUS
  <2>4. \A j \in 1 .. i - 1 : j \in 1 .. m /\ j \in 1 .. n /\ q[j] = j
    <3>1. ASSUME NEW j \in 1 .. i - 1 PROVE j \in 1 .. m /\ j \in 1 .. n /\ q[j] = j
      <4>1. j \in Nat /\ j \notin B
        BY <2>2, <2>3
      <4>2. j \in 1 .. m \/ j \in 1 .. n
        BY <2>3
      <4>3. QED
        BY <4>1, <4>2
    <3>2. QED
      BY <3>1
  <2>5. CASE i \in 1 .. m
    <3>1. q[i] \in 1 .. n /\ \A j \in 1 .. i - 1 : j < q[i]
      BY <1>1, <2>3, <2>4, <2>5
    <3>2. i <= q[i]
      <4>1. CASE i = 1
        BY <3>1, <4>1
      <4>2. CASE i # 1
        BY <2>3, <3>1, <4>2
      <4>3. QED
        BY <4>1, <4>2
    <3>3. i \in 1 .. n
      BY <2>3, <3>1, <3>2
    <3>4. PICK k \in 1 .. m : q[k] = i
      BY <1>1, <3>3
    <3>5. k = i
      <4>1. ~(i < k)
        BY <1>1, <2>5, <3>1, <3>2, <3>4
      <4>2. ~(k < i)
        <5>1. SUFFICES ASSUME k < i PROVE FALSE
          OBVIOUS
        <5>2. k \in 1 .. i - 1
          BY <2>3, <5>1
        <5>3. QED
          BY <2>4, <3>4, <5>1, <5>2
      <4>3. QED
        BY <2>3, <4>1, <4>2
    <3>6. QED
      BY <2>5, <3>3, <3>4, <3>5
  <2>6. CASE i \in 1 .. n /\ i \notin 1 .. m
    <3>1. PICK k \in 1 .. m : q[k] = i
      BY <1>1, <2>6
    <3>2. k \in 1 .. i - 1
      BY <2>3, <2>6
    <3>3. QED
      BY <2>4, <3>1, <3>2
  <2>7. QED
    BY <2>5, <2>6
<1>3. m = n
  <2>1. n = 0 \/ n \in 1 .. n
    OBVIOUS
  <2>2. m = 0 \/ m \in 1 .. m
    OBVIOUS
  <2>3. QED
    BY <1>2, <2>1, <2>2
<1>4. \A i \in 1 .. n : q[i] = i
  BY <1>2, <1>3
<1>5. QED
  BY <1>1, <1>3, <1>4

\* The call: a file of so many columns, so many names.
Given(m, n) ==
  /\ DOMAIN Table = 1 .. m /\ DOMAIN Names = 1 .. n
  /\ \A c \in 1 .. m : \E l \in Nat : DOMAIN Table[c].leaves = 1 .. l

\* A call that is typed is given.
LEMMA GivenCall ==
  ASSUME slice \in [reader: Readers, table: Tables, names: Requests,
                    mapped: BOOLEAN, rows: BOOLEAN]
  PROVE  \E m \in Nat, n \in Nat : Given(m, n)
<1>1. PICK t \in Tables : t = Table
  BY DEF Table
<1>2. PICK r \in Requests : r = Names
  BY DEF Names
<1>3. PICK S : t \in Seq(S)
  BY <1>1, TablesAssumption
<1>4. PICK m \in Nat : DOMAIN t = 1 .. m
  BY <1>3
<1>5. PICK R : r \in Seq(R)
  BY <1>2, RequestsAssumption
<1>6. PICK n \in Nat : DOMAIN r = 1 .. n
  BY <1>5
<1>7. ASSUME NEW c \in 1 .. m PROVE \E l \in Nat : DOMAIN t[c].leaves = 1 .. l
  <2>1. PICK L : t[c].leaves \in Seq(L)
    BY <1>1, <1>4, TablesAssumption
  <2>2. QED
    BY <2>1
<1>8. QED
  BY <1>1, <1>2, <1>4, <1>6, <1>7 DEF Given

\* index_of finds the first column of a name, if there is one.
LEMMA IndexIs ==
  ASSUME NEW m \in Nat, NEW n \in Nat, Given(m, n), NEW name, HasColumn(name)
  PROVE  /\ IndexOf(name) \in 1 .. m /\ Table[IndexOf(name)].name = name
         /\ \A d \in 1 .. IndexOf(name) - 1 : Table[d].name # name
<1> DEFINE T == {c \in 1 .. m : Table[c].name = name}
<1>1. T # {} /\ T \subseteq Nat
  BY DEF Given, HasColumn
<1>2. PICK c \in T : \A d \in T : c <= d
  <2> HIDE DEF T
  <2>1. QED
    BY <1>1, LeastExists
<1>3. c \in DOMAIN Table /\ Table[c].name = name /\ c \in 1 .. m
  BY DEF Given
<1>4. \A d \in 1 .. c - 1 : Table[d].name # name
  BY <1>2, <1>3
<1>5. /\ IndexOf(name) \in DOMAIN Table /\ Table[IndexOf(name)].name = name
      /\ \A d \in 1 .. IndexOf(name) - 1 : Table[d].name # name
  BY <1>3, <1>4 DEF IndexOf
<1>6. QED
  BY <1>5 DEF Given

\* The first column of its name is the one index_of finds.
LEMMA FirstIsIndex ==
  ASSUME NEW m \in Nat, NEW n \in Nat, Given(m, n), NEW c \in 1 .. m,
         \A d \in 1 .. c - 1 : Table[d].name # Table[c].name
  PROVE  HasColumn(Table[c].name) /\ IndexOf(Table[c].name) = c
<1>1. HasColumn(Table[c].name)
  BY DEF Given, HasColumn
<1>2. PICK b \in 1 .. m : /\ b = IndexOf(Table[c].name) /\ Table[b].name = Table[c].name
                          /\ \A d \in 1 .. b - 1 : Table[d].name # Table[c].name
  BY <1>1, IndexIs
<1>3. ~(b < c) /\ ~(c < b)
  BY <1>2
<1>4. QED
  BY <1>1, <1>2, <1>3

\* X has n columns of the file.
ColumnsOf(X, n) ==
  /\ X = [k \in 1 .. n |-> X[k]]
  /\ \A k \in 1 .. n : X[k] \in [of: DOMAIN Table, leaves: SUBSET Nat]

\* Columns one by one are a sequence of columns.
LEMMA ColumnsTyped ==
  ASSUME NEW n \in Nat, NEW X, ColumnsOf(X, n)
  PROVE  X \in Seq([of: DOMAIN Table, leaves: SUBSET Nat]) /\ DOMAIN X = 1 .. n
<1>1. PICK S : S = [of: DOMAIN Table, leaves: SUBSET Nat]
  OBVIOUS
<1>2. X = [k \in 1 .. n |-> X[k]] /\ \A k \in 1 .. n : X[k] \in S
  BY <1>1 DEF ColumnsOf
<1>3. X \in [1 .. n -> S]
  BY <1>2
<1>4. X \in Seq(S) /\ DOMAIN X = 1 .. n
  BY <1>2, <1>3
<1>5. QED
  BY <1>1, <1>4

\* What a columns of a batch may be for the right ones to be taken from it: every
\* name asked for that the file has is there, and the first of it is whole.
Sound(X) ==
  /\ \A i \in DOMAIN Names : HasColumn(Names[i]) =>
       \E k \in DOMAIN X : NameOf(X[k]) = Names[i]
  /\ \A k \in DOMAIN X :
       (\A h \in 1 .. k - 1 : NameOf(X[h]) # NameOf(X[k])) =>
         X[k] = WholeColumn(IndexOf(NameOf(X[k])))

\* A whole column of the file, and its name.
LEMMA WholeTyped ==
  ASSUME NEW m \in Nat, NEW n \in Nat, Given(m, n), NEW c \in 1 .. m
  PROVE  /\ WholeColumn(c) \in [of: DOMAIN Table, leaves: SUBSET Nat]
         /\ WholeColumn(c).of = c /\ NameOf(WholeColumn(c)) = Table[c].name
<1>1. PICK l \in Nat : DOMAIN Table[c].leaves = 1 .. l
  BY DEF Given
<1>2. 1 .. l \in SUBSET Nat
  OBVIOUS
<1>3. WholeColumn(c) = [of |-> c, leaves |-> 1 .. l]
  BY <1>1 DEF WholeColumn
<1>4. c \in DOMAIN Table
  BY DEF Given
<1>5. QED
  BY <1>2, <1>3, <1>4 DEF NameOf

\* All columns of the file.
LEMMA AllSound ==
  ASSUME NEW m \in Nat, NEW n \in Nat, Given(m, n)
  PROVE  ColumnsOf(All, m) /\ Sound(All)
<1>1. All = [c \in 1 .. m |-> WholeColumn(c)]
  BY DEF All, Given
<1>2. ColumnsOf(All, m)
  BY <1>1, WholeTyped DEF ColumnsOf
<1>3. ASSUME NEW i \in DOMAIN Names, HasColumn(Names[i])
      PROVE  \E k \in DOMAIN All : NameOf(All[k]) = Names[i]
  <2>1. PICK c \in 1 .. m : Table[c].name = Names[i]
    BY <1>3 DEF HasColumn, Given
  <2>2. QED
    BY <1>1, <2>1, WholeTyped
<1>4. ASSUME NEW k \in DOMAIN All, \A h \in 1 .. k - 1 : NameOf(All[h]) # NameOf(All[k])
      PROVE  All[k] = WholeColumn(IndexOf(NameOf(All[k])))
  <2>1. k \in 1 .. m /\ NameOf(All[k]) = Table[k].name /\ All[k] = WholeColumn(k)
    BY <1>1, WholeTyped
  <2>2. ASSUME NEW d \in 1 .. k - 1 PROVE Table[d].name # Table[k].name
    <3>1. d \in 1 .. m
      BY <2>1
    <3>2. NameOf(All[d]) = Table[d].name
      BY <1>1, <3>1, WholeTyped
    <3>3. QED
      BY <1>4, <2>1, <3>2
  <2>3. IndexOf(Table[k].name) = k
    BY <2>1, <2>2, FirstIsIndex
  <2>4. QED
    BY <2>1, <2>3
<1>5. QED
  BY <1>2, <1>3, <1>4 DEF Sound

\* X has whole columns only, each the first of its name, and all that are asked for.
Uniform(X) ==
  /\ \A k \in DOMAIN X :
       \E i \in DOMAIN Names : HasColumn(Names[i]) /\ X[k] = WholeColumn(IndexOf(Names[i]))
  /\ \A i \in DOMAIN Names : HasColumn(Names[i]) =>
       \E k \in DOMAIN X : X[k] = WholeColumn(IndexOf(Names[i]))

\* The same of the column a name stands for.
LEMMA AskedColumn ==
  ASSUME NEW m \in Nat, NEW n \in Nat, Given(m, n),
         NEW i \in DOMAIN Names, HasColumn(Names[i])
  PROVE  /\ WholeColumn(IndexOf(Names[i])) \in [of: DOMAIN Table, leaves: SUBSET Nat]
         /\ NameOf(WholeColumn(IndexOf(Names[i]))) = Names[i]
BY IndexIs, WholeTyped

\* Columns that are whole, each where its name is first, are sound.
LEMMA UniformSound ==
  ASSUME NEW m \in Nat, NEW n \in Nat, Given(m, n), NEW l \in Nat, NEW X,
         X = [k \in 1 .. l |-> X[k]], Uniform(X)
  PROVE  ColumnsOf(X, l) /\ Sound(X)
<1>1. ASSUME NEW k \in DOMAIN X
      PROVE  /\ X[k] \in [of: DOMAIN Table, leaves: SUBSET Nat]
             /\ X[k] = WholeColumn(IndexOf(NameOf(X[k])))
  <2>1. PICK i \in DOMAIN Names : HasColumn(Names[i]) /\ X[k] = WholeColumn(IndexOf(Names[i]))
    BY DEF Uniform
  <2>2. QED
    BY <2>1, AskedColumn
<1>2. ASSUME NEW i \in DOMAIN Names, HasColumn(Names[i])
      PROVE  \E k \in DOMAIN X : NameOf(X[k]) = Names[i]
  <2>1. PICK k \in DOMAIN X : X[k] = WholeColumn(IndexOf(Names[i]))
    BY <1>2 DEF Uniform
  <2>2. QED
    BY <1>2, <2>1, AskedColumn
<1>3. DOMAIN X = 1 .. l
  OBVIOUS
<1>4. QED
  BY <1>1, <1>2, <1>3 DEF ColumnsOf, Sound

\* The names the file has, in the order of the request.
LEMMA AsAskedUniform ==
  ASSUME NEW m \in Nat, NEW n \in Nat, Given(m, n)
  PROVE  \E l \in Nat : AsAsked = [k \in 1 .. l |-> AsAsked[k]] /\ Uniform(AsAsked)
<1>1. PICK S : S = {i \in 1 .. n : HasColumn(Names[i])}
  OBVIOUS
<1>2. IsFiniteSet(S) /\ \A x \in S : x \in Nat
  <2>1. S \subseteq 1 .. n /\ \A x \in S : x \in Nat
    BY <1>1
  <2>2. IsFiniteSet(1 .. n)
    BY FS_Interval
  <2>3. IsFiniteSet(S)
    BY <2>1, <2>2, FS_Subset
  <2>4. QED
    BY <2>1, <2>3
<1>3. PICK p : p = Picked(Names, S)
  OBVIOUS
<1>4. PICK l \in Nat : \E q : PickedBy(q, l, p, Names, S)
  BY <1>2, <1>3, PickedIs
<1>5. PICK q : PickedBy(q, l, p, Names, S)
  BY <1>4
<1>6. /\ DOMAIN p = 1 .. l
      /\ \A k \in 1 .. l : p[k] = Names[q[k]] /\ q[k] \in S
      /\ \A x \in S : \E k \in 1 .. l : q[k] = x
  BY <1>5 DEF PickedBy
<1>7. AsAsked = [k \in 1 .. l |-> WholeColumn(IndexOf(p[k]))]
  <2>1. {i \in DOMAIN Names : HasColumn(Names[i])} = S
    BY <1>1 DEF Given
  <2>2. QED
    BY <1>3, <1>6, <2>1 DEF AsAsked
<1>8. ASSUME NEW k \in DOMAIN AsAsked
      PROVE  \E i \in DOMAIN Names : HasColumn(Names[i])
                                     /\ AsAsked[k] = WholeColumn(IndexOf(Names[i]))
  <2>1. k \in 1 .. l /\ AsAsked[k] = WholeColumn(IndexOf(p[k]))
    BY <1>7
  <2>2. p[k] = Names[q[k]] /\ q[k] \in S
    BY <1>6, <2>1
  <2>3. q[k] \in DOMAIN Names /\ HasColumn(Names[q[k]])
    BY <1>1, <2>2 DEF Given
  <2>4. QED
    BY <2>1, <2>2, <2>3
<1>9. ASSUME NEW i \in DOMAIN Names, HasColumn(Names[i])
      PROVE  \E k \in DOMAIN AsAsked : AsAsked[k] = WholeColumn(IndexOf(Names[i]))
  <2>1. i \in S
    BY <1>1, <1>9 DEF Given
  <2>2. PICK k \in 1 .. l : q[k] = i
    BY <1>6, <2>1
  <2>3. k \in DOMAIN AsAsked /\ AsAsked[k] = WholeColumn(IndexOf(p[k])) /\ p[k] = Names[i]
    BY <1>6, <1>7, <2>2
  <2>4. QED
    BY <2>3
<1>10. AsAsked = [k \in 1 .. l |-> AsAsked[k]]
  BY <1>7
<1>11. QED
  BY <1>8, <1>9, <1>10 DEF Uniform

\* If the file has all names, the columns are those of the names, one by one.
LEMMA AsAskedAll ==
  ASSUME NEW m \in Nat, NEW n \in Nat, Given(m, n), HasAll
  PROVE  AsAsked = [i \in 1 .. n |-> WholeColumn(IndexOf(Names[i]))]
<1>1. {i \in DOMAIN Names : HasColumn(Names[i])} = 1 .. n
  BY DEF Given, HasAll
<1>2. IsFiniteSet(1 .. n) /\ \A x \in 1 .. n : x \in Nat
  BY FS_Interval
<1>3. PICK p : p = Picked(Names, 1 .. n)
  OBVIOUS
<1>4. PICK l \in Nat : \E q : PickedBy(q, l, p, Names, 1 .. n)
  BY <1>2, <1>3, PickedIs
<1>5. PICK q : PickedBy(q, l, p, Names, 1 .. n)
  BY <1>4
<1>6. DOMAIN p = 1 .. n /\ \A i \in 1 .. n : p[i] = Names[i]
  <2>1. DOMAIN Names = 1 .. n
    BY DEF Given
  <2>2. QED
    BY <1>5, <2>1, PickedAll
<1>7. AsAsked = [i \in DOMAIN p |-> WholeColumn(IndexOf(p[i]))]
  BY <1>1, <1>3 DEF AsAsked
<1>8. QED
  BY <1>6, <1>7

\* Each of them once.
LEMMA OnceUniform ==
  ASSUME NEW m \in Nat, NEW n \in Nat, Given(m, n)
  PROVE  \E l \in Nat : OnceAsAsked = [k \in 1 .. l |-> OnceAsAsked[k]] /\ Uniform(OnceAsAsked)
<1>1. PICK w \in Nat : AsAsked = [k \in 1 .. w |-> AsAsked[k]] /\ Uniform(AsAsked)
  BY AsAskedUniform
<1>2. PICK a : a = AsAsked
  OBVIOUS
<1>3. DOMAIN a = 1 .. w /\ Uniform(a)
  BY <1>1, <1>2
<1>4. PICK S : S = {i \in 1 .. w : \A h \in 1 .. i - 1 : a[h] # a[i]}
  OBVIOUS
<1>5. IsFiniteSet(S) /\ \A x \in S : x \in Nat
  <2>1. S \subseteq 1 .. w /\ \A x \in S : x \in Nat
    BY <1>4
  <2>2. IsFiniteSet(1 .. w)
    BY FS_Interval
  <2>3. IsFiniteSet(S)
    BY <2>1, <2>2, FS_Subset
  <2>4. QED
    BY <2>1, <2>3
<1>6. PICK p : p = Picked(a, S)
  OBVIOUS
<1>7. PICK l \in Nat : \E f : PickedBy(f, l, p, a, S)
  BY <1>5, <1>6, PickedIs
<1>8. PICK q : PickedBy(q, l, p, a, S)
  BY <1>7
<1>9. /\ p = [k \in 1 .. l |-> a[q[k]]]
      /\ \A k \in 1 .. l : q[k] \in S /\ p[k] = a[q[k]]
      /\ \A x \in S : \E k \in 1 .. l : q[k] = x
  BY <1>8 DEF PickedBy
<1>10. p = OnceAsAsked
  <2>1. S = {i \in DOMAIN AsAsked : \A h \in 1 .. i - 1 : AsAsked[h] # AsAsked[i]}
    BY <1>2, <1>3, <1>4
  <2>2. QED
    BY <1>2, <1>6, <2>1 DEF OnceAsAsked
<1>11. ASSUME NEW k \in DOMAIN p
       PROVE  \E i \in DOMAIN Names : HasColumn(Names[i]) /\ p[k] = WholeColumn(IndexOf(Names[i]))
  <2>1. k \in 1 .. l /\ q[k] \in S /\ p[k] = a[q[k]]
    BY <1>9
  <2>2. q[k] \in DOMAIN a
    BY <1>3, <1>4, <2>1
  <2>3. QED
    BY <1>3, <2>1, <2>2 DEF Uniform
<1>12. ASSUME NEW i \in DOMAIN Names, HasColumn(Names[i])
       PROVE  \E k \in DOMAIN p : p[k] = WholeColumn(IndexOf(Names[i]))
  <2>1. PICK x : x = WholeColumn(IndexOf(Names[i]))
    OBVIOUS
  <2> DEFINE T == {h \in 1 .. w : a[h] = x}
  <2>2. T # {} /\ T \subseteq Nat
    BY <1>3, <1>12, <2>1 DEF Uniform
  <2>3. PICK h \in T : \A y \in T : h <= y
    <3> HIDE DEF T
    <3>1. QED
      BY <2>2, LeastExists
  <2>4. h \in S
    BY <1>4, <2>3
  <2>5. PICK k \in 1 .. l : q[k] = h
    BY <1>9, <2>4
  <2>6. k \in DOMAIN p /\ p[k] = x
    BY <1>9, <2>5
  <2>7. QED
    BY <2>1, <2>6
<1>13. p = [k \in 1 .. l |-> p[k]]
  BY <1>9
<1>14. Uniform(p)
  BY <1>11, <1>12 DEF Uniform
<1>15. QED
  BY <1>10, <1>13, <1>14

\* Each of them once, where the file has it.
LEMMA InFileUniform ==
  ASSUME NEW m \in Nat, NEW n \in Nat, Given(m, n)
  PROVE  \E l \in Nat : AsInFile = [k \in 1 .. l |-> AsInFile[k]] /\ Uniform(AsInFile)
<1>1. PICK w \in Nat : AsAsked = [k \in 1 .. w |-> AsAsked[k]] /\ Uniform(AsAsked)
  BY AsAskedUniform
<1>2. PICK a : a = AsAsked
  OBVIOUS
<1>3. DOMAIN a = 1 .. w /\ Uniform(a)
  BY <1>1, <1>2
<1>4. All = [c \in 1 .. m |-> WholeColumn(c)] /\ DOMAIN All = 1 .. m
  BY DEF All, Given
<1>5. PICK S : S = {c \in 1 .. m : \E i \in 1 .. w : a[i] = WholeColumn(c)}
  OBVIOUS
<1>6. IsFiniteSet(S) /\ \A x \in S : x \in Nat
  <2>1. S \subseteq 1 .. m /\ \A x \in S : x \in Nat
    BY <1>5
  <2>2. IsFiniteSet(1 .. m)
    BY FS_Interval
  <2>3. IsFiniteSet(S)
    BY <2>1, <2>2, FS_Subset
  <2>4. QED
    BY <2>1, <2>3
<1>7. PICK p : p = Picked(All, S)
  OBVIOUS
<1>8. PICK l \in Nat : \E f : PickedBy(f, l, p, All, S)
  BY <1>6, <1>7, PickedIs
<1>9. PICK q : PickedBy(q, l, p, All, S)
  BY <1>8
<1>10. /\ p = [k \in 1 .. l |-> All[q[k]]]
       /\ \A k \in 1 .. l : q[k] \in S /\ p[k] = All[q[k]]
       /\ \A x \in S : \E k \in 1 .. l : q[k] = x
  BY <1>9 DEF PickedBy
<1>11. p = AsInFile
  <2>1. S = {c \in DOMAIN All : \E i \in DOMAIN AsAsked : AsAsked[i] = All[c]}
    <3>1. \A c \in 1 .. m : All[c] = WholeColumn(c)
      BY <1>4
    <3>2. DOMAIN AsAsked = 1 .. w
      BY <1>2, <1>3
    <3>3. QED
      BY <1>2, <1>4, <1>5, <3>1, <3>2
  <2>2. QED
    BY <1>7, <2>1 DEF AsInFile
<1>12. ASSUME NEW k \in DOMAIN p
       PROVE  \E i \in DOMAIN Names : HasColumn(Names[i]) /\ p[k] = WholeColumn(IndexOf(Names[i]))
  <2>1. k \in 1 .. l /\ q[k] \in S /\ p[k] = All[q[k]]
    BY <1>10
  <2>2. PICK i \in 1 .. w : a[i] = WholeColumn(q[k])
    BY <1>5, <2>1
  <2>3. All[q[k]] = WholeColumn(q[k])
    BY <1>4, <1>5, <2>1
  <2>4. i \in DOMAIN a /\ a[i] = p[k]
    BY <1>3, <2>1, <2>2, <2>3
  <2>5. QED
    BY <1>3, <2>4 DEF Uniform
<1>13. ASSUME NEW i \in DOMAIN Names, HasColumn(Names[i])
       PROVE  \E k \in DOMAIN p : p[k] = WholeColumn(IndexOf(Names[i]))
  <2>1. PICK c \in 1 .. m : c = IndexOf(Names[i])
    BY <1>13, IndexIs
  <2>2. PICK h \in 1 .. w : a[h] = WholeColumn(c)
    BY <1>3, <1>13, <2>1 DEF Uniform
  <2>3. c \in S /\ All[c] = WholeColumn(c)
    BY <1>4, <1>5, <2>2
  <2>4. PICK k \in 1 .. l : q[k] = c
    BY <1>10, <2>3
  <2>5. k \in DOMAIN p /\ p[k] = WholeColumn(c)
    BY <1>10, <2>3, <2>4
  <2>6. QED
    BY <2>1, <2>5
<1>14. p = [k \in 1 .. l |-> p[k]]
  BY <1>10
<1>15. Uniform(p)
  BY <1>12, <1>13 DEF Uniform
<1>16. QED
  BY <1>11, <1>14, <1>15

\* What Parquet reads: columns of the file, and of a flat file the right ones.
LEMMA MaskedTyped ==
  ASSUME NEW m \in Nat, NEW n \in Nat, Given(m, n)
  PROVE  \E l \in Nat : ColumnsOf(Masked, l) /\ (Flat => Uniform(Masked))
<1>1. PICK parts : parts = [c \in DOMAIN Table |->
                              [of |-> c, leaves |-> {x[2] : x \in {y \in Mask : y[1] = c}}]]
  OBVIOUS
<1>2. DOMAIN parts = 1 .. m /\ DOMAIN Table = 1 .. m
  BY <1>1 DEF Given
<1>3. PICK S : S = {c \in 1 .. m : parts[c].leaves # {}}
  OBVIOUS
<1>4. IsFiniteSet(S) /\ \A x \in S : x \in Nat
  <2>1. S \subseteq 1 .. m /\ \A x \in S : x \in Nat
    BY <1>3
  <2>2. IsFiniteSet(1 .. m)
    BY FS_Interval
  <2>3. IsFiniteSet(S)
    BY <2>1, <2>2, FS_Subset
  <2>4. QED
    BY <2>1, <2>3
<1>5. PICK p : p = Picked(parts, S)
  OBVIOUS
<1>6. PICK l \in Nat : \E f : PickedBy(f, l, p, parts, S)
  BY <1>4, <1>5, PickedIs
<1>7. PICK q : PickedBy(q, l, p, parts, S)
  BY <1>6
<1>8. /\ p = [k \in 1 .. l |-> parts[q[k]]]
      /\ \A k \in 1 .. l : q[k] \in S /\ p[k] = parts[q[k]]
      /\ \A x \in S : \E k \in 1 .. l : q[k] = x
  BY <1>7 DEF PickedBy
<1>9. p = Masked
  <2>1. S = {c \in DOMAIN parts : parts[c].leaves # {}}
    BY <1>2, <1>3
  <2>2. QED
    BY <1>1, <1>5, <2>1 DEF Masked
<1>10. ASSUME NEW c \in 1 .. m
       PROVE  parts[c] \in [of: DOMAIN Table, leaves: SUBSET Nat]
  <2>1. PICK L : L = {x[2] : x \in {y \in Mask : y[1] = c}}
    OBVIOUS
  <2>2. parts[c] = [of |-> c, leaves |-> L] /\ c \in DOMAIN Table
    BY <1>1, <1>2, <2>1
  <2>3. ASSUME NEW x \in Mask PROVE x[2] \in Nat
    <3>1. PICK d \in DOMAIN Table : x \in {d} \X DOMAIN Table[d].leaves
      BY DEF Mask, Leaves
    <3>2. PICK w \in Nat : DOMAIN Table[d].leaves = 1 .. w
      BY <1>2 DEF Given
    <3>3. QED
      BY <3>1, <3>2
  <2>4. L \in SUBSET Nat
    BY <2>1, <2>3
  <2>5. QED
    BY <2>2, <2>4
<1>11. ColumnsOf(p, l)
  <2>1. p = [k \in 1 .. l |-> p[k]]
    BY <1>8
  <2>2. ASSUME NEW k \in 1 .. l PROVE p[k] \in [of: DOMAIN Table, leaves: SUBSET Nat]
    <3>1. q[k] \in 1 .. m /\ p[k] = parts[q[k]]
      BY <1>3, <1>8
    <3>2. QED
      BY <1>10, <3>1
  <2>3. QED
    BY <2>1, <2>2 DEF ColumnsOf
<1>12. ASSUME Flat PROVE Uniform(p)
  <2>1. \A c \in 1 .. m : /\ DOMAIN Table[c].leaves = {1} /\ Table[c].leaves[1] = Table[c].name
                           /\ DOMAIN Table[c].leaves = 1 .. 1
    BY <1>2, <1>12 DEF Flat
  <2>2. \A x : x \in Leaves <=> \E c \in 1 .. m : x = <<c, 1>>
    <3>1. \A c \in 1 .. m : {c} \X DOMAIN Table[c].leaves = {<<c, 1>>}
      BY <2>1
    <3>2. Leaves = UNION {{<<c, 1>>} : c \in 1 .. m}
      BY <1>2, <3>1 DEF Leaves
    <3>3. QED
      BY <3>2
  <2>3. \A c \in 1 .. m : LeafName(<<c, 1>>) = Table[c].name
    BY <2>1 DEF LeafName
  <2>4. ASSUME NEW c \in 1 .. m
        PROVE  <<c, 1>> \in Mask <=> /\ \E i \in DOMAIN Names : Names[i] = Table[c].name
                                     /\ \A d \in 1 .. c - 1 : Table[d].name # Table[c].name
    <3>1. <<c, 1>> \in Leaves
      BY <2>2
    <3>2. (\A y \in Leaves : Before(y, <<c, 1>>) => LeafName(y) # LeafName(<<c, 1>>))
            <=> \A d \in 1 .. c - 1 : Table[d].name # Table[c].name
      <4>1. \A d \in 1 .. m : Before(<<d, 1>>, <<c, 1>>) <=> d \in 1 .. c - 1
        BY DEF Before
      <4>2. \A d \in 1 .. c - 1 : d \in 1 .. m
        OBVIOUS
      <4>3. PICK name : name = LeafName(<<c, 1>>)
        OBVIOUS
      <4>4. name = Table[c].name
        BY <2>3, <4>3
      <4>5. (\A y \in Leaves : Before(y, <<c, 1>>) => LeafName(y) # name)
              <=> \A d \in 1 .. m : Before(<<d, 1>>, <<c, 1>>) => LeafName(<<d, 1>>) # name
        BY <2>2
      <4>6. (\A d \in 1 .. m : Before(<<d, 1>>, <<c, 1>>) => LeafName(<<d, 1>>) # name)
              <=> \A d \in 1 .. m : d \in 1 .. c - 1 => Table[d].name # name
        BY <2>3, <4>1
      <4>7. (\A d \in 1 .. m : d \in 1 .. c - 1 => Table[d].name # name)
              <=> \A d \in 1 .. c - 1 : Table[d].name # name
        BY <4>2
      <4>8. QED
        BY <4>3, <4>4, <4>5, <4>6, <4>7
    <3>3. QED
      BY <2>3, <3>1, <3>2 DEF Mask
  <2>5. ASSUME NEW c \in 1 .. m
        PROVE  /\ c \in S <=> <<c, 1>> \in Mask
               /\ c \in S => parts[c] = WholeColumn(c)
    <3>1. PICK L : L = {x[2] : x \in {y \in Mask : y[1] = c}}
      OBVIOUS
    <3>2. parts[c] = [of |-> c, leaves |-> L]
      BY <1>1, <1>2, <3>1
    <3>3. \A y \in Mask : y[1] = c => y = <<c, 1>>
      BY <2>2 DEF Mask
    <3>4. L = IF <<c, 1>> \in Mask THEN {1} ELSE {}
      <4>1. CASE <<c, 1>> \in Mask
        <5>1. {y \in Mask : y[1] = c} = {<<c, 1>>}
          BY <3>3, <4>1
        <5>2. QED
          BY <3>1, <4>1, <5>1
      <4>2. CASE <<c, 1>> \notin Mask
        <5>1. {y \in Mask : y[1] = c} = {}
          BY <3>3, <4>2
        <5>2. QED
          BY <3>1, <4>2, <5>1
      <4>3. QED
        BY <4>1, <4>2
    <3>5. WholeColumn(c) = [of |-> c, leaves |-> {1}]
      BY <2>1 DEF WholeColumn
    <3>6. parts[c].leaves = L
      BY <3>2
    <3>7. c \in S <=> parts[c].leaves # {}
      BY <1>3
    <3>8. c \in S <=> L # {}
      BY <3>6, <3>7
    <3>9. (<<c, 1>> \in Mask => L = {1}) /\ (<<c, 1>> \notin Mask => L = {})
      BY <3>4
    <3>10. c \in S <=> <<c, 1>> \in Mask
      BY <3>8, <3>9
    <3>11. ASSUME c \in S PROVE parts[c] = WholeColumn(c)
      <4>1. L = {1}
        BY <3>9, <3>10, <3>11
      <4>2. QED
        BY <3>2, <3>5, <4>1
    <3>12. QED
      BY <3>10, <3>11
  <2>6. ASSUME NEW k \in DOMAIN p
        PROVE  \E i \in DOMAIN Names : HasColumn(Names[i]) /\ p[k] = WholeColumn(IndexOf(Names[i]))
    <3>1. PICK c \in 1 .. m : c = q[k] /\ c \in S /\ p[k] = parts[c]
      BY <1>3, <1>8
    <3>2. <<c, 1>> \in Mask /\ p[k] = WholeColumn(c)
      BY <2>5, <3>1
    <3>3. PICK i \in DOMAIN Names : Names[i] = Table[c].name
      BY <2>4, <3>2
    <3>4. HasColumn(Table[c].name) /\ IndexOf(Table[c].name) = c
      <4>1. \A d \in 1 .. c - 1 : Table[d].name # Table[c].name
        BY <2>4, <3>2
      <4>2. QED
        BY <4>1, FirstIsIndex
    <3>5. QED
      BY <3>2, <3>3, <3>4
  <2>7. ASSUME NEW i \in DOMAIN Names, HasColumn(Names[i])
        PROVE  \E k \in DOMAIN p : p[k] = WholeColumn(IndexOf(Names[i]))
    <3>1. PICK c \in 1 .. m : /\ c = IndexOf(Names[i]) /\ Table[c].name = Names[i]
                              /\ \A d \in 1 .. c - 1 : Table[d].name # Names[i]
      BY <2>7, IndexIs
    <3>2. <<c, 1>> \in Mask
      BY <2>4, <3>1
    <3>3. c \in S /\ parts[c] = WholeColumn(c)
      BY <2>5, <3>2
    <3>4. PICK k \in 1 .. l : q[k] = c
      BY <1>8, <3>3
    <3>5. k \in DOMAIN p /\ p[k] = WholeColumn(c)
      BY <1>8, <3>3, <3>4
    <3>6. QED
      BY <3>1, <3>5
  <2>8. QED
    BY <2>6, <2>7 DEF Uniform
<1>13. QED
  BY <1>9, <1>11, <1>12

\* What a reader may make of the columns has their type, and where ColumnsAsAsked
\* speaks of it, it is sound.
LEMMA PushdownSound ==
  ASSUME NEW m \in Nat, NEW n \in Nat, Given(m, n),
         NEW X, X = Pushdown.batch \/ X \in Pushdown.schemas
  PROVE  \E l \in Nat : ColumnsOf(X, l) /\ (slice.reader # "parquet" \/ Flat => Sound(X))
<1>1. \/ X = Masked /\ slice.reader = "parquet"
      \/ X = AsAsked \/ X = OnceAsAsked \/ X = AsInFile \/ X = All
  BY DEF Pushdown
<1>2. CASE X = Masked /\ slice.reader = "parquet"
  <2>1. PICK l \in Nat : ColumnsOf(X, l) /\ (Flat => Uniform(X))
    BY <1>2, MaskedTyped
  <2>2. X = [k \in 1 .. l |-> X[k]]
    BY <2>1 DEF ColumnsOf
  <2>3. Flat => Sound(X)
    BY <2>1, <2>2, UniformSound
  <2>4. QED
    BY <1>2, <2>1, <2>3
<1>3. CASE X = All
  BY <1>3, AllSound
<1>4. CASE X = AsAsked \/ X = OnceAsAsked \/ X = AsInFile
  <2>1. PICK l \in Nat : X = [k \in 1 .. l |-> X[k]] /\ Uniform(X)
    BY <1>4, AsAskedUniform, OnceUniform, InFileUniform
  <2>2. QED
    BY <2>1, UniformSound
<1>5. QED
  BY <1>1, <1>2, <1>3, <1>4

\* The call is as it was, and so is what is said of columns.
CallTyped == slice \in [reader: Readers, table: Tables, names: Requests,
                        mapped: BOOLEAN, rows: BOOLEAN]
AreColumns(X) == \E l \in Nat : ColumnsOf(X, l)
Exempt == ~(slice.reader # "parquet" \/ Flat)

\* Between the steps: what the reader was told is what it may report, what it gave
\* is sound, and it looked for all columns if it is one that does.
ColumnsInv ==
  /\ CallTyped
  /\ step \in {"open", "read", "order", "done", "error"}
  /\ AreColumns(reported) /\ AreColumns(columns)
  /\ step = "read" => reported \in Pushdown.schemas
  /\ step = "order" /\ ~Exempt => Sound(columns)
  /\ ColumnsAsAsked

\* At the start nothing is read yet.
LEMMA NoColumn == AreColumns(<<>>)
<1>1. ColumnsOf(<<>>, 0)
  BY DEF ColumnsOf
<1>2. QED
  BY <1>1 DEF AreColumns

\* The invariant holds at the start.
LEMMA ColumnsStart == ProjectionInit => ColumnsInv
BY NoColumn DEF ProjectionInit, ProjectionStart, ColumnsInv, CallTyped, ColumnsAsAsked

\* Nothing but the call matters to what a reader makes of it.
LEMMA CallKept ==
  ASSUME slice' = slice
  PROVE  /\ Table' = Table /\ Names' = Names /\ HasAll' = HasAll /\ AsAsked' = AsAsked
         /\ Pushdown' = Pushdown
         /\ \A name : HasColumn(name)' = HasColumn(name) /\ IndexOf(name)' = IndexOf(name)
         /\ \A c : WholeColumn(c)' = WholeColumn(c)
<1>1. Table' = Table /\ Names' = Names
  BY DEF Table, Names
<1>2. \A name : IndexOf(name)' = IndexOf(name)
  BY <1>1 DEF IndexOf
<1>3. \A c : WholeColumn(c)' = WholeColumn(c)
  BY <1>1 DEF WholeColumn
<1>4. All' = All
  BY <1>1, <1>3 DEF All
<1>5. \A name : HasColumn(name)' = HasColumn(name)
  BY <1>1 DEF HasColumn
<1>6. {i \in DOMAIN Names : HasColumn(Names[i])}' = {i \in DOMAIN Names : HasColumn(Names[i])}
  BY <1>1, <1>5
<1>7. AsAsked' = AsAsked
  BY <1>1, <1>2, <1>3, <1>6 DEF AsAsked
<1>8. OnceAsAsked' = OnceAsAsked
  BY <1>7 DEF OnceAsAsked
<1>9. AsInFile' = AsInFile
  BY <1>4, <1>7 DEF AsInFile
<1>10. Masked' = Masked
  <2>1. Mask' = Mask
    BY <1>1 DEF Mask, Leaves, LeafName
  <2>2. QED
    BY <1>1, <2>1 DEF Masked
<1>11. Pushdown' = Pushdown
  BY <1>4, <1>7, <1>8, <1>9, <1>10 DEF Pushdown
<1>12. HasAll' = HasAll
  BY <1>1, <1>5 DEF HasAll
<1>13. QED
  BY <1>1, <1>2, <1>3, <1>5, <1>7, <1>11, <1>12

\* Nor to what is said of columns.
LEMMA SaidKept ==
  ASSUME slice' = slice
  PROVE  /\ CallTyped' = CallTyped /\ Exempt' = Exempt
         /\ AreColumns(columns') => AreColumns(columns)'
         /\ AreColumns(reported') => AreColumns(reported)'
         /\ Sound(columns') => Sound(columns)'
<1>1. Table' = Table /\ Names' = Names
  BY CallKept
<1>2. CallTyped' = CallTyped
  BY DEF CallTyped
<1>3. Exempt' = Exempt
  BY <1>1 DEF Exempt, Flat
<1>4. /\ AreColumns(columns') => AreColumns(columns)'
      /\ AreColumns(reported') => AreColumns(reported)'
  BY <1>1 DEF AreColumns, ColumnsOf
<1>5. Sound(columns') => Sound(columns)'
  BY <1>1, CallKept DEF Sound, NameOf
<1>6. QED
  BY <1>2, <1>3, <1>4, <1>5

\* Opening leaves the reader what its way of projecting lets it report.
LEMMA ReaderOpens ==
  ASSUME ColumnsInv, OpenColumns
  PROVE  ColumnsInv'
<1>1. slice' = slice /\ columns' = columns /\ step = "open"
  BY DEF OpenColumns
<1>2. PICK m \in Nat, n \in Nat : Given(m, n)
  BY GivenCall DEF ColumnsInv, CallTyped
<1>3. AreColumns(columns)'
  BY <1>1, SaidKept DEF ColumnsInv
<1>4. CASE Pushdown.strict /\ ~HasAll
  <2>1. step' = "error" /\ reported' = reported
    BY <1>4 DEF OpenColumns
  <2>2. AreColumns(reported)'
    BY <1>1, <2>1, SaidKept DEF ColumnsInv
  <2>3. ~HasAll'
    BY <1>1, <1>4, CallKept
  <2>4. ColumnsAsAsked'
    BY <2>1, <2>3 DEF ColumnsAsAsked
  <2>5. QED
    BY <1>1, <1>3, <2>1, <2>2, <2>4, SaidKept DEF ColumnsInv
<1>5. CASE ~(Pushdown.strict /\ ~HasAll)
  <2>1. step' = "read" /\ reported' \in Pushdown.schemas
    BY <1>5 DEF OpenColumns
  <2>2. AreColumns(reported')
    BY <1>2, <2>1, PushdownSound DEF AreColumns
  <2>3. AreColumns(reported)' /\ (reported \in Pushdown.schemas)'
    BY <1>1, <2>1, <2>2, SaidKept, CallKept
  <2>4. ColumnsAsAsked'
    BY <2>1 DEF ColumnsAsAsked
  <2>5. QED
    BY <1>1, <1>3, <2>1, <2>3, <2>4, SaidKept DEF ColumnsInv
<1>6. QED
  BY <1>4, <1>5

\* A reader with a flat schema, or one that decodes whole rows, gives sound columns.
LEMMA ReaderReads ==
  ASSUME ColumnsInv, ReadColumns
  PROVE  ColumnsInv'
<1>1. slice' = slice /\ reported' = reported /\ step = "read" /\ step' = "order"
  BY DEF ReadColumns
<1>2. PICK m \in Nat, n \in Nat : Given(m, n)
  BY GivenCall DEF ColumnsInv, CallTyped
<1>3. columns' = Pushdown.batch \/ columns' \in Pushdown.schemas
  BY <1>1 DEF ReadColumns, ColumnsInv
<1>4. AreColumns(columns') /\ (~Exempt => Sound(columns'))
  BY <1>2, <1>3, PushdownSound DEF AreColumns, Exempt
<1>5. AreColumns(columns)' /\ (~Exempt' => Sound(columns)')
  BY <1>1, <1>4, SaidKept
<1>6. AreColumns(reported)'
  BY <1>1, SaidKept DEF ColumnsInv
<1>7. ColumnsAsAsked'
  BY <1>1 DEF ColumnsAsAsked
<1>8. QED
  BY <1>1, <1>5, <1>6, <1>7, SaidKept DEF ColumnsInv

\* The first column of a name is the whole column that index_of finds.
LEMMA FirstIsWhole ==
  ASSUME NEW m \in Nat, NEW n \in Nat, Given(m, n), NEW l \in Nat, NEW X, ColumnsOf(X, l),
         Sound(X), NEW name, NEW k \in 1 .. l, NameOf(X[k]) = name,
         \A h \in {h \in DOMAIN X : NameOf(X[h]) = name} : k <= h
  PROVE  X[k] = WholeColumn(IndexOf(name))
<1>1. DOMAIN X = 1 .. l
  BY DEF ColumnsOf
<1>2. \A h \in 1 .. k - 1 : NameOf(X[h]) # NameOf(X[k])
  BY <1>1
<1>3. QED
  BY <1>1, <1>2 DEF Sound

\* order_columns puts sound columns in the order asked for, or misses one.
LEMMA ColumnsOrdered ==
  ASSUME ColumnsInv, OrderColumns
  PROVE  ColumnsInv'
<1>1. slice' = slice /\ reported' = reported /\ step = "order"
  BY DEF OrderColumns
<1>2. PICK m \in Nat, n \in Nat : Given(m, n)
  BY GivenCall DEF ColumnsInv, CallTyped
<1>3. PICK l \in Nat : ColumnsOf(columns, l)
  BY DEF ColumnsInv, AreColumns
<1>4. DOMAIN columns = 1 .. l
  BY <1>3 DEF ColumnsOf
<1>5. DOMAIN Names = 1 .. n /\ DOMAIN Table = 1 .. m
  BY <1>2 DEF Given
<1>6. AreColumns(reported)'
  BY <1>1, SaidKept DEF ColumnsInv
<1>7. CASE \E i \in DOMAIN Names : {k \in DOMAIN columns : NameOf(columns[k]) = Names[i]} = {}
  <2>1. step' = "error" /\ columns' = columns
    BY <1>7 DEF OrderColumns
  <2>2. AreColumns(columns)'
    BY <1>1, <2>1, SaidKept DEF ColumnsInv
  <2>3. ~Exempt => ~HasAll
    <3>1. SUFFICES ASSUME ~Exempt, HasAll PROVE FALSE
      OBVIOUS
    <3>2. PICK i \in DOMAIN Names : {k \in DOMAIN columns : NameOf(columns[k]) = Names[i]} = {}
      BY <1>7
    <3>3. Sound(columns)
      BY <1>1, <3>1 DEF ColumnsInv
    <3>4. HasColumn(Names[i])
      BY <3>1 DEF HasAll
    <3>5. \E k \in DOMAIN columns : NameOf(columns[k]) = Names[i]
      BY <3>3, <3>4 DEF Sound
    <3>6. QED
      BY <3>2, <3>5
  <2>4. ColumnsAsAsked'
    BY <1>1, <2>1, <2>3, CallKept, SaidKept DEF ColumnsAsAsked, Exempt
  <2>5. QED
    BY <1>1, <1>6, <2>1, <2>2, <2>4, SaidKept DEF ColumnsInv
<1>8. CASE ~\E i \in DOMAIN Names : {k \in DOMAIN columns : NameOf(columns[k]) = Names[i]} = {}
  <2> DEFINE at(name) == {k \in DOMAIN columns : NameOf(columns[k]) = name}
             first(i) == CHOOSE k \in at(Names[i]) : \A h \in at(Names[i]) : k <= h
  <2>1. step' = "done" /\ columns' = [i \in 1 .. n |-> columns[first(i)]]
    BY <1>5, <1>8 DEF OrderColumns
  <2>2. ASSUME NEW i \in 1 .. n
        PROVE  /\ first(i) \in 1 .. l /\ NameOf(columns[first(i)]) = Names[i]
               /\ \A h \in at(Names[i]) : first(i) <= h
    <3>1. at(Names[i]) # {} /\ at(Names[i]) \subseteq Nat
      BY <1>4, <1>5, <1>8
    <3>2. \E k \in at(Names[i]) : \A h \in at(Names[i]) : k <= h
      <4> HIDE DEF at
      <4>1. QED
        BY <3>1, LeastExists
    <3>3. first(i) \in at(Names[i]) /\ \A h \in at(Names[i]) : first(i) <= h
      BY <3>2
    <3>4. QED
      BY <1>4, <3>3
  <2> HIDE DEF first
  <2>3. ColumnsOf(columns', n)
    <3>1. ASSUME NEW i \in 1 .. n
          PROVE  columns'[i] \in [of: DOMAIN Table, leaves: SUBSET Nat]
      <4>1. columns'[i] = columns[first(i)] /\ first(i) \in 1 .. l
        BY <2>1, <2>2
      <4>2. QED
        BY <1>3, <4>1 DEF ColumnsOf
    <3>2. columns' = [i \in 1 .. n |-> columns'[i]]
      BY <2>1
    <3>3. QED
      BY <3>1, <3>2 DEF ColumnsOf
  <2>4. AreColumns(columns)'
    BY <1>1, <2>3, SaidKept DEF AreColumns
  <2>5. ASSUME ~Exempt PROVE HasAll /\ columns' = AsAsked
    <3>1. Sound(columns)
      BY <1>1, <2>5 DEF ColumnsInv
    <3>2. HasAll
      <4>1. ASSUME NEW i \in DOMAIN Names PROVE HasColumn(Names[i])
        <5>1. first(i) \in 1 .. l /\ NameOf(columns[first(i)]) = Names[i]
          BY <1>5, <2>2
        <5>2. columns[first(i)].of \in DOMAIN Table
          BY <1>3, <5>1 DEF ColumnsOf
        <5>3. QED
          BY <5>1, <5>2 DEF HasColumn, NameOf
      <4>2. QED
        BY <4>1 DEF HasAll
    <3>3. ASSUME NEW i \in 1 .. n PROVE columns[first(i)] = WholeColumn(IndexOf(Names[i]))
      BY <1>2, <1>3, <2>2, <3>1, FirstIsWhole
    <3>4. AsAsked = [i \in 1 .. n |-> WholeColumn(IndexOf(Names[i]))]
      BY <1>2, <3>2, AsAskedAll
    <3>5. QED
      BY <2>1, <3>2, <3>3, <3>4
  <2>6. ColumnsAsAsked'
    <3>1. ~Exempt' => HasAll' /\ columns' = AsAsked'
      BY <1>1, <2>5, CallKept, SaidKept
    <3>2. QED
      BY <2>1, <3>1 DEF ColumnsAsAsked, Exempt
  <2>7. QED
    BY <1>1, <1>6, <2>1, <2>4, <2>6, SaidKept DEF ColumnsInv
<1>9. QED
  BY <1>7, <1>8

\* A step of another part of the system leaves the call alone.
LEMMA ColumnsStutter ==
  ASSUME ColumnsInv, UNCHANGED projectionVars
  PROVE  ColumnsInv'
<1>1. slice' = slice /\ reported' = reported /\ columns' = columns /\ step' = step
  BY DEF projectionVars
<1>2. AreColumns(columns)' /\ AreColumns(reported)'
  BY <1>1, SaidKept DEF ColumnsInv
<1>3. step' = "read" => (reported \in Pushdown.schemas)'
  BY <1>1, CallKept DEF ColumnsInv
<1>4. (step' = "order" /\ ~Exempt') => Sound(columns)'
  BY <1>1, SaidKept DEF ColumnsInv
<1>5. ColumnsAsAsked'
  <2>1. ~Exempt' => /\ (step' = "done" => (HasAll' /\ columns' = AsAsked'))
                    /\ (step' = "error" => ~HasAll')
    BY <1>1, CallKept, SaidKept DEF ColumnsInv, ColumnsAsAsked, Exempt
  <2>2. QED
    BY <2>1 DEF ColumnsAsAsked, Exempt
<1>6. QED
  BY <1>1, <1>2, <1>3, <1>4, <1>5, SaidKept DEF ColumnsInv

\* Every step keeps the invariant.
LEMMA ColumnsStep ==
  ASSUME ColumnsInv, [ProjectionNext]_projectionVars
  PROVE  ColumnsInv'
BY ReaderOpens, ReaderReads, ColumnsOrdered, ColumnsStutter DEF ProjectionNext

\* It is always true.
LEMMA ColumnsHold == ProjectionSpec => []ColumnsInv
BY ColumnsStart, ColumnsStep, PTL DEF ProjectionSpec

\* The columns of a call have their types.
LEMMA ColumnsInvTyped == ColumnsInv => ProjectionTypeOK
<1>1. SUFFICES ASSUME ColumnsInv PROVE ProjectionTypeOK
  OBVIOUS
<1>2. /\ reported \in Seq([of: DOMAIN Table, leaves: SUBSET Nat])
      /\ columns \in Seq([of: DOMAIN Table, leaves: SUBSET Nat])
  BY <1>1, ColumnsTyped DEF ColumnsInv, AreColumns
<1>3. QED
  BY <1>1, <1>2 DEF ColumnsInv, CallTyped, ProjectionTypeOK

\* A call for columns keeps its types: what is reported and what is given are lists
\* of columns of the file, each with some of its leaves (slice.rs, formats/plugins).
THEOREM ColumnsAreTyped == ProjectionSpec => []ProjectionTypeOK
BY ColumnsHold, ColumnsInvTyped, PTL

\* Whatever a reader makes of a request, slice_cols returns the columns asked for,
\* whole and in order, or fails because one is not there (slice.rs).
THEOREM ColumnsAreAsAsked == ProjectionSpec => []ColumnsAsAsked
<1>1. ColumnsInv => ColumnsAsAsked
  BY DEF ColumnsInv
<1>2. QED
  BY <1>1, ColumnsHold, PTL

-----------------------------------------------------------------------------
(* Avro: integers. *)

\* The powers of x, up to the n-th.
Powers(w, x, n) == w = [i \in 0 .. n |-> IF i = 0 THEN 1 ELSE x * w[i - 1]]

\* They exist.
LEMMA PowersExist ==
  ASSUME NEW x \in Nat, NEW n \in Nat
  PROVE  \E w : Powers(w, x, n)
<1> DEFINE K == {k \in Nat : ~\E w : Powers(w, x, k)}
<1>1. SUFFICES ASSUME K # {} PROVE FALSE
  OBVIOUS
<1>2. PICK m \in K : \A k \in K : m <= k
  <2>1. K \subseteq Nat
    OBVIOUS
  <2> HIDE DEF K
  <2>2. QED
    BY <1>1, <2>1, LeastExists
<1>3. m \in Nat /\ ~\E w : Powers(w, x, m)
  OBVIOUS
<1>4. m # 0
  <2>1. Powers([i \in 0 .. 0 |-> 1], x, 0)
    BY DEF Powers
  <2>2. QED
    BY <1>3, <2>1
<1>5. PICK h : Powers(h, x, m - 1)
  <2>1. m - 1 \in Nat /\ ~(m <= m - 1)
    BY <1>3, <1>4
  <2>2. m - 1 \notin K
    BY <1>2, <2>1
  <2>3. QED
    BY <2>1, <2>2
<1>6. \A i \in 0 .. m - 1 : h[i] = IF i = 0 THEN 1 ELSE x * h[i - 1]
  BY <1>5 DEF Powers
<1> DEFINE g == [i \in 0 .. m |-> IF i = 0 THEN 1 ELSE x * h[i - 1]]
<1>7. \A i \in 0 .. m - 1 : g[i] = h[i]
  <2>1. \A i \in 0 .. m - 1 : i \in 0 .. m
    BY <1>3
  <2>2. \A i \in 0 .. m - 1 : g[i] = IF i = 0 THEN 1 ELSE x * h[i - 1]
    BY <2>1
  <2> HIDE DEF g
  <2>3. QED
    BY <1>6, <2>2
<1>8. \A i \in 0 .. m : i # 0 => g[i - 1] = h[i - 1]
  <2>1. \A i \in 0 .. m : i # 0 => i - 1 \in 0 .. m - 1
    BY <1>3
  <2> HIDE DEF g
  <2>2. QED
    BY <1>7, <2>1
<1>9. Powers(g, x, m)
  <2>1. \A i \in 0 .. m : (IF i = 0 THEN 1 ELSE x * h[i - 1])
                            = (IF i = 0 THEN 1 ELSE x * g[i - 1])
    BY <1>8
  <2>2. g = [i \in 0 .. m |-> IF i = 0 THEN 1 ELSE x * g[i - 1]]
    BY <2>1
  <2>3. QED
    BY <2>2 DEF Powers
<1>10. QED
  BY <1>3, <1>9

\* What the constants are.
LEMMA AvroKinds == More \in Nat /\ More >= 2 /\ MaxDigits \in Nat /\ MaxDigits >= 1
BY DigitsAssumption

\* A place is worth More times the one before it.
LEMMA WeightStep ==
  /\ Weight[0] = 1
  /\ \A i \in 1 .. MaxDigits : Weight[i] = More * Weight[i - 1]
<1>1. PICK w : Powers(w, More, MaxDigits)
  BY AvroKinds, PowersExist
<1>2. Powers(Weight, More, MaxDigits)
  <2>1. Weight = CHOOSE g : Powers(g, More, MaxDigits)
    BY DEF Weight, Powers
  <2>2. QED
    BY <1>1, <2>1
<1>3. \A i \in 0 .. MaxDigits : Weight[i] = IF i = 0 THEN 1 ELSE More * Weight[i - 1]
  BY <1>2 DEF Powers
<1>4. 0 \in 0 .. MaxDigits /\ \A i \in 1 .. MaxDigits : i \in 0 .. MaxDigits /\ i # 0
  BY AvroKinds
<1>5. QED
  BY <1>3, <1>4

\* Every place is worth something.
LEMMA WeightTyped == \A i \in 0 .. MaxDigits : Weight[i] \in Nat \ {0}
<1> DEFINE K == {k \in Nat : k <= MaxDigits /\ Weight[k] \notin Nat \ {0}}
<1>1. SUFFICES ASSUME K # {} PROVE FALSE
  BY AvroKinds
<1>2. PICK m \in K : \A k \in K : m <= k
  <2>1. K \subseteq Nat
    OBVIOUS
  <2> HIDE DEF K
  <2>2. QED
    BY <1>1, <2>1, LeastExists
<1>3. m \in Nat /\ m <= MaxDigits /\ Weight[m] \notin Nat \ {0}
  OBVIOUS
<1>4. m # 0
  BY <1>3, WeightStep
<1>5. m - 1 \in Nat /\ m - 1 <= MaxDigits /\ ~(m <= m - 1) /\ m \in 1 .. MaxDigits
  BY <1>3, <1>4, AvroKinds
<1>6. Weight[m - 1] \in Nat \ {0}
  BY <1>2, <1>5
<1>7. Weight[m] = More * Weight[m - 1]
  BY <1>5, WeightStep
<1>8. PICK w \in Nat \ {0} : w = Weight[m - 1]
  BY <1>6
<1>9. PICK b \in Nat \ {0} : b = More
  BY AvroKinds
<1>10. b * w \in Nat \ {0}
  OBVIOUS
<1>11. QED
  BY <1>3, <1>7, <1>8, <1>9, <1>10

\* The longest integer, and how much more its digits could say.
LEMMA LongBounds ==
  /\ MaxLong \in Nat /\ MinLong = -MaxLong - 1
  /\ MaxLong + 1 = Weight[MaxDigits - 1]
  /\ 2 * MaxLong + 1 < Weight[MaxDigits]
<1>1. MaxDigits - 1 \in 0 .. MaxDigits /\ MaxDigits \in 1 .. MaxDigits
  BY AvroKinds
<1>2. PICK w \in Nat \ {0} : w = Weight[MaxDigits - 1]
  BY <1>1, WeightTyped
<1>3. Weight[MaxDigits] = More * w
  BY <1>1, <1>2, WeightStep
<1>4. PICK b \in Nat : b = More /\ b >= 2
  BY AvroKinds
<1>5. 2 * w <= b * w
  BY <1>4
<1>6. MaxLong = w - 1
  BY <1>2 DEF MaxLong
<1>7. 2 * (w - 1) + 1 < b * w /\ w - 1 \in Nat /\ (w - 1) + 1 = w
  BY <1>5
<1>8. QED
  BY <1>2, <1>3, <1>4, <1>6, <1>7 DEF MinLong

\* The number whose digits are written for v (zigzag).
Coded(v) == IF v >= 0 THEN 2 * v ELSE -2 * v - 1

\* It fits, and Unfold gives v back.
LEMMA CodedIs ==
  ASSUME NEW v \in MinLong .. MaxLong
  PROVE  /\ Coded(v) \in 0 .. 2 * MaxLong + 1
         /\ Unfold(Coded(v)) = v
<1>1. PICK m \in Nat : m = MaxLong /\ MinLong = -m - 1
  BY LongBounds
<1>2. v \in Int /\ -m - 1 <= v /\ v <= m
  BY <1>1
<1>3. CASE v >= 0
  <2>1. Coded(v) = 2 * v
    BY <1>3 DEF Coded
  <2>2. PICK n \in Nat : n = v
    BY <1>2, <1>3
  <2>3. (2 * n) % 2 = 0 /\ (2 * n) \div 2 = n
    OBVIOUS
  <2>4. QED
    BY <1>1, <1>2, <2>1, <2>2, <2>3 DEF Unfold
<1>4. CASE v < 0
  <2>1. Coded(v) = -2 * v - 1
    BY <1>2, <1>4 DEF Coded
  <2>2. PICK n \in Nat : n = -v - 1 /\ v = -n - 1 /\ n <= m
    <3>1. -v - 1 \in Nat /\ v = -(-v - 1) - 1 /\ -v - 1 <= m
      BY <1>2, <1>4
    <3>2. QED
      BY <3>1
  <2>3. -2 * v - 1 = 2 * n + 1
    BY <2>2
  <2>4. (2 * n + 1) % 2 = 1 /\ (2 * n + 1) \div 2 = n
    OBVIOUS
  <2>5. QED
    BY <1>1, <2>1, <2>2, <2>3, <2>4 DEF Unfold
<1>5. QED
  BY <1>2, <1>3, <1>4

\* Numbers that are written.
Writable == 0 .. 2 * MaxLong + 1

\* The number of digits: enough, and with fewer it would not fit.
LEMMA PlacesIs ==
  ASSUME NEW n \in Writable
  PROVE  /\ n \in Nat /\ Places(n) \in 1 .. MaxDigits /\ n < Weight[Places(n)]
         /\ \A k \in 1 .. MaxDigits : n < Weight[k] => Places(n) <= k
<1>1. PICK m \in Nat : m = 2 * MaxLong + 1 /\ m < Weight[MaxDigits]
  BY LongBounds
<1>2. n \in Nat /\ n <= m
  BY <1>1 DEF Writable
<1>3. PICK S : S = {k \in 1 .. MaxDigits : n < Weight[k]}
  OBVIOUS
<1>4. MaxDigits \in 1 .. MaxDigits /\ Weight[MaxDigits] \in Nat
  BY AvroKinds, WeightTyped
<1>5. n < Weight[MaxDigits]
  BY <1>1, <1>2, <1>4
<1>6. S \subseteq Nat /\ S # {}
  BY <1>3, <1>4, <1>5
<1>7. PICK x \in S : \A y \in S : x <= y
  BY <1>6, LeastExists
<1>8. Places(n) = Min(S)
  BY <1>3 DEF Places
<1>9. Min(S) = CHOOSE y \in S : \A z \in S : y <= z
  BY DEF Min
<1>10. Min(S) \in S /\ \A y \in S : Min(S) <= y
  BY <1>7, <1>9
<1>11. QED
  BY <1>2, <1>3, <1>8, <1>10

\* The digit of n at place i.
Low(n, i) == (n \div Weight[i]) % More

\* Dividing by the next place is dividing by this one and by More.
LEMMA NextPlace ==
  ASSUME NEW n \in Nat, NEW i \in 0 .. MaxDigits - 1
  PROVE  \E w \in Nat \ {0}, q \in Nat, x \in Nat, b \in Nat :
           /\ w = Weight[i] /\ Weight[i + 1] = More * w
           /\ q = n \div w /\ x = n \div Weight[i + 1] /\ b = Low(n, i)
           /\ q = x * More + b /\ b < More
<1>1. i \in 0 .. MaxDigits /\ i + 1 \in 1 .. MaxDigits /\ (i + 1) - 1 = i
  BY AvroKinds
<1>2. PICK w \in Nat \ {0} : w = Weight[i]
  BY <1>1, WeightTyped
<1>3. Weight[i + 1] = More * w
  BY <1>1, <1>2, WeightStep
<1>4. PICK c \in Nat \ {0} : c = More
  BY AvroKinds
<1>5. PICK q \in Nat, r \in Nat : q = n \div w /\ r = n % w /\ r < w /\ n = q * w + r
  BY DivMod
<1>6. PICK x \in Nat, b \in Nat : x = q \div c /\ b = q % c /\ b < c /\ q = x * c + b
  BY DivMod
<1>7. PICK v \in Nat \ {0} : v = c * w
  <2>1. c * w \in Nat \ {0}
    OBVIOUS
  <2>2. QED
    BY <2>1
<1>8. PICK y \in Nat, z \in Nat : y = n \div v /\ z = n % v /\ z < v /\ n = y * v + z
  BY DivMod
<1>9. n = x * v + (b * w + r) /\ b * w + r \in Nat
  <2>1. q * w = (x * c + b) * w
    BY <1>6
  <2>2. (x * c + b) * w = x * (c * w) + b * w
    OBVIOUS
  <2>3. x * (c * w) \in Nat /\ b * w \in Nat
    OBVIOUS
  <2>4. QED
    BY <1>5, <1>7, <2>1, <2>2, <2>3
<1>10. b * w + r < v
  <2>1. (b + 1) * w <= c * w
    BY <1>6
  <2>2. (b + 1) * w = b * w + w /\ b * w \in Nat
    OBVIOUS
  <2>3. QED
    BY <1>5, <1>7, <2>1, <2>2
<1>11. y = x
  BY <1>8, <1>9, <1>10, DivModUnique
<1>12. b = Low(n, i)
  BY <1>2, <1>4, <1>5, <1>6 DEF Low
<1>13. x = n \div Weight[i + 1] /\ q = x * More + b /\ b < More
  BY <1>3, <1>4, <1>6, <1>7, <1>8, <1>11
<1>14. QED
  BY <1>2, <1>3, <1>5, <1>12, <1>13

\* What the digits of a number below place l are worth.
DigitTerms(f, n, l) == \A i \in 0 .. l - 1 : f[i] = Low(n, i) * Weight[i]

\* They add up to the number, but for what the places from l on make of it.
LEMMA DigitsAdd ==
  ASSUME NEW n \in Nat, NEW f, NEW l \in 0 .. MaxDigits, DigitTerms(f, n, l)
  PROVE  \E s \in Nat, q \in Nat, w \in Nat :
           /\ s = SumFunctionOnSet(f, 0 .. l - 1) /\ q = n \div Weight[l] /\ w = Weight[l]
           /\ s + q * w = n
<1>0. \A i \in 0 .. l - 1 : f[i] = Low(n, i) * Weight[i]
  BY DEF DigitTerms
<1> DEFINE Right(k) == \E s \in Nat, q \in Nat, w \in Nat :
                         /\ s = SumFunctionOnSet(f, 0 .. k - 1)
                         /\ q = n \div Weight[k] /\ w = Weight[k]
                         /\ s + q * w = n
           K == {k \in Nat : k <= l /\ ~Right(k)}
<1> HIDE DEF Right
<1>1. SUFFICES ASSUME K # {} PROVE FALSE
  <2>1. \A k \in 0 .. l : k \in Nat /\ k <= l
    BY AvroKinds
  <2>2. \A k \in 0 .. l : Right(k)
    BY <1>1, <2>1
  <2>3. l \in 0 .. l
    BY AvroKinds
  <2>4. QED
    BY <2>2, <2>3 DEF Right
<1>2. PICK m \in K : \A k \in K : m <= k
  <2>1. K \subseteq Nat
    OBVIOUS
  <2> HIDE DEF K
  <2>2. QED
    BY <1>1, <2>1, LeastExists
<1>3. m \in Nat /\ m <= l /\ ~Right(m)
  OBVIOUS
<1>4. PICK d \in Nat : d = MaxDigits /\ l <= d /\ l \in Nat
  BY AvroKinds
<1>5. m # 0
  <2>1. SUFFICES ASSUME m = 0 PROVE FALSE
    OBVIOUS
  <2>2. PICK e : e = 0 .. (0 - 1)
    OBVIOUS
  <2>3. e = {}
    BY <2>2
  <2>4. IsFiniteSet({})
    BY FS_EmptySet
  <2>5. SumFunctionOnSet(f, {}) = 0
    BY <2>4, SumStep
  <2>6. n \div 1 = n /\ 0 + n * 1 = n
    OBVIOUS
  <2>7. Right(0)
    BY <2>2, <2>3, <2>5, <2>6, WeightStep DEF Right
  <2>8. QED
    BY <1>3, <2>1, <2>7
<1>6. PICK j \in Nat : j + 1 = m /\ j <= l /\ j \in 0 .. d - 1 /\ j \in 0 .. l - 1
  <2>1. m - 1 \in Nat /\ (m - 1) + 1 = m /\ m - 1 <= l /\ m - 1 \in 0 .. d - 1 /\ m - 1 \in 0 .. l - 1
    BY <1>3, <1>4, <1>5
  <2>2. QED
    BY <2>1
<1>7. Right(j)
  <2>1. j \notin K
    <3> HIDE DEF K
    <3>1. ~(m <= j)
      BY <1>6
    <3>2. QED
      BY <1>2, <3>1
  <2>2. QED
    BY <1>6, <2>1
<1>8. PICK w \in Nat \ {0}, q \in Nat, x \in Nat, b \in Nat :
           /\ w = Weight[j] /\ Weight[j + 1] = More * w
           /\ q = n \div w /\ x = n \div Weight[j + 1] /\ b = Low(n, j)
           /\ q = x * More + b /\ b < More
  BY <1>4, <1>6, NextPlace
<1>9. PICK s \in Nat : s = SumFunctionOnSet(f, 0 .. j - 1) /\ s + q * w = n
  BY <1>7, <1>8 DEF Right
<1>10. PICK c \in Nat : c = More
  BY AvroKinds
<1>11. f[j] = b * w
  BY <1>0, <1>6, <1>8
<1>12. PICK S : S = 0 .. m - 1
  OBVIOUS
<1>13. /\ j \in S /\ S \ {j} = 0 .. j - 1 /\ IsFiniteSet(S)
       /\ \A i \in S : i \in 0 .. l - 1
  <2>1. IsFiniteSet(0 .. m - 1)
    BY FS_Interval
  <2>2. j \in S /\ \A i \in S : i \in 0 .. l - 1
    BY <1>3, <1>4, <1>6, <1>12
  <2>3. S \ {j} = 0 .. j - 1
    BY <1>6, <1>12
  <2>4. QED
    BY <1>12, <2>1, <2>2, <2>3
<1>14. \A i \in S : f[i] \in Nat
  <2>1. SUFFICES ASSUME NEW i \in S PROVE f[i] \in Nat
    OBVIOUS
  <2>2. i \in 0 .. l - 1 /\ i \in 0 .. MaxDigits - 1
    BY <1>4, <1>13
  <2>3. PICK v \in Nat \ {0}, a \in Nat : v = Weight[i] /\ a = Low(n, i)
    BY <2>2, NextPlace
  <2>4. f[i] = a * v
    BY <1>0, <2>2, <2>3
  <2>5. QED
    BY <2>4
<1>15. SumFunctionOnSet(f, S) = f[j] + SumFunctionOnSet(f, S \ {j})
  BY <1>13, <1>14, SumAny
<1>16. SumFunctionOnSet(f, S) = b * w + s
  BY <1>9, <1>11, <1>13, <1>15
<1>17. (b * w + s) + x * (c * w) = n
  <2>1. q * w = (x * c + b) * w
    BY <1>8, <1>10
  <2>2. (x * c + b) * w = x * (c * w) + b * w
    OBVIOUS
  <2>3. QED
    BY <1>9, <2>1, <2>2
<1>18. b * w + s \in Nat /\ c * w \in Nat
  OBVIOUS
<1>19. Right(m)
  <2>1. PICK t \in Nat, v \in Nat : t = b * w + s /\ v = c * w
    BY <1>18
  <2>2. t = SumFunctionOnSet(f, 0 .. m - 1)
    BY <1>12, <1>16, <2>1
  <2>3. Weight[m] = Weight[j + 1]
    BY <1>6
  <2>4. v = Weight[m] /\ x = n \div Weight[m]
    BY <1>8, <1>10, <2>1, <2>3
  <2>5. t + x * v = n
    BY <1>17, <2>1
  <2>6. QED
    BY <2>2, <2>4, <2>5 DEF Right
<1>20. QED
  BY <1>3, <1>19

\* The digits that are written.
LEMMA DigitsAre ==
  ASSUME NEW n \in Writable
  PROVE  \E k \in Nat, d \in Seq(Nat) :
           /\ k = Places(n) /\ k \in 1 .. MaxDigits /\ n < Weight[k] /\ n \in Nat
           /\ d = Digits(n) /\ Len(d) = k
           /\ \A i \in 0 .. k - 1 : Low(n, i) \in Nat /\ d[i + 1] % More = Low(n, i)
           /\ \A i \in 0 .. k - 2 : d[i + 1] >= More
           /\ d[k] < More
           /\ k = MaxDigits => d[k] <= 1
<1>1. PICK k \in Nat : /\ k = Places(n) /\ k \in 1 .. MaxDigits /\ n < Weight[k] /\ n \in Nat
  BY PlacesIs, AvroKinds
<1>2. PICK c \in Nat : c = More /\ c >= 2
  BY AvroKinds
<1>3. \A i \in 0 .. k - 1 : Low(n, i) \in Nat /\ Low(n, i) < c
  <2>1. SUFFICES ASSUME NEW i \in 0 .. k - 1 PROVE Low(n, i) \in Nat /\ Low(n, i) < c
    OBVIOUS
  <2>2. i \in 0 .. MaxDigits - 1
    BY <1>1, AvroKinds
  <2>3. QED
    BY <1>1, <1>2, <2>2, NextPlace
<1>4. PICK d : d = Digits(n)
  OBVIOUS
<1>5. d = [i \in 1 .. k |-> ((n \div Weight[i - 1]) % More) + (IF i < k THEN More ELSE 0)]
  BY <1>1, <1>4 DEF Digits
<1>6. \A i \in 0 .. k - 1 : d[i + 1] = Low(n, i) + (IF i + 1 < k THEN c ELSE 0)
  <2>1. SUFFICES ASSUME NEW i \in 0 .. k - 1
                 PROVE  d[i + 1] = Low(n, i) + (IF i + 1 < k THEN c ELSE 0)
    OBVIOUS
  <2>2. i + 1 \in 1 .. k /\ (i + 1) - 1 = i
    BY <1>1
  <2>3. PICK h : h = i + 1
    OBVIOUS
  <2>4. d[h] = ((n \div Weight[h - 1]) % More) + (IF h < k THEN More ELSE 0)
    BY <1>5, <2>2, <2>3
  <2>5. QED
    BY <1>2, <2>2, <2>3, <2>4 DEF Low
<1>7. \A i \in 1 .. k : d[i] \in Nat
  <2>1. SUFFICES ASSUME NEW i \in 1 .. k PROVE d[i] \in Nat
    OBVIOUS
  <2>2. PICK h \in Nat : h + 1 = i /\ h \in 0 .. k - 1
    <3>1. i - 1 \in Nat /\ (i - 1) + 1 = i /\ i - 1 \in 0 .. k - 1
      BY <1>1
    <3>2. QED
      BY <3>1
  <2>3. PICK x \in Nat : x = Low(n, h)
    BY <1>3, <2>2
  <2>4. d[i] = x + (IF i < k THEN c ELSE 0)
    BY <1>6, <2>2, <2>3
  <2>5. QED
    BY <1>2, <2>3, <2>4
<1>8. d \in Seq(Nat) /\ Len(d) = k
  <2>1. d = [i \in 1 .. k |-> d[i]]
    BY <1>5
  <2>2. QED
    BY <1>1, <1>7, <2>1
<1>9. \A i \in 0 .. k - 1 : d[i + 1] % More = Low(n, i)
  <2>1. SUFFICES ASSUME NEW i \in 0 .. k - 1 PROVE d[i + 1] % c = Low(n, i)
    BY <1>2
  <2>2. PICK x \in Nat : x = Low(n, i) /\ x < c
    BY <1>3
  <2>3. x % c = x /\ (x + c) % c = x
    BY <1>2, <2>2
  <2>4. d[i + 1] = x \/ d[i + 1] = x + c
    BY <1>2, <1>6, <2>2
  <2>5. QED
    BY <2>2, <2>3, <2>4
<1>10. \A i \in 0 .. k - 2 : d[i + 1] >= More
  <2>1. \A i \in 0 .. k - 2 : i \in 0 .. k - 1 /\ i + 1 < k
    BY <1>1
  <2>2. QED
    BY <1>2, <1>3, <1>6, <2>1
<1>11. PICK h \in Nat : h = k - 1 /\ h + 1 = k /\ h \in 0 .. k - 1 /\ h \in 0 .. MaxDigits - 1
  <2>1. k - 1 \in Nat /\ (k - 1) + 1 = k /\ k - 1 \in 0 .. k - 1 /\ k - 1 \in 0 .. MaxDigits - 1
    BY <1>1, AvroKinds
  <2>2. QED
    BY <2>1
<1>12. d[k] = Low(n, h)
  BY <1>3, <1>6, <1>11
<1>13. d[k] < More
  BY <1>2, <1>3, <1>11, <1>12
<1>14. ASSUME k = MaxDigits PROVE d[k] <= 1
  <2>1. PICK w \in Nat \ {0}, q \in Nat, x \in Nat, b \in Nat :
           /\ w = Weight[h] /\ Weight[h + 1] = More * w
           /\ q = n \div w /\ x = n \div Weight[h + 1] /\ b = Low(n, h)
           /\ q = x * More + b /\ b < More
    BY <1>1, <1>11, NextPlace
  <2>2. PICK m \in Nat : m = MaxLong /\ m + 1 = w
    BY <1>11, <1>14, <2>1, LongBounds
  <2>3. n < 2 * w
    BY <1>1, <2>2 DEF Writable
  <2>4. n = (n \div w) * w + (n % w) /\ (n % w) \in Nat
    BY <1>1, DivMod
  <2>5. q * w <= n
    BY <1>1, <2>1, <2>4
  <2>6. q <= 1
    <3>1. SUFFICES ASSUME q >= 2 PROVE FALSE
      OBVIOUS
    <3>2. q * w >= 2 * w
      BY <3>1
    <3>3. q * w \in Nat
      OBVIOUS
    <3>4. QED
      BY <1>1, <2>3, <2>5, <3>2, <3>3
  <2>7. b <= q
    <3>1. x * c \in Nat
      BY <1>2
    <3>2. QED
      BY <1>2, <2>1, <3>1
  <2>8. QED
    BY <1>12, <2>1, <2>6, <2>7
<1>15. QED
  BY <1>1, <1>3, <1>4, <1>8, <1>9, <1>10, <1>13, <1>14

\* An integer is a sequence of digits, and has one at least.
LEMMA LongTyped ==
  ASSUME NEW v \in MinLong .. MaxLong
  PROVE  Long(v) \in Seq(Nat) /\ Len(Long(v)) \in Nat /\ Len(Long(v)) >= 1
<1>1. Coded(v) \in Writable
  BY CodedIs DEF Writable
<1>2. Long(v) = Digits(Coded(v))
  BY DEF Long, Coded
<1>3. PICK k \in Nat, d \in Seq(Nat) : k \in 1 .. MaxDigits /\ d = Long(v) /\ Len(d) = k
  BY <1>1, <1>2, DigitsAre
<1>4. QED
  BY <1>3

\* What lies where something is read.
Lies(s, p) == LiesIn(s, p, bytes)

\* An integer that is written whole is read, and one that is cut off is not.
LEMMA LongRead ==
  ASSUME bytes \in Seq(Nat), NEW p \in Nat, NEW v \in MinLong .. MaxLong, Lies(Long(v), p)
  PROVE  /\ p + Len(Long(v)) <= Len(bytes) => ReadLong(p) = Integer(v, p + Len(Long(v)))
         /\ p + Len(Long(v)) > Len(bytes) => ReadLong(p) = NoInteger(p >= Len(bytes))
<1>1. PICK n : n = Coded(v) /\ n \in Writable /\ Unfold(n) = v
  BY CodedIs DEF Writable
<1>2. PICK k \in Nat, d \in Seq(Nat) :
           /\ k = Places(n) /\ k \in 1 .. MaxDigits /\ n < Weight[k] /\ n \in Nat
           /\ d = Digits(n) /\ Len(d) = k
           /\ \A i \in 0 .. k - 1 : Low(n, i) \in Nat /\ d[i + 1] % More = Low(n, i)
           /\ \A i \in 0 .. k - 2 : d[i + 1] >= More
           /\ d[k] < More
           /\ k = MaxDigits => d[k] <= 1
  BY <1>1, DigitsAre
<1>3. d = Long(v)
  BY <1>1, <1>2 DEF Long, Coded
<1>4. PICK l \in Nat : l = Len(bytes)
  OBVIOUS
<1>5. PICK m \in Nat : m = MaxDigits /\ k <= m /\ 1 <= k
  BY <1>2, AvroKinds
<1>6. \A i \in 0 .. k - 1 : p + i < l => Digit(p, i) = d[i + 1]
  <2>1. SUFFICES ASSUME NEW i \in 0 .. k - 1, p + i < l PROVE Digit(p, i) = d[i + 1]
    OBVIOUS
  <2>2. i + 1 \in 1 .. k /\ p + (i + 1) <= l /\ p + (i + 1) = p + i + 1
    BY <1>4, <2>1
  <2>3. PICK h : h = i + 1
    OBVIOUS
  <2>4. bytes[p + h] = d[h]
    BY <1>2, <1>3, <1>4, <2>2, <2>3 DEF Lies, LiesIn
  <2>5. QED
    BY <2>2, <2>3, <2>4 DEF Digit
<1>7. \A i \in Run(p) : /\ i \in 0 .. m - 1 /\ p + i < l
                       /\ \A j \in 0 .. i - 1 : Digit(p, j) >= More
  BY <1>4, <1>5 DEF Run
<1>8. PICK L : L = {i \in Run(p) : Digit(p, i) < More}
  OBVIOUS
<1>9. More \in Nat
  BY AvroKinds
<1>10. \A i \in 1 .. k : d[i] \in Nat
  BY <1>2
<1>11. CASE p + k <= l
  <2>1. PICK h \in Nat : h = k - 1 /\ h + 1 = k
    <3>1. k - 1 \in Nat /\ (k - 1) + 1 = k
      BY <1>5
    <3>2. QED
      BY <3>1
  <2>2. \A i \in 0 .. k - 1 : p + i < l /\ Digit(p, i) = d[i + 1]
    <3>1. \A i \in 0 .. k - 1 : p + i < l
      BY <1>4, <1>11
    <3>2. QED
      BY <1>6, <3>1
  <2>3. Digit(p, h) = d[k] /\ Digit(p, h) < More /\ d[k] \in Nat /\ d[k] < More
    <3>1. h \in 0 .. k - 1
      BY <2>1
    <3>2. k \in 1 .. k
      BY <1>5
    <3>3. QED
      BY <1>2, <1>10, <2>1, <2>2, <3>1, <3>2
  <2>4. \A j \in 0 .. h - 1 : Digit(p, j) >= More
    <3>1. \A j \in 0 .. h - 1 : j \in 0 .. k - 2 /\ j \in 0 .. k - 1
      BY <2>1
    <3>2. QED
      BY <1>2, <2>2, <3>1
  <2>5. h \in L
    <3>1. h \in 0 .. MaxDigits - 1 /\ p + h < Len(bytes)
      BY <1>4, <1>5, <1>11, <2>1
    <3>2. h \in Run(p)
      BY <2>4, <3>1 DEF Run
    <3>3. QED
      BY <1>8, <2>3, <3>2
  <2>6. ASSUME NEW i \in L PROVE i = h
    <3>1. i \in Run(p) /\ Digit(p, i) < More
      BY <1>8
    <3>2. i \in 0 .. m - 1 /\ \A j \in 0 .. i - 1 : Digit(p, j) >= More
      BY <1>7, <3>1
    <3>3. ~(i < h)
      <4>1. SUFFICES ASSUME i < h PROVE FALSE
        OBVIOUS
      <4>2. i \in 0 .. h - 1 /\ i \in 0 .. k - 1 /\ i \in 0 .. k - 2 /\ i + 1 \in 1 .. k
        BY <2>1, <3>2, <4>1
      <4>3. PICK x : x = d[i + 1]
        OBVIOUS
      <4>4. Digit(p, i) = x /\ x >= More /\ x \in Nat
        BY <1>2, <1>10, <2>2, <4>2, <4>3
      <4>5. QED
        BY <1>9, <3>1, <4>4
    <3>4. ~(i > h)
      <4>1. SUFFICES ASSUME i > h PROVE FALSE
        OBVIOUS
      <4>2. h \in 0 .. i - 1
        BY <2>1, <3>2, <4>1
      <4>3. QED
        BY <1>9, <2>3, <3>2, <4>2
    <3>5. QED
      BY <2>1, <3>2, <3>3, <3>4
  <2>7. L = {h}
    BY <2>5, <2>6
  <2>8. ~\E i \in L : i = MaxDigits - 1 /\ Digit(p, i) > 1
    <3>1. SUFFICES ASSUME h = MaxDigits - 1, d[k] > 1 PROVE FALSE
      BY <2>3, <2>6
    <3>2. k = MaxDigits
      BY <1>5, <2>1, <3>1
    <3>3. QED
      BY <1>2, <2>3, <3>1, <3>2
  <2>9. Raw(p, h) = n
    <3>1. PICK f : f = [i \in 0 .. h |-> (Digit(p, i) % More) * Weight[i]]
      OBVIOUS
    <3>2. \A i \in 0 .. k - 1 : f[i] = Low(n, i) * Weight[i]
      <4>1. SUFFICES ASSUME NEW i \in 0 .. k - 1 PROVE f[i] = Low(n, i) * Weight[i]
        OBVIOUS
      <4>2. i \in 0 .. h
        BY <2>1
      <4>3. f[i] = (Digit(p, i) % More) * Weight[i]
        BY <3>1, <4>2
      <4>4. Digit(p, i) % More = Low(n, i)
        BY <1>2, <2>2
      <4>5. QED
        BY <4>3, <4>4
    <3>3. k \in 0 .. MaxDigits /\ k \in 0 .. k
      BY <1>5
    <3>4. PICK s \in Nat, q \in Nat, w \in Nat :
            /\ s = SumFunctionOnSet(f, 0 .. k - 1) /\ q = n \div Weight[k] /\ w = Weight[k]
            /\ s + q * w = n
      <4>1. DigitTerms(f, n, k)
        BY <3>2 DEF DigitTerms
      <4>2. QED
        BY <1>2, <3>3, <4>1, DigitsAdd
    <3>5. w \in Nat \ {0} /\ n < w
      BY <1>2, <3>3, <3>4, WeightTyped
    <3>6. q = 0
      <4>1. n = 0 * w + n
        BY <1>2, <3>5
      <4>2. n = q * w + (n % w) /\ (n % w) \in Nat /\ (n % w) < w
        BY <1>2, <3>4, <3>5, DivMod
      <4>3. QED
        BY <1>2, <3>5, <4>1, <4>2, DivModUnique
    <3>7. s = n
      BY <1>2, <3>4, <3>6
    <3>8. Raw(p, h) = SumFunctionOnSet(f, 0 .. h)
      BY <3>1 DEF Raw
    <3>9. QED
      BY <2>1, <3>4, <3>7, <3>8
  <2>10. ReadLong(p) = Integer(v, p + k)
    <3>1. ~(p >= Len(bytes))
      BY <1>4, <1>5, <1>11
    <3>2. (CHOOSE i \in L : TRUE) = h
      BY <2>7
    <3>3. p + h + 1 = p + k
      BY <2>1
    <3>4. L # {}
      BY <2>7
    <3>5. ReadLong(p) = Integer(Unfold(Raw(p, h)), p + h + 1)
      BY <1>8, <2>8, <3>1, <3>2, <3>4 DEF ReadLong
    <3>6. QED
      BY <1>1, <2>9, <3>3, <3>5
  <2>11. PICK e : e = Len(Long(v))
    OBVIOUS
  <2>12. e = k /\ ~(p + k > l)
    BY <1>2, <1>3, <1>4, <1>11, <2>11
  <2>13. QED
    BY <1>4, <2>10, <2>11, <2>12
<1>12. CASE ~(p + k <= l)
  <2>1. p + k > l
    BY <1>12
  <2>2. ASSUME NEW i \in Run(p) PROVE ~(Digit(p, i) < More)
    <3>1. i \in 0 .. m - 1 /\ p + i < l
      BY <1>7
    <3>2. i \in 0 .. k - 2 /\ i \in 0 .. k - 1 /\ i + 1 \in 1 .. k
      BY <1>5, <2>1, <3>1
    <3>3. PICK x : x = d[i + 1]
      OBVIOUS
    <3>4. Digit(p, i) = x /\ x >= More /\ x \in Nat
      BY <1>2, <1>6, <1>10, <3>1, <3>2, <3>3
    <3>5. QED
      BY <1>9, <3>4
  <2>3. L = {}
    BY <1>8, <2>2
  <2>4. ReadLong(p) = NoInteger(p >= Len(bytes))
    <3>1. CASE p >= Len(bytes)
      BY <3>1 DEF ReadLong
    <3>2. CASE ~(p >= Len(bytes))
      <4>1. ReadLong(p) = NoInteger(FALSE)
        BY <1>8, <2>3, <3>2 DEF ReadLong
      <4>2. (p >= Len(bytes)) = FALSE
        BY <3>2
      <4>3. QED
        BY <4>1, <4>2
    <3>3. QED
      BY <3>1, <3>2
  <2>5. PICK e : e = Len(Long(v))
    OBVIOUS
  <2>6. e = k
    BY <1>2, <1>3, <2>5
  <2>7. QED
    BY <1>4, <1>12, <2>4, <2>5, <2>6
<1>13. QED
  BY <1>11, <1>12

-----------------------------------------------------------------------------
(* Avro: where the parts of a file lie. *)

\* One sequence after another.
LEMMA JoinTyped ==
  ASSUME NEW a \in Seq(Nat), NEW b \in Seq(Nat)
  PROVE  a \o b \in Seq(Nat) /\ Len(a \o b) = Len(a) + Len(b) /\ Len(a) \in Nat /\ Len(b) \in Nat
OBVIOUS

\* What is skipped.
LEMMA FillTyped ==
  ASSUME NEW n \in Nat
  PROVE  Fill(n) \in Seq(Nat) /\ Len(Fill(n)) = n
<1>1. PICK f : f = [i \in 1 .. n |-> 5]
  OBVIOUS
<1>2. f \in Seq(Nat) /\ Len(f) = n
  BY <1>1
<1>3. Fill(n) = f
  BY <1>1 DEF Fill, Filler
<1>4. QED
  BY <1>2, <1>3

\* A data block, whole or damaged.
BlockBytes(r, s, f, k) == Long(r) \o Long(s) \o Fill(f) \o <<k>>

\* The length of a block.
LEMMA BlockTyped ==
  ASSUME NEW r \in MinLong .. MaxLong, NEW s \in MinLong .. MaxLong, NEW f \in Nat, NEW k \in Nat
  PROVE  /\ BlockBytes(r, s, f, k) \in Seq(Nat)
         /\ Len(BlockBytes(r, s, f, k)) = Len(Long(r)) + Len(Long(s)) + f + 1
<1>1. PICK a, b, c, e : a = Long(r) /\ b = Long(s) /\ c = Fill(f) /\ e = <<k>>
  OBVIOUS
<1>2. a \in Seq(Nat) /\ b \in Seq(Nat) /\ c \in Seq(Nat) /\ e \in Seq(Nat) /\ Len(c) = f /\ Len(e) = 1
  BY <1>1, LongTyped, FillTyped
<1>3. PICK l \in Nat, m \in Nat : l = Len(a) /\ m = Len(b)
  BY <1>2
<1>4. PICK ab, abc : ab = a \o b /\ abc = ab \o c
  OBVIOUS
<1>5. ab \in Seq(Nat) /\ Len(ab) = l + m
  BY <1>2, <1>3, <1>4, JoinTyped
<1>6. abc \in Seq(Nat) /\ Len(abc) = l + m + f
  BY <1>2, <1>4, <1>5, JoinTyped
<1>7. abc \o e \in Seq(Nat) /\ Len(abc \o e) = l + m + f + 1
  BY <1>2, <1>6, JoinTyped
<1>8. BlockBytes(r, s, f, k) = abc \o e
  BY <1>1, <1>4 DEF BlockBytes
<1>9. QED
  BY <1>1, <1>3, <1>7, <1>8

\* Where the parts of a block lie.
LEMMA BlockAt ==
  ASSUME NEW r \in MinLong .. MaxLong, NEW s \in MinLong .. MaxLong, NEW f \in Nat, NEW k \in Nat
  PROVE  /\ BlockBytes(r, s, f, k) \in Seq(Nat)
         /\ Len(BlockBytes(r, s, f, k)) = Len(Long(r)) + Len(Long(s)) + f + 1
         /\ \A t \in Seq(Nat), p \in Nat : LiesIn(BlockBytes(r, s, f, k), p, t) =>
              /\ LiesIn(Long(r), p, t)
              /\ LiesIn(Long(s), p + Len(Long(r)), t)
              /\ LiesIn(<<k>>, p + Len(Long(r)) + Len(Long(s)) + f, t)
<1>1. PICK a, b, c, e : a = Long(r) /\ b = Long(s) /\ c = Fill(f) /\ e = <<k>>
  OBVIOUS
<1>2. a \in Seq(Nat) /\ b \in Seq(Nat) /\ c \in Seq(Nat) /\ e \in Seq(Nat) /\ Len(c) = f /\ Len(e) = 1
  BY <1>1, LongTyped, FillTyped
<1>3. PICK l \in Nat, m \in Nat : l = Len(a) /\ m = Len(b)
  BY <1>2
<1>4. PICK ab, abc : ab = a \o b /\ abc = ab \o c
  OBVIOUS
<1>5. ab \in Seq(Nat) /\ Len(ab) = l + m
  BY <1>2, <1>3, <1>4, JoinTyped
<1>6. abc \in Seq(Nat) /\ Len(abc) = l + m + f
  BY <1>2, <1>4, <1>5, JoinTyped
<1>7. abc \o e \in Seq(Nat) /\ Len(abc \o e) = l + m + f + 1
  BY <1>2, <1>6, JoinTyped
<1>8. BlockBytes(r, s, f, k) = abc \o e
  BY <1>1, <1>4 DEF BlockBytes
<1>9. ASSUME NEW t \in Seq(Nat), NEW p \in Nat, LiesIn(BlockBytes(r, s, f, k), p, t)
      PROVE  LiesIn(a, p, t) /\ LiesIn(b, p + l, t) /\ LiesIn(e, p + l + m + f, t)
  <2>1. LiesIn(abc, p, t) /\ LiesIn(e, p + Len(abc), t)
    <3>1. LiesIn(abc \o e, p, t)
      BY <1>8, <1>9
    <3>2. abc \in Seq(Nat) /\ e \in Seq(Nat)
      BY <1>2, <1>6
    <3>3. QED
      BY <3>1, <3>2, AtJoin
  <2>2. LiesIn(ab, p, t)
    <3>1. LiesIn(ab \o c, p, t)
      BY <1>4, <2>1
    <3>2. ab \in Seq(Nat) /\ c \in Seq(Nat)
      BY <1>2, <1>5
    <3>3. QED
      BY <3>1, <3>2, AtJoin
  <2>3. LiesIn(a, p, t) /\ LiesIn(b, p + Len(a), t)
    BY <1>2, <1>4, <2>2, AtJoin
  <2>4. p + Len(abc) = p + l + m + f
    BY <1>6
  <2>5. QED
    BY <1>3, <2>1, <2>3, <2>4
<1>10. QED
  BY <1>1, <1>3, <1>7, <1>8, <1>9

\* A key or value is shorter than the longest integer.
Skippable == (0 .. MaxLong) \X (0 .. MaxLong)

\* Where the parts of an entry lie.
LEMMA EntryAt ==
  ASSUME NEW e \in Skippable
  PROVE  /\ MetadataEntry(e) \in Seq(Nat)
         /\ Len(MetadataEntry(e)) = Len(Long(e[1])) + e[1] + Len(Long(e[2])) + e[2]
         /\ \A t \in Seq(Nat), p \in Nat : LiesIn(MetadataEntry(e), p, t) =>
              /\ LiesIn(Long(e[1]), p, t)
              /\ LiesIn(Long(e[2]), p + Len(Long(e[1])) + e[1], t)
<1>1. PICK x \in Nat, y \in Nat : x = e[1] /\ y = e[2] /\ x \in 0 .. MaxLong /\ y \in 0 .. MaxLong
  BY LongBounds DEF Skippable
<1>2. x \in MinLong .. MaxLong /\ y \in MinLong .. MaxLong
  BY <1>1, LongBounds
<1>3. PICK a, b, c, d : a = Long(x) /\ b = Fill(x) /\ c = Long(y) /\ d = Fill(y)
  OBVIOUS
<1>4. a \in Seq(Nat) /\ b \in Seq(Nat) /\ c \in Seq(Nat) /\ d \in Seq(Nat) /\ Len(b) = x /\ Len(d) = y
  BY <1>2, <1>3, LongTyped, FillTyped
<1>5. PICK l \in Nat, m \in Nat : l = Len(a) /\ m = Len(c)
  BY <1>4
<1>6. PICK ab, abc : ab = a \o b /\ abc = ab \o c
  OBVIOUS
<1>7. ab \in Seq(Nat) /\ Len(ab) = l + x
  BY <1>4, <1>5, <1>6, JoinTyped
<1>8. abc \in Seq(Nat) /\ Len(abc) = l + x + m
  BY <1>4, <1>5, <1>6, <1>7, JoinTyped
<1>9. abc \o d \in Seq(Nat) /\ Len(abc \o d) = l + x + m + y
  BY <1>4, <1>8, JoinTyped
<1>10. MetadataEntry(e) = abc \o d
  BY <1>1, <1>3, <1>6 DEF MetadataEntry
<1>11. ASSUME NEW t \in Seq(Nat), NEW p \in Nat, LiesIn(MetadataEntry(e), p, t)
       PROVE  LiesIn(a, p, t) /\ LiesIn(c, p + l + x, t)
  <2>1. LiesIn(abc, p, t)
    BY <1>4, <1>8, <1>10, <1>11, AtJoin
  <2>2. LiesIn(ab, p, t) /\ LiesIn(c, p + Len(ab), t)
    BY <1>4, <1>6, <1>7, <2>1, AtJoin
  <2>3. LiesIn(a, p, t)
    BY <1>4, <1>6, <2>2, AtJoin
  <2>4. p + Len(ab) = p + l + x
    BY <1>7
  <2>5. QED
    BY <2>2, <2>3, <2>4
<1>12. QED
  BY <1>1, <1>3, <1>5, <1>9, <1>10, <1>11

EntrySeq(b) == [i \in DOMAIN b.entries |-> MetadataEntry(b.entries[i])]

\* A metadata block that can be written.
GoodMeta(b) ==
  /\ b.sized \in BOOLEAN
  /\ b.entries \in Seq(Skippable)
  /\ Len(b.entries) \in 1 .. MaxLong
  /\ Len(Entries(b)) <= MaxLong

\* The entries are sequences of bytes.
LEMMA EntriesTyped ==
  ASSUME NEW b, GoodMeta(b)
  PROVE  /\ EntrySeq(b) \in Seq(Seq(Nat)) /\ Len(EntrySeq(b)) = Len(b.entries)
         /\ Len(b.entries) \in Nat
         /\ \A i \in 1 .. Len(b.entries) : /\ b.entries[i] \in Skippable
                                          /\ EntrySeq(b)[i] = MetadataEntry(b.entries[i])
         /\ Entries(b) = JoinedUpTo(EntrySeq(b), Len(b.entries))
         /\ Entries(b) \in Seq(Nat)
<1>0. PICK s : s = b.entries
  OBVIOUS
<1>1. PICK n \in Nat : s = b.entries /\ n = Len(s) /\ s \in Seq(Skippable)
  BY <1>0 DEF GoodMeta
<1>2. DOMAIN s = 1 .. n /\ \A i \in 1 .. n : s[i] \in Skippable
  BY <1>1
<1>3. PICK q : q = EntrySeq(b)
  OBVIOUS
<1>4. q = [i \in 1 .. n |-> MetadataEntry(s[i])]
  BY <1>1, <1>2, <1>3 DEF EntrySeq
<1>5. \A i \in 1 .. n : q[i] = MetadataEntry(s[i]) /\ q[i] \in Seq(Nat)
  BY <1>2, <1>4, EntryAt
<1>6. q \in Seq(Seq(Nat)) /\ Len(q) = n
  <2>1. q = [i \in 1 .. n |-> q[i]]
    BY <1>4
  <2>2. PICK S : S = Seq(Nat)
    OBVIOUS
  <2>3. \A i \in 1 .. n : q[i] \in S
    BY <1>5, <2>2
  <2>4. q \in Seq(S) /\ Len(q) = n
    BY <2>1, <2>3
  <2>5. QED
    BY <2>2, <2>4
<1>7. Entries(b) = FlattenSeq(q)
  BY <1>3 DEF Entries, EntrySeq
<1>8. JoinedUpTo(q, n) = FlattenSeq(q) /\ JoinedUpTo(q, n) \in Seq(Nat)
  <2>1. n \in 0 .. Len(q)
    BY <1>6
  <2>2. JoinedUpTo(q, n) \in Seq(Nat)
    BY <1>6, <2>1, FlatTyped
  <2>3. JoinedUpTo(q, Len(q)) = FlattenSeq(q)
    BY <1>6, FlatAll
  <2>4. QED
    BY <1>6, <2>2, <2>3
<1>9. QED
  BY <1>1, <1>2, <1>3, <1>5, <1>6, <1>7, <1>8

\* The bytes of a metadata block before its entries.
CountOf(b) == IF b.sized THEN -Len(b.entries) ELSE Len(b.entries)
CountLen(b) == Len(Long(CountOf(b))) + (IF b.sized THEN Len(Long(Len(Entries(b)))) ELSE 0)

\* Where the parts of a metadata block lie.
LEMMA MetaAt ==
  ASSUME NEW b, GoodMeta(b)
  PROVE  /\ CountOf(b) \in MinLong .. MaxLong /\ CountLen(b) \in Nat
         /\ Len(Entries(b)) \in MinLong .. MaxLong
         /\ Len(Long(CountOf(b))) \in Nat /\ Len(Long(CountOf(b))) >= 1
         /\ MetadataBlock(b) \in Seq(Nat)
         /\ Len(MetadataBlock(b)) = CountLen(b) + Len(Entries(b))
         /\ \A t \in Seq(Nat), p \in Nat : LiesIn(MetadataBlock(b), p, t) =>
              /\ LiesIn(Long(CountOf(b)), p, t)
              /\ b.sized => LiesIn(Long(Len(Entries(b))), p + Len(Long(CountOf(b))), t)
              /\ LiesIn(Entries(b), p + CountLen(b), t)
<1>1. PICK n \in Nat : n = Len(b.entries) /\ 1 <= n /\ n <= MaxLong
  BY EntriesTyped DEF GoodMeta
<1>2. PICK E : E = Entries(b) /\ E \in Seq(Nat)
  BY EntriesTyped
<1>3. PICK w \in Nat : w = Len(E) /\ w <= MaxLong
  BY <1>2 DEF GoodMeta
<1>4. PICK m \in Nat : m = MaxLong /\ MinLong = -m - 1
  BY LongBounds
<1>5. CountOf(b) \in MinLong .. MaxLong /\ w \in MinLong .. MaxLong
  BY <1>1, <1>3, <1>4 DEF CountOf, GoodMeta
<1>6. PICK a, c : a = Long(CountOf(b)) /\ c = Long(w)
  OBVIOUS
<1>7. a \in Seq(Nat) /\ c \in Seq(Nat) /\ Len(a) >= 1
  BY <1>5, <1>6, LongTyped
<1>8. PICK i \in Nat, j \in Nat : i = Len(a) /\ j = Len(c)
  BY <1>7
<1>9. CASE b.sized
  <2>1. MetadataBlock(b) = (a \o c) \o E
    <3>1. CountOf(b) = -Len(b.entries)
      BY <1>9 DEF CountOf
    <3>2. QED
      BY <1>2, <1>3, <1>6, <1>9, <3>1 DEF MetadataBlock
  <2>2. CountLen(b) = i + j
    BY <1>2, <1>3, <1>6, <1>8, <1>9 DEF CountLen
  <2>3. PICK ac : ac = a \o c
    OBVIOUS
  <2>4. ac \in Seq(Nat) /\ Len(ac) = i + j
    BY <1>7, <1>8, <2>3, JoinTyped
  <2>5. ac \o E \in Seq(Nat) /\ Len(ac \o E) = i + j + w
    BY <1>2, <1>3, <2>4, JoinTyped
  <2>6. ASSUME NEW t \in Seq(Nat), NEW p \in Nat, LiesIn(MetadataBlock(b), p, t)
        PROVE  LiesIn(a, p, t) /\ LiesIn(c, p + i, t) /\ LiesIn(E, p + (i + j), t)
    <3>1. LiesIn(ac, p, t) /\ LiesIn(E, p + Len(ac), t)
      <4>1. LiesIn(ac \o E, p, t)
        BY <2>1, <2>3, <2>6
      <4>2. QED
        BY <1>2, <2>4, <4>1, AtJoin
    <3>2. LiesIn(a, p, t) /\ LiesIn(c, p + Len(a), t)
      BY <1>7, <2>3, <3>1, AtJoin
    <3>3. QED
      BY <1>8, <2>4, <3>1, <3>2
  <2>7. QED
    BY <1>2, <1>3, <1>5, <1>6, <1>7, <1>8, <1>9, <2>1, <2>2, <2>3, <2>5, <2>6
<1>10. CASE ~b.sized
  <2>1. MetadataBlock(b) = a \o E
    <3>1. CountOf(b) = Len(b.entries)
      BY <1>10 DEF CountOf
    <3>2. QED
      BY <1>2, <1>6, <1>10, <3>1 DEF MetadataBlock
  <2>2. CountLen(b) = i
    BY <1>6, <1>8, <1>10 DEF CountLen
  <2>3. a \o E \in Seq(Nat) /\ Len(a \o E) = i + w
    BY <1>2, <1>3, <1>7, <1>8
  <2>4. ASSUME NEW t \in Seq(Nat), NEW p \in Nat, LiesIn(MetadataBlock(b), p, t)
        PROVE  LiesIn(a, p, t) /\ LiesIn(E, p + i, t)
    <3>1. LiesIn(a, p, t) /\ LiesIn(E, p + Len(a), t)
      BY <1>2, <1>7, <2>1, <2>4, AtJoin
    <3>2. QED
      BY <1>8, <3>1
  <2>5. QED
    BY <1>2, <1>3, <1>5, <1>6, <1>7, <1>8, <1>10, <2>1, <2>2, <2>3, <2>4
<1>11. QED
  BY <1>9, <1>10 DEF GoodMeta

MetaSeq(m)  == [i \in DOMAIN m |-> MetadataBlock(m[i])]
BlockSeq(d) == [i \in DOMAIN d |-> DataBlock(d[i])]

\* Where metadata blocks, the header and data blocks end.
HeadEnd(m, k)    == 1 + Len(JoinedUpTo(MetaSeq(m), k))
HeadLen(m)       == HeadEnd(m, Len(m)) + Len(Long(0)) + 1
DataEnd(m, d, n) == HeadLen(m) + Len(JoinedUpTo(BlockSeq(d), n))

\* Headers and contents that can be written.
GoodMetas(m) == /\ m = [k \in 1 .. Len(m) |-> m[k]] /\ Len(m) \in Nat
                /\ \A k \in 1 .. Len(m) : GoodMeta(m[k])
GoodData(d)  == /\ d = [n \in 1 .. Len(d) |-> d[n]] /\ Len(d) \in Nat
                /\ \A n \in 1 .. Len(d) : d[n].rows \in 1 .. MaxLong /\ d[n].size \in 0 .. MaxLong

\* The constants are such.
LEMMA AllGood ==
  /\ \A m \in Metadata : GoodMetas(m)
  /\ \A d \in Data : GoodData(d)
<1>1. ASSUME NEW m \in Metadata PROVE GoodMetas(m)
  <2>1. PICK S : S = [sized: BOOLEAN, entries: Seq(Skippable)]
    OBVIOUS
  <2>2. m \in Seq(S)
    BY <2>1, MetadataAssumption DEF Skippable
  <2>3. PICK n \in Nat : n = Len(m)
    BY <2>2
  <2>4. m = [k \in 1 .. n |-> m[k]] /\ \A k \in 1 .. n : m[k] \in S
    BY <2>2, <2>3
  <2>5. ASSUME NEW k \in 1 .. n PROVE GoodMeta(m[k])
    <3>1. PICK b : b = m[k]
      OBVIOUS
    <3>2. b.sized \in BOOLEAN /\ b.entries \in Seq(Skippable)
      BY <2>1, <2>4, <3>1
    <3>3. k \in DOMAIN m
      BY <2>4
    <3>4. Len(b.entries) \in 1 .. MaxLong /\ Len(Entries(b)) <= MaxLong
      BY <3>1, <3>3, MetadataAssumption
    <3>5. QED
      BY <3>1, <3>2, <3>4 DEF GoodMeta
  <2>6. QED
    BY <2>3, <2>4, <2>5 DEF GoodMetas
<1>2. ASSUME NEW d \in Data PROVE GoodData(d)
  <2>1. PICK S : S = [rows: 1 .. MaxLong, size: 0 .. MaxLong]
    OBVIOUS
  <2>2. d \in Seq(S)
    BY <2>1, DataAssumption
  <2>3. PICK n \in Nat : n = Len(d)
    BY <2>2
  <2>4. d = [k \in 1 .. n |-> d[k]] /\ \A k \in 1 .. n : d[k] \in S
    BY <2>2, <2>3
  <2>5. \A k \in 1 .. n : d[k].rows \in 1 .. MaxLong /\ d[k].size \in 0 .. MaxLong
    BY <2>1, <2>4
  <2>6. QED
    BY <2>3, <2>4, <2>5 DEF GoodData
<1>3. QED
  BY <1>1, <1>2

\* A function whose values are sequences of bytes.
LEMMA SeqOfSeqs ==
  ASSUME NEW q, NEW n \in Nat, q = [i \in 1 .. n |-> q[i]], \A i \in 1 .. n : q[i] \in Seq(Nat)
  PROVE  q \in Seq(Seq(Nat)) /\ Len(q) = n
<1>1. PICK S : S = Seq(Nat)
  OBVIOUS
<1>2. \A i \in 1 .. n : q[i] \in S
  BY <1>1
<1>3. q \in Seq(S) /\ Len(q) = n
  BY <1>2
<1>4. QED
  BY <1>1, <1>3

\* The metadata blocks are sequences of bytes.
LEMMA MetaSeqTyped ==
  ASSUME NEW m, GoodMetas(m)
  PROVE  /\ MetaSeq(m) \in Seq(Seq(Nat)) /\ Len(MetaSeq(m)) = Len(m) /\ Len(m) \in Nat
         /\ \A k \in 1 .. Len(m) : MetaSeq(m)[k] = MetadataBlock(m[k])
<1>1. PICK n \in Nat : n = Len(m) /\ m = [k \in 1 .. n |-> m[k]] /\ \A k \in 1 .. n : GoodMeta(m[k])
  BY DEF GoodMetas
<1>2. PICK q : q = MetaSeq(m)
  OBVIOUS
<1>3. DOMAIN m = 1 .. n
  BY <1>1
<1>4. q = [i \in 1 .. n |-> MetadataBlock(m[i])]
  BY <1>2, <1>3 DEF MetaSeq
<1>5. \A i \in 1 .. n : q[i] = MetadataBlock(m[i]) /\ q[i] \in Seq(Nat)
  BY <1>1, <1>4, MetaAt
<1>6. q = [i \in 1 .. n |-> q[i]]
  BY <1>4
<1>7. q \in Seq(Seq(Nat)) /\ Len(q) = n
  BY <1>5, <1>6, SeqOfSeqs
<1>8. QED
  BY <1>1, <1>2, <1>5, <1>7

\* A data block is a block.
LEMMA DataBlockIs ==
  ASSUME NEW b, b.rows \in 1 .. MaxLong, b.size \in 0 .. MaxLong
  PROVE  /\ b.rows \in MinLong .. MaxLong /\ b.size \in MinLong .. MaxLong /\ b.size \in Nat
         /\ DataBlock(b) = BlockBytes(b.rows, b.size, b.size, Marker)
         /\ DataBlock(b) \in Seq(Nat)
<1>1. b.rows \in MinLong .. MaxLong /\ b.size \in MinLong .. MaxLong /\ b.size \in Nat
  BY LongBounds
<1>2. DataBlock(b) = BlockBytes(b.rows, b.size, b.size, Marker)
  BY DEF DataBlock, BlockBytes
<1>3. Marker \in Nat
  BY DEF Marker
<1>4. QED
  BY <1>1, <1>2, <1>3, BlockAt

\* The data blocks are sequences of bytes.
LEMMA BlockSeqTyped ==
  ASSUME NEW d, GoodData(d)
  PROVE  /\ BlockSeq(d) \in Seq(Seq(Nat)) /\ Len(BlockSeq(d)) = Len(d) /\ Len(d) \in Nat
         /\ \A k \in 1 .. Len(d) : BlockSeq(d)[k] = DataBlock(d[k])
<1>1. PICK n \in Nat : /\ n = Len(d) /\ d = [k \in 1 .. n |-> d[k]]
                       /\ \A k \in 1 .. n : d[k].rows \in 1 .. MaxLong /\ d[k].size \in 0 .. MaxLong
  BY DEF GoodData
<1>2. PICK q : q = BlockSeq(d)
  OBVIOUS
<1>3. DOMAIN d = 1 .. n
  BY <1>1
<1>4. q = [i \in 1 .. n |-> DataBlock(d[i])]
  BY <1>2, <1>3 DEF BlockSeq
<1>5. \A i \in 1 .. n : q[i] = DataBlock(d[i]) /\ q[i] \in Seq(Nat)
  BY <1>1, <1>4, DataBlockIs
<1>6. q = [i \in 1 .. n |-> q[i]]
  BY <1>4
<1>7. q \in Seq(Seq(Nat)) /\ Len(q) = n
  BY <1>5, <1>6, SeqOfSeqs
<1>8. QED
  BY <1>1, <1>2, <1>5, <1>7

\* The positions are numbers, in order.
LEMMA HeadEnds ==
  ASSUME NEW m, GoodMetas(m)
  PROVE  /\ \A k \in 0 .. Len(m) : HeadEnd(m, k) \in Nat /\ HeadEnd(m, k) <= HeadEnd(m, Len(m))
         /\ HeadEnd(m, 0) = 1
         /\ \A k \in 0 .. Len(m) - 1 :
              HeadEnd(m, k + 1) = HeadEnd(m, k) + CountLen(m[k + 1]) + Len(Entries(m[k + 1]))
         /\ HeadLen(m) \in Nat /\ HeadEnd(m, Len(m)) < HeadLen(m)
<1>0. PICK q : q = MetaSeq(m)
  OBVIOUS
<1>1. PICK n \in Nat : /\ n = Len(m) /\ q = MetaSeq(m) /\ q \in Seq(Seq(Nat)) /\ Len(q) = n
                       /\ \A k \in 1 .. n : q[k] = MetadataBlock(m[k]) /\ GoodMeta(m[k])
  BY <1>0, MetaSeqTyped DEF GoodMetas
<1>2. \A k \in 0 .. n : JoinedUpTo(q, k) \in Seq(Nat) /\ Len(JoinedUpTo(q, k)) \in Nat
  <2>1. \A k \in 0 .. n : JoinedUpTo(q, k) \in Seq(Nat)
    BY <1>1, FlatTyped
  <2>2. QED
    BY <2>1
<1>3. \A k \in 0 .. n : HeadEnd(m, k) = 1 + Len(JoinedUpTo(q, k))
  BY <1>1 DEF HeadEnd
<1>4. ASSUME NEW k \in 0 .. n PROVE HeadEnd(m, k) \in Nat /\ HeadEnd(m, k) <= HeadEnd(m, n)
  <2>1. n \in 0 .. n /\ k \in Nat /\ k <= n
    OBVIOUS
  <2>2. Len(JoinedUpTo(q, k)) <= Len(JoinedUpTo(q, n))
    BY <1>1, <2>1, FlatLonger
  <2>3. QED
    BY <1>2, <1>3, <2>1, <2>2
<1>5. HeadEnd(m, 0) = 1
  <2>1. JoinedUpTo(q, 0) = <<>>
    BY <1>1, FlatNone
  <2>2. Len(<<>>) = 0 /\ 0 \in 0 .. n
    OBVIOUS
  <2>3. QED
    BY <1>3, <2>1, <2>2
<1>6. ASSUME NEW k \in 0 .. n - 1
      PROVE  HeadEnd(m, k + 1) = HeadEnd(m, k) + CountLen(m[k + 1]) + Len(Entries(m[k + 1]))
  <2>1. k \in Nat /\ k < n /\ k + 1 \in 1 .. n /\ k + 1 \in 0 .. n /\ k \in 0 .. n
    BY <1>1
  <2>2. JoinedUpTo(q, k + 1) = JoinedUpTo(q, k) \o q[k + 1]
    BY <1>1, <2>1, FlatMore
  <2>3. PICK b : b = m[k + 1] /\ GoodMeta(b) /\ q[k + 1] = MetadataBlock(b)
    BY <1>1, <2>1
  <2>4. /\ MetadataBlock(b) \in Seq(Nat)
        /\ Len(MetadataBlock(b)) = CountLen(b) + Len(Entries(b))
        /\ CountLen(b) \in Nat /\ Len(Entries(b)) \in Nat
    <3>1. Entries(b) \in Seq(Nat)
      BY <2>3, EntriesTyped
    <3>2. Len(Entries(b)) \in Nat
      BY <3>1
    <3>3. QED
      BY <2>3, <3>2, MetaAt
  <2>5. PICK x, y : x = JoinedUpTo(q, k) /\ y = MetadataBlock(b)
    OBVIOUS
  <2>6. Len(JoinedUpTo(q, k + 1)) = Len(x) + Len(y) /\ Len(x) \in Nat
    BY <1>2, <2>1, <2>2, <2>3, <2>4, <2>5, JoinTyped
  <2>7. QED
    BY <1>3, <2>1, <2>3, <2>4, <2>5, <2>6
<1>7. HeadLen(m) \in Nat /\ HeadEnd(m, n) < HeadLen(m)
  <2>1. 0 \in MinLong .. MaxLong
    BY LongBounds
  <2>2. Len(Long(0)) \in Nat /\ Len(Long(0)) >= 1
    BY <2>1, LongTyped
  <2>3. n \in 0 .. n
    OBVIOUS
  <2>4. QED
    BY <1>1, <1>4, <2>2, <2>3 DEF HeadLen
<1>8. QED
  BY <1>1, <1>4, <1>5, <1>6, <1>7

\* So are those in the data.
LEMMA DataEnds ==
  ASSUME NEW m, GoodMetas(m), NEW d, GoodData(d)
  PROVE  /\ \A n \in 0 .. Len(d) : DataEnd(m, d, n) \in Nat /\ HeadLen(m) <= DataEnd(m, d, n)
         /\ \A n \in 0 .. Len(d), k \in 0 .. Len(d) :
              n <= k => DataEnd(m, d, n) <= DataEnd(m, d, k)
         /\ DataEnd(m, d, 0) = HeadLen(m)
         /\ \A n \in 0 .. Len(d) - 1 :
              DataEnd(m, d, n + 1) = DataEnd(m, d, n) + Len(DataBlock(d[n + 1]))
         /\ \A n \in 1 .. Len(d) : Len(DataBlock(d[n])) \in Nat /\ Len(DataBlock(d[n])) >= 1
<1>0. PICK q : q = BlockSeq(d)
  OBVIOUS
<1>1. PICK l \in Nat : /\ l = Len(d) /\ q = BlockSeq(d) /\ q \in Seq(Seq(Nat)) /\ Len(q) = l
                       /\ \A k \in 1 .. l : q[k] = DataBlock(d[k])
  BY <1>0, BlockSeqTyped
<1>2. PICK h \in Nat : h = HeadLen(m)
  BY HeadEnds
<1>3. \A k \in 0 .. l : JoinedUpTo(q, k) \in Seq(Nat) /\ Len(JoinedUpTo(q, k)) \in Nat
  <2>1. \A k \in 0 .. l : JoinedUpTo(q, k) \in Seq(Nat)
    BY <1>1, FlatTyped
  <2>2. QED
    BY <2>1
<1>4. \A k \in 0 .. l : DataEnd(m, d, k) = h + Len(JoinedUpTo(q, k))
  BY <1>1, <1>2 DEF DataEnd
<1>5. \A n \in 0 .. l : DataEnd(m, d, n) \in Nat /\ h <= DataEnd(m, d, n)
  BY <1>3, <1>4
<1>6. ASSUME NEW n \in 0 .. l, NEW k \in 0 .. l, n <= k
      PROVE  DataEnd(m, d, n) <= DataEnd(m, d, k)
  <2>1. Len(JoinedUpTo(q, n)) <= Len(JoinedUpTo(q, k))
    BY <1>1, <1>6, FlatLonger
  <2>2. QED
    BY <1>3, <1>4, <2>1
<1>7. DataEnd(m, d, 0) = h
  <2>1. JoinedUpTo(q, 0) = <<>>
    BY <1>1, FlatNone
  <2>2. Len(<<>>) = 0 /\ 0 \in 0 .. l
    OBVIOUS
  <2>3. QED
    BY <1>4, <2>1, <2>2
<1>8. ASSUME NEW n \in 1 .. l
      PROVE  /\ DataBlock(d[n]) \in Seq(Nat)
             /\ Len(DataBlock(d[n])) \in Nat /\ Len(DataBlock(d[n])) >= 1
  <2>1. PICK b : b = d[n] /\ b.rows \in 1 .. MaxLong /\ b.size \in 0 .. MaxLong
    BY <1>1 DEF GoodData
  <2>2. /\ b.rows \in MinLong .. MaxLong /\ b.size \in MinLong .. MaxLong /\ b.size \in Nat
        /\ DataBlock(b) = BlockBytes(b.rows, b.size, b.size, Marker) /\ DataBlock(b) \in Seq(Nat)
    BY <2>1, DataBlockIs
  <2>3. Marker \in Nat
    BY DEF Marker
  <2>4. Len(BlockBytes(b.rows, b.size, b.size, Marker))
          = Len(Long(b.rows)) + Len(Long(b.size)) + b.size + 1
    <3>1. PICK r, s, e : r = b.rows /\ s = b.size /\ e = Marker
      OBVIOUS
    <3>2. r \in MinLong .. MaxLong /\ s \in MinLong .. MaxLong /\ s \in Nat /\ e \in Nat
      BY <2>2, <2>3, <3>1
    <3>3. Len(BlockBytes(r, s, s, e)) = Len(Long(r)) + Len(Long(s)) + s + 1
      BY <3>2, BlockTyped
    <3>4. QED
      BY <3>1, <3>3
  <2>5. Len(Long(b.rows)) \in Nat /\ Len(Long(b.size)) \in Nat
    BY <2>2, LongTyped
  <2>6. QED
    BY <2>1, <2>2, <2>4, <2>5
<1>9. ASSUME NEW n \in 0 .. l - 1
      PROVE  DataEnd(m, d, n + 1) = DataEnd(m, d, n) + Len(DataBlock(d[n + 1]))
  <2>1. n \in Nat /\ n < l /\ n + 1 \in 1 .. l /\ n + 1 \in 0 .. l /\ n \in 0 .. l
    BY <1>1
  <2>2. JoinedUpTo(q, n + 1) = JoinedUpTo(q, n) \o q[n + 1]
    BY <1>1, <2>1, FlatMore
  <2>3. PICK x, y : x = JoinedUpTo(q, n) /\ y = DataBlock(d[n + 1])
    OBVIOUS
  <2>4. Len(JoinedUpTo(q, n + 1)) = Len(x) + Len(y) /\ Len(x) \in Nat /\ Len(y) \in Nat
    <3>1. PICK j : j = n + 1
      OBVIOUS
    <3>2. y \in Seq(Nat) /\ JoinedUpTo(q, n + 1) = x \o y
      BY <1>1, <1>8, <2>1, <2>2, <2>3, <3>1
    <3>3. x \in Seq(Nat)
      BY <1>3, <2>1, <2>3
    <3>4. QED
      BY <3>2, <3>3, JoinTyped
  <2>5. DataEnd(m, d, n) = h + Len(x)
    BY <1>4, <2>1, <2>3
  <2>6. DataEnd(m, d, n + 1) = h + Len(JoinedUpTo(q, n + 1))
    BY <1>4, <2>1
  <2>7. PICK u \in Nat, v \in Nat : u = Len(x) /\ v = Len(y)
    BY <2>4
  <2>8. h + (u + v) = (h + u) + v
    OBVIOUS
  <2>9. QED
    BY <2>3, <2>4, <2>5, <2>6, <2>7, <2>8
<1>10. QED
  BY <1>1, <1>2, <1>5, <1>6, <1>7, <1>8, <1>9

\* A header and the blocks after it.
LEMMA WholeIs ==
  ASSUME NEW m, GoodMetas(m), NEW d, GoodData(d), NEW g \in 0 .. Len(d)
  PROVE  /\ Whole(m, SubSeq(d, 1, g)) = Header(m) \o JoinedUpTo(BlockSeq(d), g)
         /\ Whole(m, d) = Header(m) \o JoinedUpTo(BlockSeq(d), Len(d))
         /\ Header(m) \in Seq(Nat) /\ Len(Header(m)) = HeadLen(m)
         /\ JoinedUpTo(BlockSeq(d), g) \in Seq(Nat)
<1>0. PICK q : q = BlockSeq(d)
  OBVIOUS
<1>1. PICK l \in Nat : /\ l = Len(d) /\ q = BlockSeq(d) /\ q \in Seq(Seq(Nat)) /\ Len(q) = l
                       /\ \A k \in 1 .. l : q[k] = DataBlock(d[k])
  BY <1>0, BlockSeqTyped
<1>2. d = [n \in 1 .. l |-> d[n]]
  BY <1>1 DEF GoodData
<1>3. PICK S : S = {d[n] : n \in 1 .. l}
  OBVIOUS
<1>4. d \in Seq(S)
  BY <1>1, <1>2, <1>3
<1>5. Blocks(SubSeq(d, 1, g)) = JoinedUpTo(q, g)
  <2>1. PICK e : e = SubSeq(d, 1, g)
    OBVIOUS
  <2>2. e \in Seq(S) /\ Len(e) = g /\ \A i \in 1 .. g : e[i] = d[i]
    BY <1>4, <2>1, CutFacts
  <2>3. DOMAIN e = 1 .. g
    BY <2>2
  <2>4. g \in 0 .. Len(q) /\ g \in Nat
    BY <1>1
  <2>5. PICK T : T = Seq(Nat)
    OBVIOUS
  <2>6. /\ SubSeq(q, 1, g) \in Seq(T) /\ Len(SubSeq(q, 1, g)) = g
        /\ \A i \in 1 .. g : SubSeq(q, 1, g)[i] = q[i]
    BY <1>1, <2>4, <2>5, CutFacts
  <2>7. PICK c : c = SubSeq(q, 1, g)
    OBVIOUS
  <2>8. c = [i \in 1 .. g |-> c[i]]
    BY <2>4, <2>6, <2>7
  <2>9. \A i \in 1 .. g : c[i] = DataBlock(e[i])
    <3>1. SUFFICES ASSUME NEW i \in 1 .. g PROVE c[i] = DataBlock(e[i])
      OBVIOUS
    <3>2. i \in 1 .. l
      BY <1>1
    <3>3. q[i] = DataBlock(d[i]) /\ e[i] = d[i] /\ c[i] = q[i]
      BY <1>1, <2>2, <2>6, <2>7, <3>2
    <3>4. QED
      BY <3>3
  <2>10. [i \in DOMAIN e |-> DataBlock(e[i])] = c
    BY <2>3, <2>8, <2>9
  <2>11. QED
    BY <2>1, <2>7, <2>10 DEF Blocks, JoinedUpTo
<1>6. Blocks(d) = JoinedUpTo(q, l)
  <2>1. Blocks(d) = FlattenSeq(q)
    BY <1>1 DEF Blocks, BlockSeq
  <2>2. QED
    BY <1>1, <2>1, FlatAll
<1>7. JoinedUpTo(q, g) \in Seq(Nat)
  <2>1. g \in 0 .. Len(q)
    BY <1>1
  <2>2. QED
    BY <1>1, <2>1, FlatTyped
<1>8. Header(m) \in Seq(Nat) /\ Len(Header(m)) = HeadLen(m)
  <2>1. PICK f : f = MetaSeq(m)
    OBVIOUS
  <2>2. f \in Seq(Seq(Nat)) /\ Len(f) = Len(m) /\ Len(m) \in Nat
    BY <2>1, MetaSeqTyped
  <2>3. PICK a, b, c, e : a = <<Magic>> /\ b = JoinedUpTo(f, Len(m)) /\ c = Long(0) /\ e = <<Marker>>
    OBVIOUS
  <2>4. a \in Seq(Nat) /\ Len(a) = 1 /\ e \in Seq(Nat) /\ Len(e) = 1
    BY <2>3 DEF Magic, Marker
  <2>5. b \in Seq(Nat) /\ b = FlattenSeq(f)
    <3>1. Len(m) \in 0 .. Len(f)
      BY <2>2
    <3>2. b \in Seq(Nat)
      BY <2>2, <2>3, <3>1, FlatTyped
    <3>3. b = FlattenSeq(f)
      BY <2>2, <2>3, FlatAll
    <3>4. QED
      BY <3>2, <3>3
  <2>6. c \in Seq(Nat)
    <3>1. 0 \in MinLong .. MaxLong
      BY LongBounds
    <3>2. QED
      BY <2>3, <3>1, LongTyped
  <2>7. PICK ab, abc : ab = a \o b /\ abc = ab \o c
    OBVIOUS
  <2>8. ab \in Seq(Nat) /\ Len(ab) = 1 + Len(b) /\ Len(b) \in Nat
    BY <2>4, <2>5, <2>7, JoinTyped
  <2>9. abc \in Seq(Nat) /\ Len(abc) = 1 + Len(b) + Len(c) /\ Len(c) \in Nat
    BY <2>6, <2>7, <2>8, JoinTyped
  <2>10. abc \o e \in Seq(Nat) /\ Len(abc \o e) = 1 + Len(b) + Len(c) + 1
    <3>1. abc \o e \in Seq(Nat) /\ Len(abc \o e) = Len(abc) + Len(e)
      <4>1. abc \in Seq(Nat) /\ e \in Seq(Nat)
        BY <2>4, <2>9
      <4>2. QED
        BY <4>1, JoinTyped
    <3>2. Len(abc) = 1 + Len(b) + Len(c) /\ Len(e) = 1
      BY <2>4, <2>9
    <3>3. QED
      BY <3>1, <3>2
  <2>11. Header(m) = abc \o e
    BY <2>1, <2>3, <2>5, <2>7 DEF Header, MetaSeq
  <2>12. HeadLen(m) = 1 + Len(b) + Len(c) + 1
    BY <2>1, <2>3 DEF HeadLen, HeadEnd
  <2>13. QED
    BY <2>10, <2>11, <2>12
<1>9. QED
  BY <1>1, <1>5, <1>6, <1>7, <1>8 DEF Whole

\* Where the header lies, its parts do.
LEMMA HeaderAt ==
  ASSUME NEW m, GoodMetas(m), NEW t \in Seq(Nat), LiesIn(Header(m), 0, t)
  PROVE  /\ LiesIn(<<Magic>>, 0, t)
         /\ \A k \in 1 .. Len(m) : LiesIn(MetadataBlock(m[k]), HeadEnd(m, k - 1), t)
         /\ LiesIn(Long(0), HeadEnd(m, Len(m)), t)
         /\ LiesIn(<<Marker>>, HeadLen(m) - 1, t)
<1>1. PICK f : f = MetaSeq(m)
  OBVIOUS
<1>2. PICK n \in Nat : /\ f \in Seq(Seq(Nat)) /\ Len(f) = n /\ n = Len(m)
                       /\ \A k \in 1 .. n : f[k] = MetadataBlock(m[k])
  BY <1>1, MetaSeqTyped
<1>3. PICK a, b, c, e : a = <<Magic>> /\ b = JoinedUpTo(f, n) /\ c = Long(0) /\ e = <<Marker>>
  OBVIOUS
<1>4. a \in Seq(Nat) /\ Len(a) = 1 /\ e \in Seq(Nat) /\ Len(e) = 1
  BY <1>3 DEF Magic, Marker
<1>5. b \in Seq(Nat) /\ b = FlattenSeq(f)
  <2>1. n \in 0 .. Len(f)
    BY <1>2
  <2>2. b \in Seq(Nat)
    BY <1>2, <1>3, <2>1, FlatTyped
  <2>3. b = FlattenSeq(f)
    BY <1>2, <1>3, FlatAll
  <2>4. QED
    BY <2>2, <2>3
<1>6. c \in Seq(Nat)
  <2>1. 0 \in MinLong .. MaxLong
    BY LongBounds
  <2>2. QED
    BY <1>3, <2>1, LongTyped
<1>7. PICK ab, abc : ab = a \o b /\ abc = ab \o c
  OBVIOUS
<1>8. ab \in Seq(Nat) /\ Len(ab) = 1 + Len(b) /\ Len(b) \in Nat
  <2>1. a \o b \in Seq(Nat) /\ Len(a \o b) = Len(a) + Len(b) /\ Len(b) \in Nat
    BY <1>4, <1>5, JoinTyped
  <2>2. QED
    BY <1>4, <1>7, <2>1
<1>9. abc \in Seq(Nat) /\ Len(abc) = 1 + Len(b) + Len(c) /\ Len(c) \in Nat
  <2>1. ab \o c \in Seq(Nat) /\ Len(ab \o c) = Len(ab) + Len(c) /\ Len(c) \in Nat
    BY <1>6, <1>8, JoinTyped
  <2>2. QED
    BY <1>7, <1>8, <2>1
<1>10. Header(m) = abc \o e
  BY <1>1, <1>3, <1>5, <1>7 DEF Header, MetaSeq
<1>11. LiesIn(abc, 0, t) /\ LiesIn(e, 0 + Len(abc), t)
  BY <1>4, <1>9, <1>10, AtJoin
<1>12. LiesIn(ab, 0, t) /\ LiesIn(c, 0 + Len(ab), t)
  BY <1>6, <1>7, <1>8, <1>11, AtJoin
<1>13. LiesIn(a, 0, t) /\ LiesIn(b, 0 + Len(a), t)
  BY <1>4, <1>5, <1>7, <1>12, AtJoin
<1>14. HeadEnd(m, n) = 1 + Len(b)
  BY <1>1, <1>3 DEF HeadEnd
<1>15. HeadLen(m) - 1 = 1 + Len(b) + Len(c)
  BY <1>2, <1>3, <1>8, <1>9, <1>14 DEF HeadLen
<1>16. LiesIn(c, HeadEnd(m, n), t) /\ LiesIn(e, HeadLen(m) - 1, t)
  <2>1. 0 + Len(abc) = HeadLen(m) - 1 /\ 0 + Len(ab) = HeadEnd(m, n)
    BY <1>8, <1>9, <1>14, <1>15
  <2>2. QED
    BY <1>11, <1>12, <2>1
<1>17. ASSUME NEW k \in 1 .. n PROVE LiesIn(MetadataBlock(m[k]), HeadEnd(m, k - 1), t)
  <2>1. LiesIn(JoinedUpTo(f, n), 1, t)
    BY <1>3, <1>4, <1>13
  <2>2. n \in 0 .. Len(f) /\ k \in 0 .. n /\ k # 0
    BY <1>2
  <2>3. LiesIn(f[k], 1 + Len(JoinedUpTo(f, k - 1)), t)
    BY <1>2, <2>1, <2>2, FlatAt
  <2>4. QED
    BY <1>1, <1>2, <2>3 DEF HeadEnd
<1>18. QED
  BY <1>2, <1>3, <1>13, <1>16, <1>17

\* Where a header and blocks lie, each of the blocks does.
LEMMA WholeAt ==
  ASSUME NEW m, GoodMetas(m), NEW d, GoodData(d), NEW g \in 0 .. Len(d), NEW t \in Seq(Nat),
         LiesIn(Header(m) \o JoinedUpTo(BlockSeq(d), g), 0, t)
  PROVE  /\ LiesIn(Header(m), 0, t)
         /\ \A n \in 1 .. g : LiesIn(DataBlock(d[n]), DataEnd(m, d, n - 1), t)
<1>0. PICK q : q = BlockSeq(d)
  OBVIOUS
<1>1. PICK l \in Nat : /\ l = Len(d) /\ q \in Seq(Seq(Nat)) /\ Len(q) = l
                       /\ \A k \in 1 .. l : q[k] = DataBlock(d[k])
  BY <1>0, BlockSeqTyped
<1>2. PICK h, b : h = Header(m) /\ b = JoinedUpTo(q, g)
  OBVIOUS
<1>3. h \in Seq(Nat) /\ Len(h) = HeadLen(m) /\ b \in Seq(Nat)
  BY <1>0, <1>2, WholeIs
<1>4. LiesIn(h, 0, t) /\ LiesIn(b, 0 + Len(h), t)
  BY <1>0, <1>2, <1>3, AtJoin
<1>5. PICK p \in Nat : p = HeadLen(m)
  BY HeadEnds
<1>6. LiesIn(JoinedUpTo(q, g), p, t)
  BY <1>2, <1>3, <1>4, <1>5
<1>7. ASSUME NEW n \in 1 .. g PROVE LiesIn(DataBlock(d[n]), DataEnd(m, d, n - 1), t)
  <2>1. g \in 0 .. Len(q) /\ n \in 0 .. g /\ n # 0 /\ n \in 1 .. l
    BY <1>1
  <2>2. LiesIn(q[n], p + Len(JoinedUpTo(q, n - 1)), t)
    BY <1>1, <1>6, <2>1, FlatAt
  <2>3. QED
    BY <1>0, <1>1, <1>5, <2>1, <2>2 DEF DataEnd
<1>8. QED
  BY <1>2, <1>4, <1>7

\* A block that the inspector must refuse.
Refusable(r, s, f, k) == r <= 0 \/ s < 0 \/ (s = f /\ k # Marker)

\* A file with a damaged block after g blocks that are not.
LEMMA BrokenAt ==
  ASSUME NEW m, GoodMetas(m), NEW d, GoodData(d), NEW g \in 0 .. Len(d),
         NEW w, w \in Seq(Nat), Len(w) >= 1, NEW z, z \in Seq(Nat),
         NEW t, t = (Whole(m, SubSeq(d, 1, g)) \o w) \o z
  PROVE  /\ t \in Seq(Nat)
         /\ LiesIn(Header(m), 0, t)
         /\ \A n \in 1 .. g : LiesIn(DataBlock(d[n]), DataEnd(m, d, n - 1), t)
         /\ LiesIn(w, DataEnd(m, d, g), t)
         /\ DataEnd(m, d, g) < Len(t)
<1>1. PICK h, b : h = Header(m) /\ b = JoinedUpTo(BlockSeq(d), g)
  OBVIOUS
<1>2. /\ h \in Seq(Nat) /\ Len(h) = HeadLen(m) /\ b \in Seq(Nat)
      /\ Whole(m, SubSeq(d, 1, g)) = h \o b
  BY <1>1, WholeIs
<1>3. PICK u, v : u = h \o b /\ v = u \o w
  OBVIOUS
<1>4. u \in Seq(Nat) /\ Len(u) = Len(h) + Len(b) /\ Len(h) \in Nat /\ Len(b) \in Nat
  BY <1>2, <1>3, JoinTyped
<1>5. v \in Seq(Nat) /\ Len(v) = Len(u) + Len(w) /\ Len(w) \in Nat
  BY <1>3, <1>4, JoinTyped
<1>6. t = v \o z
  BY <1>2, <1>3
<1>7. t \in Seq(Nat) /\ Len(t) = Len(v) + Len(z) /\ Len(z) \in Nat
  BY <1>5, <1>6, JoinTyped
<1>8. LiesIn(t, 0, t)
  BY <1>7, AtSelf
<1>9. LiesIn(v, 0, t)
  BY <1>5, <1>6, <1>7, <1>8, AtJoin
<1>10. LiesIn(u, 0, t) /\ LiesIn(w, 0 + Len(u), t)
  BY <1>3, <1>4, <1>7, <1>9, AtJoin
<1>11. LiesIn(h \o b, 0, t)
  BY <1>3, <1>10
<1>12. /\ LiesIn(h, 0, t)
       /\ \A n \in 1 .. g : LiesIn(DataBlock(d[n]), DataEnd(m, d, n - 1), t)
  BY <1>1, <1>7, <1>11, WholeAt
<1>13. DataEnd(m, d, g) = Len(u) /\ 0 + Len(u) = Len(u)
  BY <1>1, <1>2, <1>4 DEF DataEnd
<1>14. DataEnd(m, d, g) < Len(t)
  BY <1>4, <1>5, <1>7, <1>13
<1>15. QED
  BY <1>1, <1>7, <1>10, <1>12, <1>13, <1>14

\* Blocks that are written after a damaged one are bytes.
LEMMA BlocksTyped ==
  ASSUME NEW d \in Data, NEW g \in Nat \ {0}
  PROVE  Blocks(d) \in Seq(Nat) /\ Blocks(SubSeq(d, g, Len(d))) \in Seq(Nat)
<1>1. PICK S : S = [rows: 1 .. MaxLong, size: 0 .. MaxLong]
  OBVIOUS
<1>2. d \in Seq(S)
  BY <1>1, DataAssumption
<1>3. ASSUME NEW e \in Seq(S) PROVE Blocks(e) \in Seq(Nat)
  <2>1. PICK n \in Nat : n = Len(e)
    OBVIOUS
  <2>2. e = [k \in 1 .. n |-> e[k]] /\ \A k \in 1 .. n : e[k] \in S
    BY <2>1
  <2>3. \A k \in 1 .. n : e[k].rows \in 1 .. MaxLong /\ e[k].size \in 0 .. MaxLong
    BY <1>1, <2>2
  <2>4. GoodData(e)
    BY <2>1, <2>2, <2>3 DEF GoodData
  <2>5. PICK q : q = BlockSeq(e)
    OBVIOUS
  <2>6. q \in Seq(Seq(Nat)) /\ Len(q) = n
    BY <2>1, <2>4, <2>5, BlockSeqTyped
  <2>7. JoinedUpTo(q, n) \in Seq(Nat)
    <3>1. n \in 0 .. Len(q)
      BY <2>6
    <3>2. QED
      BY <2>6, <3>1, FlatTyped
  <2>8. JoinedUpTo(q, n) = FlattenSeq(q)
    BY <2>6, FlatAll
  <2>9. Blocks(e) = FlattenSeq(q)
    BY <2>5 DEF Blocks, BlockSeq
  <2>10. QED
    BY <2>7, <2>8, <2>9
<1>4. SubSeq(d, g, Len(d)) \in Seq(S)
  <2>1. PICK l \in Nat : l = Len(d)
    BY <1>2
  <2>2. \A i \in 1 .. l : d[i] \in S
    BY <1>2, <2>1
  <2>3. PICK c : c = SubSeq(d, g, l)
    OBVIOUS
  <2>4. c = [i \in 1 .. ((l - g) + 1) |-> d[(g + i) - 1]]
    BY <1>2, <2>1, <2>3
  <2>5. CASE g <= l
    <3>1. PICK n \in Nat : n = (l - g) + 1
      BY <2>5
    <3>2. \A i \in 1 .. n : (g + i) - 1 \in 1 .. l
      BY <3>1
    <3>3. \A i \in 1 .. n : d[(g + i) - 1] \in S
      BY <2>2, <3>2
    <3>4. c \in Seq(S)
      BY <2>4, <3>1, <3>3
    <3>5. QED
      BY <2>1, <2>3, <3>4
  <2>6. CASE ~(g <= l)
    <3>1. 1 .. ((l - g) + 1) = {}
      BY <2>6
    <3>2. c = <<>>
      BY <2>4, <3>1
    <3>3. QED
      BY <2>1, <2>3, <3>2
  <2>7. QED
    BY <2>5, <2>6
<1>5. QED
  BY <1>2, <1>3, <1>4

\* The damages, one kind at a time.
LEMMA DamageKinds ==
  ASSUME NEW m \in Metadata, NEW d \in Data, NEW x \in Damages(m, d)
  PROVE  /\ x.kind \in {"none", "cut", "marker", "rows", "size", "count"}
         /\ x.kind = "cut" => x.at \in 0 .. Len(Whole(m, d)) - 1
         /\ x.kind \in {"marker", "rows", "size"} => x.at \in 1 .. Len(d)
         /\ x.kind = "marker" => x.value = Filler
         /\ x.kind = "rows" => x.value \in {0, -1}
         /\ x.kind = "size" => x.value = -1
         /\ x.kind = "count" => x.value = MinLong
<1>1. PICK c, l, b : c = 0 .. Len(Whole(m, d)) - 1 /\ l = DOMAIN d /\ b = MinLong
  OBVIOUS
<1>2. l = 1 .. Len(d)
  BY <1>1, AllGood DEF GoodData
<1>3. x \in {[kind |-> "none", at |-> 0, value |-> 0]}
            \cup [kind: {"cut"}, at: c, value: {0}]
            \cup [kind: {"marker"}, at: l, value: {Filler}]
            \cup [kind: {"rows"}, at: l, value: {0, -1}]
            \cup [kind: {"size"}, at: l, value: {-1}]
            \cup [kind: {"count"}, at: {1}, value: {b}]
  BY <1>1 DEF Damages
<1>4. \/ x.kind = "none"
      \/ x.kind = "cut" /\ x.at \in c
      \/ x.kind = "marker" /\ x.at \in l /\ x.value = Filler
      \/ x.kind = "rows" /\ x.at \in l /\ x.value \in {0, -1}
      \/ x.kind = "size" /\ x.at \in l /\ x.value = -1
      \/ x.kind = "count" /\ x.value = b
  BY <1>3
<1>5. QED
  BY <1>1, <1>2, <1>4

\* A block without its marker.
LEMMA FrontIs ==
  ASSUME NEW b, b.rows \in 1 .. MaxLong, b.size \in 0 .. MaxLong
  PROVE  Front(DataBlock(b)) = Long(b.rows) \o Long(b.size) \o Fill(b.size)
<1>1. PICK r, s : r = b.rows /\ s = b.size
  OBVIOUS
<1>2. r \in MinLong .. MaxLong /\ s \in MinLong .. MaxLong /\ s \in Nat
  BY <1>1, LongBounds
<1>3. PICK a, c, e : a = Long(r) /\ c = Long(s) /\ e = Fill(s)
  OBVIOUS
<1>4. a \in Seq(Nat) /\ c \in Seq(Nat) /\ e \in Seq(Nat)
  BY <1>2, <1>3, LongTyped, FillTyped
<1>5. PICK ac, ace : ac = a \o c /\ ace = ac \o e
  OBVIOUS
<1>6. ac \in Seq(Nat)
  BY <1>4, <1>5, JoinTyped
<1>7. ace \in Seq(Nat)
  BY <1>4, <1>5, <1>6, JoinTyped
<1>8. DataBlock(b) = ace \o <<Marker>>
  BY <1>1, <1>3, <1>5 DEF DataBlock
<1>9. PICK k \in Nat : k = Marker
  BY DEF Marker
<1>10. PICK n \in Nat : n = Len(ace)
  BY <1>7
<1>11. PICK f : f = ace \o <<k>>
  OBVIOUS
<1>12. Len(f) = n + 1 /\ \A i \in 1 .. n : f[i] = ace[i]
  BY <1>7, <1>9, <1>10, <1>11
<1>13. SubSeq(f, 1, n) = ace
  <2>1. f \in Seq(Nat) /\ n \in 0 .. Len(f)
    BY <1>7, <1>9, <1>11, <1>12
  <2>2. /\ SubSeq(f, 1, n) \in Seq(Nat) /\ Len(SubSeq(f, 1, n)) = n
        /\ \A i \in 1 .. n : SubSeq(f, 1, n)[i] = f[i]
    BY <2>1, CutFacts
  <2>3. QED
    BY <1>7, <1>10, <1>12, <2>2
<1>14. Front(f) = SubSeq(f, 1, Len(f) - 1)
  BY DEF Front
<1>15. Front(f) = ace
  <2>1. Len(f) - 1 = n
    BY <1>12
  <2>2. QED
    BY <1>13, <1>14, <2>1
<1>16. QED
  BY <1>1, <1>3, <1>5, <1>8, <1>9, <1>11, <1>15

\* Where the parts of a header and of the first n blocks lie.
HeadLies(m, t) == 
  /\ LiesIn(<<Magic>>, 0, t)
  /\ \A k \in 1 .. Len(m) : LiesIn(MetadataBlock(m[k]), HeadEnd(m, k - 1), t)
  /\ LiesIn(Long(0), HeadEnd(m, Len(m)), t)
  /\ LiesIn(<<Marker>>, HeadLen(m) - 1, t)
DataLies(m, d, n, t) == \A k \in 1 .. n : LiesIn(DataBlock(d[k]), DataEnd(m, d, k - 1), t)

\* A block to be refused.
BadLies(p, t) ==
  /\ p < Len(t)
  /\ \E r \in MinLong .. MaxLong, s \in MinLong .. MaxLong, f \in Nat, k \in Nat :
       Refusable(r, s, f, k) /\ LiesIn(BlockBytes(r, s, f, k), p, t)

\* A file that is whole, or was cut.
LEMMA WholeLaid ==
  ASSUME NEW m \in Metadata, NEW d \in Data, NEW n \in 0 .. Len(Whole(m, d)),
         NEW t, t = SubSeq(Whole(m, d), 1, n)
  PROVE  /\ t \in Seq(Nat) /\ Len(t) = n /\ Len(Whole(m, d)) = DataEnd(m, d, Len(d))
         /\ HeadLies(m, t) /\ DataLies(m, d, Len(d), t)
<1>1. GoodMetas(m) /\ GoodData(d)
  BY AllGood
<1>2. PICK l \in Nat : l = Len(d)
  BY <1>1 DEF GoodData
<1>3. l \in 0 .. Len(d) /\ l = Len(d)
  BY <1>2
<1>4. PICK h, b, u : h = Header(m) /\ b = JoinedUpTo(BlockSeq(d), l) /\ u = h \o b
  OBVIOUS
<1>5. h \in Seq(Nat) /\ Len(h) = HeadLen(m) /\ b \in Seq(Nat) /\ Whole(m, d) = u
  <2>1. Whole(m, d) = Header(m) \o JoinedUpTo(BlockSeq(d), Len(d))
    BY <1>1, <1>3, WholeIs
  <2>2. QED
    BY <1>1, <1>3, <1>4, <2>1, WholeIs
<1>6. u \in Seq(Nat) /\ Len(u) = Len(h) + Len(b)
  BY <1>4, <1>5, JoinTyped
<1>7. t \in Seq(Nat) /\ Len(t) = n
  BY <1>5, <1>6, CutFacts
<1>8. LiesIn(u, 0, t)
  <2>1. LiesIn(u, 0, u)
    BY <1>6, AtSelf
  <2>2. n \in 0 .. Len(u) /\ 0 \in Nat
    BY <1>5
  <2>3. LiesIn(u, 0, SubSeq(u, 1, n))
    BY <1>6, <2>1, <2>2, AtCut
  <2>4. QED
    BY <1>5, <2>3
<1>9. /\ LiesIn(Header(m), 0, t)
      /\ \A k \in 1 .. l : LiesIn(DataBlock(d[k]), DataEnd(m, d, k - 1), t)
  <2>1. LiesIn(Header(m) \o JoinedUpTo(BlockSeq(d), l), 0, t)
    BY <1>4, <1>8
  <2>2. QED
    BY <1>1, <1>3, <1>7, <2>1, WholeAt
<1>10. HeadLies(m, t)
  BY <1>1, <1>7, <1>9, HeaderAt DEF HeadLies
<1>11. Len(u) = DataEnd(m, d, l)
  BY <1>4, <1>5, <1>6 DEF DataEnd
<1>12. QED
  BY <1>2, <1>5, <1>7, <1>9, <1>10, <1>11 DEF DataLies

\* A file with a damaged block after g others.
LEMMA BrokenLaid ==
  ASSUME NEW m \in Metadata, NEW d \in Data, NEW g \in 0 .. Len(d), NEW z \in Seq(Nat),
         NEW r \in MinLong .. MaxLong, NEW s \in MinLong .. MaxLong, NEW f \in Nat, NEW k \in Nat,
         Refusable(r, s, f, k),
         NEW t, t = (Whole(m, SubSeq(d, 1, g)) \o BlockBytes(r, s, f, k)) \o z
  PROVE  /\ t \in Seq(Nat) /\ HeadLies(m, t) /\ DataLies(m, d, g, t)
         /\ BadLies(DataEnd(m, d, g), t)
<1>1. GoodMetas(m) /\ GoodData(d)
  BY AllGood
<1>2. PICK w : w = BlockBytes(r, s, f, k)
  OBVIOUS
<1>3. w \in Seq(Nat) /\ Len(w) >= 1
  <2>1. w \in Seq(Nat) /\ Len(w) = Len(Long(r)) + Len(Long(s)) + f + 1
    BY <1>2, BlockAt
  <2>2. Len(Long(r)) \in Nat /\ Len(Long(s)) \in Nat
    BY LongTyped
  <2>3. QED
    BY <2>1, <2>2
<1>4. t = (Whole(m, SubSeq(d, 1, g)) \o w) \o z
  BY <1>2
<1>5. /\ t \in Seq(Nat)
      /\ LiesIn(Header(m), 0, t)
      /\ \A n \in 1 .. g : LiesIn(DataBlock(d[n]), DataEnd(m, d, n - 1), t)
      /\ LiesIn(w, DataEnd(m, d, g), t)
      /\ DataEnd(m, d, g) < Len(t)
  BY <1>1, <1>3, <1>4, BrokenAt
<1>6. HeadLies(m, t)
  BY <1>1, <1>5, HeaderAt DEF HeadLies
<1>7. BadLies(DataEnd(m, d, g), t)
  BY <1>2, <1>5 DEF BadLies
<1>8. QED
  BY <1>5, <1>6, <1>7 DEF DataLies

\* The blocks before a damaged one.
Good(d, x) == IF x.kind \in {"none", "cut", "count"} THEN Len(d) ELSE x.at - 1

\* A header without its magic.
LEMMA TailTyped ==
  ASSUME NEW m \in Metadata
  PROVE  Tail(Header(m)) \in Seq(Nat)
<1>1. PICK h : h = Header(m)
  OBVIOUS
<1>2. h \in Seq(Nat) /\ Len(h) = HeadLen(m)
  <2>1. GoodMetas(m)
    BY AllGood
  <2>2. PICK d : d = <<>>
    OBVIOUS
  <2>3. Len(d) = 0 /\ d = [n \in 1 .. 0 |-> d[n]] /\ 1 .. 0 = {}
    BY <2>2
  <2>4. GoodData(d)
    BY <2>3 DEF GoodData
  <2>5. 0 \in 0 .. Len(d)
    BY <2>3
  <2>6. QED
    BY <1>1, <2>1, <2>4, <2>5, WholeIs
<1>3. HeadLen(m) \in Nat /\ HeadLen(m) >= 1
  <2>1. GoodMetas(m)
    BY AllGood
  <2>2. HeadLen(m) \in Nat /\ HeadEnd(m, Len(m)) < HeadLen(m)
    BY <2>1, HeadEnds
  <2>3. Len(m) \in 0 .. Len(m)
    BY <2>1 DEF GoodMetas
  <2>4. HeadEnd(m, Len(m)) \in Nat
    BY <2>1, <2>3, HeadEnds
  <2>5. QED
    BY <2>2, <2>4
<1>4. h # <<>>
  BY <1>2, <1>3
<1>5. Tail(h) \in Seq(Nat)
  BY <1>2, <1>4
<1>6. QED
  BY <1>1, <1>5

\* A file whose first count has no magnitude.
LEMMA CountLaid ==
  ASSUME NEW m \in Metadata, NEW d \in Data,
         NEW t, t = <<Magic>> \o Long(MinLong) \o Long(0) \o Tail(Header(m)) \o Blocks(d)
  PROVE  /\ t \in Seq(Nat) /\ LiesIn(<<Magic>>, 0, t) /\ LiesIn(Long(MinLong), 1, t)
         /\ 1 + Len(Long(MinLong)) <= Len(t)
<1>1. MinLong \in MinLong .. MaxLong /\ 0 \in MinLong .. MaxLong
  BY LongBounds
<1>2. PICK a, b, c, e, f : /\ a = <<Magic>> /\ b = Long(MinLong) /\ c = Long(0)
                           /\ e = Tail(Header(m)) /\ f = Blocks(d)
  OBVIOUS
<1>3. a \in Seq(Nat) /\ Len(a) = 1
  BY <1>2 DEF Magic
<1>4. b \in Seq(Nat) /\ c \in Seq(Nat)
  BY <1>1, <1>2, LongTyped
<1>5. e \in Seq(Nat) /\ f \in Seq(Nat)
  <2>1. e \in Seq(Nat)
    BY <1>2, TailTyped
  <2>2. 1 \in Nat \ {0}
    OBVIOUS
  <2>3. f \in Seq(Nat)
    BY <1>2, <2>2, BlocksTyped
  <2>4. QED
    BY <2>1, <2>3
<1>6. PICK ab, abc, abce : ab = a \o b /\ abc = ab \o c /\ abce = abc \o e
  OBVIOUS
<1>7. ab \in Seq(Nat) /\ Len(ab) = 1 + Len(b) /\ Len(b) \in Nat
  <2>1. a \o b \in Seq(Nat) /\ Len(a \o b) = Len(a) + Len(b) /\ Len(b) \in Nat
    BY <1>3, <1>4, JoinTyped
  <2>2. QED
    BY <1>3, <1>6, <2>1
<1>8. abc \in Seq(Nat) /\ Len(abc) = Len(ab) + Len(c) /\ Len(c) \in Nat
  BY <1>4, <1>6, <1>7, JoinTyped
<1>9. abce \in Seq(Nat) /\ Len(abce) = Len(abc) + Len(e) /\ Len(e) \in Nat
  BY <1>5, <1>6, <1>8, JoinTyped
<1>10. t = abce \o f
  BY <1>2, <1>6
<1>11. t \in Seq(Nat) /\ Len(t) = Len(abce) + Len(f) /\ Len(f) \in Nat
  BY <1>5, <1>9, <1>10, JoinTyped
<1>12. LiesIn(abce, 0, t)
  <2>1. LiesIn(t, 0, t)
    BY <1>11, AtSelf
  <2>2. QED
    BY <1>5, <1>9, <1>10, <1>11, <2>1, AtJoin
<1>13. LiesIn(abc, 0, t)
  BY <1>5, <1>6, <1>8, <1>11, <1>12, AtJoin
<1>14. LiesIn(ab, 0, t)
  BY <1>4, <1>6, <1>7, <1>11, <1>13, AtJoin
<1>15. LiesIn(a, 0, t) /\ LiesIn(b, 0 + Len(a), t)
  BY <1>3, <1>4, <1>6, <1>11, <1>14, AtJoin
<1>16. 0 + Len(a) = 1
  BY <1>3
<1>17. 1 + Len(b) <= Len(t)
  BY <1>7, <1>8, <1>9, <1>11
<1>18. QED
  BY <1>2, <1>11, <1>15, <1>16, <1>17

\* How a file was written, and where its parts therefore lie.
Laid(m, d, x, t) ==
  /\ t \in Seq(Nat) /\ LiesIn(<<Magic>>, 0, t)
  /\ x.kind = "count" => /\ LiesIn(Long(MinLong), 1, t)
                         /\ 1 + Len(Long(MinLong)) <= Len(t)
  /\ x.kind # "count" => /\ Good(d, x) \in 0 .. Len(d)
                         /\ HeadLies(m, t) /\ DataLies(m, d, Good(d, x), t)
  /\ x.kind = "none" => Len(t) = DataEnd(m, d, Len(d))
  /\ x.kind = "cut" => Len(t) < DataEnd(m, d, Len(d))
  /\ x.kind \in {"none", "cut"} => /\ Len(t) \in 0 .. Len(Whole(m, d))
                                   /\ t = SubSeq(Whole(m, d), 1, Len(t))
  /\ x.kind \notin {"none", "cut", "count"} => BadLies(DataEnd(m, d, Good(d, x)), t)

\* Joining is associative.
LEMMA JoinMore ==
  ASSUME NEW a \in Seq(Nat), NEW b \in Seq(Nat), NEW c \in Seq(Nat)
  PROVE  (a \o b) \o c = a \o (b \o c)
OBVIOUS

\* A file that is whole.
LEMMA LaidWhole ==
  ASSUME NEW m \in Metadata, NEW d \in Data, NEW x \in Damages(m, d), x.kind = "none"
  PROVE  Laid(m, d, x, Damaged(m, d, x))
<1>1. GoodMetas(m) /\ GoodData(d)
  BY AllGood
<1>2. PICK l \in Nat : l = Len(d) /\ l \in 0 .. Len(d)
  BY <1>1 DEF GoodData
<1>3. PICK t : t = Whole(m, d)
  OBVIOUS
<1>4. t \in Seq(Nat) /\ Len(t) = DataEnd(m, d, l)
  <2>1. /\ Header(m) \in Seq(Nat) /\ Len(Header(m)) = HeadLen(m)
        /\ JoinedUpTo(BlockSeq(d), l) \in Seq(Nat)
        /\ t = Header(m) \o JoinedUpTo(BlockSeq(d), l)
    BY <1>1, <1>2, <1>3, WholeIs
  <2>2. PICK h, b : h = Header(m) /\ b = JoinedUpTo(BlockSeq(d), l)
    OBVIOUS
  <2>3. t \in Seq(Nat) /\ Len(t) = Len(h) + Len(b)
    BY <2>1, <2>2, JoinTyped
  <2>4. QED
    BY <2>1, <2>2, <2>3 DEF DataEnd
<1>5. PICK n \in Nat : n = Len(t) /\ n \in 0 .. Len(Whole(m, d)) /\ t = SubSeq(Whole(m, d), 1, n)
  <2>1. Len(t) \in Nat /\ Len(t) \in 0 .. Len(t)
    BY <1>4
  <2>2. SubSeq(t, 1, Len(t)) = t
    BY <1>4, <2>1, CutFacts
  <2>3. QED
    BY <1>3, <2>1, <2>2
<1>6. HeadLies(m, t) /\ DataLies(m, d, Len(d), t)
  BY <1>5, WholeLaid
<1>7. Good(d, x) = Len(d)
  BY DEF Good
<1>8. Damaged(m, d, x) = t
  BY <1>3 DEF Damaged
<1>9. LiesIn(<<Magic>>, 0, t)
  BY <1>6 DEF HeadLies
<1>10. Laid(m, d, x, t)
  BY <1>2, <1>4, <1>5, <1>6, <1>7, <1>9 DEF Laid
<1>11. QED
  BY <1>8, <1>10

\* A file that was cut.
LEMMA LaidCut ==
  ASSUME NEW m \in Metadata, NEW d \in Data, NEW x \in Damages(m, d), x.kind = "cut"
  PROVE  Laid(m, d, x, Damaged(m, d, x))
<1>1. GoodMetas(m) /\ GoodData(d)
  BY AllGood
<1>2. PICK l \in Nat : l = Len(d) /\ l \in 0 .. Len(d)
  BY <1>1 DEF GoodData
<1>3. Len(Whole(m, d)) = DataEnd(m, d, l) /\ Len(Whole(m, d)) \in Nat
  <2>1. /\ Header(m) \in Seq(Nat) /\ Len(Header(m)) = HeadLen(m)
        /\ JoinedUpTo(BlockSeq(d), l) \in Seq(Nat)
        /\ Whole(m, d) = Header(m) \o JoinedUpTo(BlockSeq(d), l)
    BY <1>1, <1>2, WholeIs
  <2>2. PICK h, b : h = Header(m) /\ b = JoinedUpTo(BlockSeq(d), l)
    OBVIOUS
  <2>3. Len(h \o b) = Len(h) + Len(b) /\ Len(h) \in Nat /\ Len(b) \in Nat
    BY <2>1, <2>2, JoinTyped
  <2>4. QED
    BY <2>1, <2>2, <2>3 DEF DataEnd
<1>4. PICK n \in Nat : n = x.at /\ n \in 0 .. Len(Whole(m, d)) /\ n < Len(Whole(m, d))
  <2>1. x.at \in 0 .. Len(Whole(m, d)) - 1
    BY DamageKinds
  <2>2. QED
    BY <1>3, <2>1
<1>5. PICK t : t = SubSeq(Whole(m, d), 1, n)
  OBVIOUS
<1>6. t \in Seq(Nat) /\ Len(t) = n /\ HeadLies(m, t) /\ DataLies(m, d, Len(d), t)
  <2>1. n \in 0 .. Len(Whole(m, d))
    BY <1>4
  <2>2. HeadLies(m, t) /\ DataLies(m, d, Len(d), t)
    BY <1>5, <2>1, WholeLaid
  <2>3. t \in Seq(Nat)
    BY <1>5, <2>1, WholeLaid
  <2>4. Len(t) = n
    BY <1>5, <2>1, WholeLaid
  <2>5. QED
    BY <2>2, <2>3, <2>4
<1>7. Good(d, x) = Len(d)
  BY DEF Good
<1>8. Damaged(m, d, x) = t
  BY <1>4, <1>5 DEF Damaged
<1>9. LiesIn(<<Magic>>, 0, t)
  BY <1>6 DEF HeadLies
<1>10. Laid(m, d, x, t)
  BY <1>2, <1>3, <1>4, <1>5, <1>6, <1>7, <1>9 DEF Laid
<1>11. QED
  BY <1>8, <1>10

\* A damaged block.
LEMMA LaidBroken ==
  ASSUME NEW m \in Metadata, NEW d \in Data, NEW x \in Damages(m, d),
         x.kind \in {"marker", "rows", "size"}
  PROVE  Laid(m, d, x, Damaged(m, d, x))
<1>1. GoodMetas(m) /\ GoodData(d)
  BY AllGood
<1>2. PICK l \in Nat : l = Len(d)
  BY <1>1 DEF GoodData
<1>3. PICK n : n = x.at /\ n \in 1 .. l
  BY <1>2, DamageKinds
<1>4. PICK g \in Nat : g = n - 1 /\ g \in 0 .. Len(d)
  BY <1>2, <1>3
<1>5. PICK b : b = d[n] /\ b.rows \in 1 .. MaxLong /\ b.size \in 0 .. MaxLong
  BY <1>1, <1>2, <1>3 DEF GoodData
<1>6. PICK r, f : r = b.rows /\ f = b.size
  OBVIOUS
<1>7. r \in MinLong .. MaxLong /\ f \in MinLong .. MaxLong /\ f \in Nat
      /\ 0 \in MinLong .. MaxLong /\ -1 \in MinLong .. MaxLong
  BY <1>5, <1>6, LongBounds
<1>8. PICK z : z = Blocks(SubSeq(d, n + 1, Len(d))) /\ z \in Seq(Nat)
  <2>1. n + 1 \in Nat \ {0}
    BY <1>3
  <2>2. QED
    BY <2>1, BlocksTyped
<1>9. Good(d, x) = g
  BY <1>3, <1>4 DEF Good
<1>10. PICK u : u = Whole(m, SubSeq(d, 1, g))
  OBVIOUS
<1>11. u \in Seq(Nat)
  <2>1. /\ u = Header(m) \o JoinedUpTo(BlockSeq(d), g)
        /\ Header(m) \in Seq(Nat) /\ JoinedUpTo(BlockSeq(d), g) \in Seq(Nat)
    BY <1>1, <1>4, <1>10, WholeIs
  <2>2. QED
    BY <2>1
<1>12. PICK t : t = Damaged(m, d, x)
  OBVIOUS
<1>13. SUFFICES \E v \in MinLong .. MaxLong, s \in MinLong .. MaxLong, k \in Nat :
                  /\ Refusable(v, s, f, k)
                  /\ t = (u \o BlockBytes(v, s, f, k)) \o z
  <2>1. PICK v \in MinLong .. MaxLong, s \in MinLong .. MaxLong, k \in Nat :
               /\ Refusable(v, s, f, k)
               /\ t = (u \o BlockBytes(v, s, f, k)) \o z
    BY <1>13
  <2>2. t = (Whole(m, SubSeq(d, 1, g)) \o BlockBytes(v, s, f, k)) \o z
    BY <1>10, <2>1
  <2>3. /\ t \in Seq(Nat) /\ HeadLies(m, t) /\ DataLies(m, d, g, t)
        /\ BadLies(DataEnd(m, d, g), t)
    <3>1. g \in 0 .. Len(d) /\ f \in Nat /\ z \in Seq(Nat) /\ Refusable(v, s, f, k)
      BY <1>4, <1>7, <1>8, <2>1
    <3>2. QED
      BY <2>2, <3>1, BrokenLaid
  <2>4. LiesIn(<<Magic>>, 0, t)
    BY <2>3 DEF HeadLies
  <2>5. Laid(m, d, x, t)
    BY <1>4, <1>9, <2>3, <2>4 DEF Laid
  <2>6. QED
    BY <1>12, <2>5
<1>14. PICK a, c, e : a = Long(r) /\ c = Long(f) /\ e = Fill(f)
  OBVIOUS
<1>15. a \in Seq(Nat) /\ c \in Seq(Nat) /\ e \in Seq(Nat)
  BY <1>7, <1>14, LongTyped, FillTyped
<1>16. Marker \in Nat /\ Filler \in Nat /\ Filler # Marker
  BY DEF Marker, Filler
<1>17. CASE x.kind = "marker"
  <2>1. x.value = Filler
    BY <1>17, DamageKinds
  <2>2. t = u \o Front(DataBlock(b)) \o <<Filler>> \o z
    BY <1>3, <1>4, <1>5, <1>8, <1>10, <1>12, <1>17, <2>1 DEF Damaged
  <2>3. Front(DataBlock(b)) = (a \o c) \o e
    BY <1>5, <1>6, <1>14, FrontIs
  <2>4. PICK ace, o : ace = (a \o c) \o e /\ o = <<Filler>>
    OBVIOUS
  <2>5. ace \in Seq(Nat) /\ o \in Seq(Nat)
    BY <1>15, <1>16, <2>4
  <2>6. BlockBytes(r, f, f, Filler) = ace \o o
    BY <1>14, <2>4 DEF BlockBytes
  <2>7. (u \o ace) \o o = u \o (ace \o o)
    BY <1>11, <2>5, JoinMore
  <2>8. t = (u \o BlockBytes(r, f, f, Filler)) \o z
    BY <2>2, <2>3, <2>4, <2>6, <2>7
  <2>9. Refusable(r, f, f, Filler)
    BY <1>16 DEF Refusable
  <2>10. QED
    BY <1>7, <1>16, <2>8, <2>9
<1>18. CASE x.kind = "rows"
  <2>1. PICK v \in {0, -1} : v = x.value
    BY <1>18, DamageKinds
  <2>2. PICK y : y = [b EXCEPT !.rows = v]
    OBVIOUS
  <2>3. y.rows = v /\ y.size = f
    <3>1. PICK S : S = [rows: 1 .. MaxLong, size: 0 .. MaxLong]
      OBVIOUS
    <3>2. d \in Seq(S)
      BY <3>1, DataAssumption
    <3>3. b \in S
      BY <1>2, <1>3, <1>5, <3>2
    <3>4. b = [rows |-> b.rows, size |-> b.size]
      BY <3>1, <3>3
    <3>5. QED
      BY <1>6, <2>2, <3>4
  <2>4. t = u \o DataBlock(y) \o z
    BY <1>3, <1>4, <1>5, <1>8, <1>10, <1>12, <1>18, <2>1, <2>2 DEF Damaged
  <2>5. DataBlock(y) = BlockBytes(v, f, f, Marker)
    BY <2>3 DEF DataBlock, BlockBytes
  <2>6. Refusable(v, f, f, Marker) /\ v \in MinLong .. MaxLong
    BY <1>7, <2>1 DEF Refusable
  <2>7. QED
    BY <1>7, <1>16, <2>4, <2>5, <2>6
<1>19. CASE x.kind = "size"
  <2>1. x.value = -1
    BY <1>19, DamageKinds
  <2>2. PICK n1, o : n1 = Long(-1) /\ o = <<Marker>>
    OBVIOUS
  <2>3. n1 \in Seq(Nat) /\ o \in Seq(Nat)
    BY <1>7, <1>16, <2>2, LongTyped
  <2>4. t = u \o a \o n1 \o e \o o \o z
    BY <1>3, <1>4, <1>5, <1>6, <1>8, <1>10, <1>12, <1>14, <1>19, <2>1, <2>2 DEF Damaged
  <2>5. BlockBytes(r, -1, f, Marker) = ((a \o n1) \o e) \o o
    BY <1>14, <2>2 DEF BlockBytes
  <2>6. ((u \o a) \o n1) = u \o (a \o n1)
    BY <1>11, <1>15, <2>3, JoinMore
  <2>7. PICK an : an = a \o n1 /\ an \in Seq(Nat)
    BY <1>15, <2>3, JoinTyped
  <2>8. (u \o an) \o e = u \o (an \o e)
    BY <1>11, <1>15, <2>7, JoinMore
  <2>9. PICK ane : ane = an \o e /\ ane \in Seq(Nat)
    BY <1>15, <2>7, JoinTyped
  <2>10. (u \o ane) \o o = u \o (ane \o o)
    BY <1>11, <2>3, <2>9, JoinMore
  <2>11. t = (u \o BlockBytes(r, -1, f, Marker)) \o z
    BY <2>4, <2>5, <2>6, <2>7, <2>8, <2>9, <2>10
  <2>12. Refusable(r, -1, f, Marker)
    BY DEF Refusable
  <2>13. QED
    BY <1>7, <1>16, <2>11, <2>12
<1>20. QED
  BY <1>17, <1>18, <1>19

\* A count without a magnitude.
LEMMA LaidCount ==
  ASSUME NEW m \in Metadata, NEW d \in Data, NEW x \in Damages(m, d), x.kind = "count"
  PROVE  Laid(m, d, x, Damaged(m, d, x))
<1>1. x.value = MinLong
  BY DamageKinds
<1>2. PICK t : t = <<Magic>> \o Long(MinLong) \o Long(0) \o Tail(Header(m)) \o Blocks(d)
  OBVIOUS
<1>3. /\ t \in Seq(Nat) /\ LiesIn(<<Magic>>, 0, t) /\ LiesIn(Long(MinLong), 1, t)
      /\ 1 + Len(Long(MinLong)) <= Len(t)
  BY <1>2, CountLaid
<1>4. Laid(m, d, x, t)
  BY <1>3 DEF Laid
<1>5. Damaged(m, d, x) = t
  BY <1>1, <1>2 DEF Damaged
<1>6. QED
  BY <1>4, <1>5

\* What was written lies where it was put.
LEMMA AllLaid ==
  ASSUME NEW m \in Metadata, NEW d \in Data, NEW x \in Damages(m, d)
  PROVE  Laid(m, d, x, Damaged(m, d, x))
BY DamageKinds, LaidWhole, LaidCut, LaidBroken, LaidCount

\* What is read of a long.
LEMMA LongCases ==
  ASSUME bytes \in Seq(Nat), NEW p \in Nat, NEW v \in MinLong .. MaxLong, Lies(Long(v), p)
  PROVE  /\ p + Len(Long(v)) <= Len(bytes) =>
              /\ ReadLong(p).ok /\ ~ReadLong(p).end /\ ReadLong(p).value = v
              /\ ReadLong(p).next = p + Len(Long(v))
         /\ p + Len(Long(v)) > Len(bytes) => ~ReadLong(p).ok
         /\ (p + Len(Long(v)) > Len(bytes) /\ p >= Len(bytes)) => ReadLong(p).end
         /\ (p + Len(Long(v)) > Len(bytes) /\ p < Len(bytes)) => ~ReadLong(p).end
<1>1. CASE p + Len(Long(v)) <= Len(bytes)
  <2>1. PICK n : n = p + Len(Long(v))
    OBVIOUS
  <2>2. ReadLong(p) = Integer(v, n)
    BY <1>1, <2>1, LongRead
  <2>3. ReadLong(p).ok /\ ~ReadLong(p).end /\ ReadLong(p).value = v /\ ReadLong(p).next = n
    BY <2>2 DEF Integer
  <2>4. ~(p + Len(Long(v)) > Len(bytes))
    BY <1>1, LongTyped
  <2>5. QED
    BY <2>1, <2>3, <2>4
<1>2. CASE p + Len(Long(v)) > Len(bytes)
  <2>1. ReadLong(p) = NoInteger(p >= Len(bytes))
    BY <1>2, LongRead
  <2>2. ~ReadLong(p).ok /\ ReadLong(p).end = (p >= Len(bytes))
    BY <2>1 DEF NoInteger
  <2>3. ~(p + Len(Long(v)) <= Len(bytes))
    BY <1>2, LongTyped
  <2>4. p < Len(bytes) => ~(p >= Len(bytes))
    OBVIOUS
  <2>5. QED
    BY <2>2, <2>3, <2>4
<1>3. QED
  BY <1>1, <1>2, LongTyped

\* The length of a block.
LEMMA BlockLen ==
  ASSUME NEW r \in MinLong .. MaxLong, NEW s \in MinLong .. MaxLong, NEW f \in Nat, NEW k \in Nat
  PROVE  Len(BlockBytes(r, s, f, k)) = Len(Long(r)) + Len(Long(s)) + f + 1
BY BlockAt

\* The inspector refuses what lies at p.
Refused(p) ==
  LET rows == ReadLong(p)
      size == ReadLong(rows.next)
      end  == size.next + size.value
  IN  ~rows.ok \/ rows.value <= 0 \/ ~size.ok \/ size.value < 0 \/ ~Has(end) \/ Digit(end, 0) # Marker

\* Where the inspector is after a block at p.
EndFrom(p) == LET size == ReadLong(ReadLong(p).next) IN size.next + size.value

\* A block is refused if it must be or if it is cut off, and read otherwise.
LEMMA BlockRead ==
  ASSUME bytes \in Seq(Nat), NEW p \in Nat, NEW r \in MinLong .. MaxLong,
         NEW s \in MinLong .. MaxLong, NEW f \in Nat, NEW k \in Nat, Lies(BlockBytes(r, s, f, k), p)
  PROVE  /\ p >= Len(bytes) => ReadLong(p).end
         /\ p < Len(bytes) => ~ReadLong(p).end
         /\ (p < Len(bytes) /\ Refusable(r, s, f, k)) => Refused(p)
         /\ (s = f /\ p + Len(BlockBytes(r, s, f, k)) > Len(bytes)) => Refused(p)
         /\ (s = f /\ r > 0 /\ k = Marker /\ p + Len(BlockBytes(r, s, f, k)) <= Len(bytes)) =>
              /\ ~Refused(p) /\ ReadLong(p).value = r
              /\ EndFrom(p) \in Nat /\ EndFrom(p) + 1 = p + Len(BlockBytes(r, s, f, k))
<1>1. PICK a, b \in Nat : a = Len(Long(r)) /\ b = Len(Long(s)) /\ a >= 1 /\ b >= 1
  BY LongTyped
<1>2. Len(BlockBytes(r, s, f, k)) = a + b + f + 1
  <2>1. Len(BlockBytes(r, s, f, k)) = Len(Long(r)) + Len(Long(s)) + f + 1
    BY BlockLen
  <2>2. QED
    BY <1>1, <2>1
<1>3. /\ Lies(Long(r), p) /\ Lies(Long(s), p + a) /\ LiesIn(<<k>>, p + a + b + f, bytes)
  BY <1>1, BlockAt DEF Lies
<1>4. PICK n \in Nat : n = Len(bytes)
  OBVIOUS
<1>5. /\ p + a <= n => /\ ReadLong(p).ok /\ ~ReadLong(p).end /\ ReadLong(p).value = r
                       /\ ReadLong(p).next = p + a
      /\ p + a > n => ~ReadLong(p).ok
      /\ (p + a > n /\ p >= n) => ReadLong(p).end
      /\ (p + a > n /\ p < n) => ~ReadLong(p).end
  BY <1>1, <1>3, <1>4, LongCases
<1>6. PICK q \in Nat : q = p + a
  OBVIOUS
<1>7. /\ q + b <= n => /\ ReadLong(q).ok /\ ReadLong(q).value = s
                       /\ ReadLong(q).next = q + b
      /\ q + b > n => ~ReadLong(q).ok
  BY <1>1, <1>3, <1>4, <1>6, LongCases
<1>8. PICK y \in Nat : y = p + a + b + f
  BY <1>1
<1>9. y < n => bytes[y + 1] = k
  <2>1. Len(<<k>>) = 1 /\ <<k>>[1] = k
    OBVIOUS
  <2>2. 1 \in 1 .. Len(<<k>>)
    BY <2>1
  <2>3. y + 1 <= Len(bytes) => bytes[y + 1] = <<k>>[1]
    BY <1>3, <1>8, <2>2 DEF LiesIn
  <2>4. QED
    BY <1>4, <2>1, <2>3
<1>10. y < n => Digit(y, 0) = k
  <2>1. y + 0 + 1 = y + 1
    OBVIOUS
  <2>2. QED
    BY <1>9, <2>1 DEF Digit
<1>11. (p >= n => ReadLong(p).end) /\ (p < n => ~ReadLong(p).end)
  BY <1>1, <1>5
<1>12. CASE p + a > n
  <2>1. Refused(p)
    BY <1>5, <1>12 DEF Refused
  <2>2. ~(p + Len(BlockBytes(r, s, f, k)) <= n)
    BY <1>1, <1>2, <1>12
  <2>3. QED
    BY <1>4, <1>11, <2>1, <2>2
<1>13. CASE p + a <= n /\ q + b > n
  <2>1. ReadLong(p).next = q
    BY <1>5, <1>6, <1>13
  <2>2. Refused(p)
    BY <1>7, <1>13, <2>1 DEF Refused
  <2>3. ~(p + Len(BlockBytes(r, s, f, k)) <= n)
    BY <1>1, <1>2, <1>6, <1>13
  <2>4. QED
    BY <1>4, <1>11, <2>2, <2>3
<1>14. CASE p + a <= n /\ q + b <= n
  <2>1. ReadLong(p).next = q /\ ReadLong(p).value = r /\ ReadLong(p).ok
    BY <1>5, <1>6, <1>14
  <2>2. ReadLong(q).ok /\ ReadLong(q).value = s /\ ReadLong(q).next = q + b
    BY <1>7, <1>14
  <2>3. EndFrom(p) = (q + b) + s
    BY <2>1, <2>2 DEF EndFrom
  <2>4. Refused(p) <=> (r <= 0 \/ s < 0 \/ ~Has((q + b) + s) \/ Digit((q + b) + s, 0) # Marker)
    BY <2>1, <2>2 DEF Refused
  <2>5. CASE s # f
    <3>1. (p < n /\ Refusable(r, s, f, k)) => Refused(p)
      BY <2>4, <2>5 DEF Refusable
    <3>2. QED
      BY <1>4, <1>11, <2>5, <3>1
  <2>6. CASE s = f
    <3>1. (q + b) + s = y
      BY <1>6, <1>8, <2>6
    <3>2. p + Len(BlockBytes(r, s, f, k)) = y + 1
      BY <1>1, <1>2, <1>8, <2>6
    <3>3. Has(y) <=> y < n
      BY <1>4 DEF Has
    <3>4. Refused(p) <=> (r <= 0 \/ s < 0 \/ ~(y < n) \/ Digit(y, 0) # Marker)
      BY <2>4, <3>1, <3>3
    <3>5. (p < n /\ Refusable(r, s, f, k)) => Refused(p)
      BY <1>10, <2>6, <3>4 DEF Refusable
    <3>6. y + 1 > n => Refused(p)
      BY <3>4
    <3>7. (r > 0 /\ k = Marker /\ y + 1 <= n) =>
            /\ ~Refused(p) /\ ReadLong(p).value = r
            /\ EndFrom(p) \in Nat /\ EndFrom(p) + 1 = y + 1
      <4>1. SUFFICES ASSUME r > 0, k = Marker, y + 1 <= n
                     PROVE  /\ ~Refused(p) /\ ReadLong(p).value = r
                            /\ EndFrom(p) \in Nat /\ EndFrom(p) + 1 = y + 1
        OBVIOUS
      <4>2. y < n /\ ~(r <= 0) /\ ~(s < 0)
        BY <2>6, <4>1
      <4>3. QED
        BY <1>10, <2>1, <2>3, <3>1, <3>4, <4>1, <4>2
    <3>8. QED
      BY <1>4, <1>11, <3>2, <3>5, <3>6, <3>7
  <2>7. QED
    BY <2>5, <2>6
<1>15. QED
  <2>1. p + a > n \/ (p + a <= n /\ q + b > n) \/ (p + a <= n /\ q + b <= n)
    BY <1>1, <1>6
  <2>2. QED
    BY <1>12, <1>13, <1>14, <2>1

\* Where the entries of a metadata block end.
EntryStop(m, k, j) == HeadEnd(m, k) + CountLen(m[k + 1]) + Len(JoinedUpTo(EntrySeq(m[k + 1]), j))

\* The entries of a block end in order, the last with the block.
LEMMA EntryEnds ==
  ASSUME NEW m, GoodMetas(m), NEW k \in 0 .. Len(m) - 1, NEW j \in 0 .. Len(m[k + 1].entries)
  PROVE  /\ EntryStop(m, k, j) \in Nat /\ EntryStop(m, k, j) <= HeadEnd(m, k + 1)
         /\ EntryStop(m, k, 0) = HeadEnd(m, k) + CountLen(m[k + 1])
         /\ EntryStop(m, k, Len(m[k + 1].entries)) = HeadEnd(m, k + 1)
         /\ j < Len(m[k + 1].entries) =>
              EntryStop(m, k, j + 1) = EntryStop(m, k, j) + Len(MetadataEntry(m[k + 1].entries[j + 1]))
<1>1. PICK b : b = m[k + 1] /\ GoodMeta(b)
  <2>1. k + 1 \in 1 .. Len(m)
    BY DEF GoodMetas
  <2>2. QED
    BY <2>1 DEF GoodMetas
<1>2. PICK q : q = EntrySeq(b)
  OBVIOUS
<1>3. PICK l \in Nat : l = Len(b.entries)
  BY <1>1, EntriesTyped
<1>4. /\ q \in Seq(Seq(Nat)) /\ Len(q) = l
      /\ \A i \in 1 .. l : b.entries[i] \in Skippable /\ q[i] = MetadataEntry(b.entries[i])
      /\ Entries(b) = JoinedUpTo(q, l)
  BY <1>1, <1>2, <1>3, EntriesTyped
<1>5. PICK h \in Nat : h = HeadEnd(m, k) + CountLen(b) /\ HeadEnd(m, k + 1) = h + Len(Entries(b))
  <2>1. k \in 0 .. Len(m)
    BY DEF GoodMetas
  <2>2. HeadEnd(m, k) \in Nat
    BY <2>1, HeadEnds
  <2>3. CountLen(b) \in Nat
    BY <1>1, MetaAt
  <2>4. HeadEnd(m, k + 1) = HeadEnd(m, k) + CountLen(b) + Len(Entries(b))
    BY <1>1, HeadEnds
  <2>5. QED
    BY <2>2, <2>3, <2>4
<1>6. \A i \in 0 .. l : EntryStop(m, k, i) = h + Len(JoinedUpTo(q, i))
  BY <1>1, <1>2, <1>5 DEF EntryStop
<1>7. \A i \in 0 .. l : JoinedUpTo(q, i) \in Seq(Nat) /\ Len(JoinedUpTo(q, i)) \in Nat
  <2>1. \A i \in 0 .. l : JoinedUpTo(q, i) \in Seq(Nat)
    BY <1>4, FlatTyped
  <2>2. QED
    BY <2>1
<1>8. j \in 0 .. l /\ l \in 0 .. l /\ 0 \in 0 .. l /\ j <= l /\ j \in Nat
  BY <1>1, <1>3
<1>9. Len(JoinedUpTo(q, j)) <= Len(JoinedUpTo(q, l))
  BY <1>4, <1>8, FlatLonger
<1>10. HeadEnd(m, k + 1) = h + Len(JoinedUpTo(q, l))
  BY <1>4, <1>5
<1>11. Len(JoinedUpTo(q, 0)) = 0
  <2>1. JoinedUpTo(q, 0) = <<>>
    BY <1>4, FlatNone
  <2>2. QED
    BY <2>1
<1>12. ASSUME j < l
       PROVE  EntryStop(m, k, j + 1) = EntryStop(m, k, j) + Len(MetadataEntry(b.entries[j + 1]))
  <2>1. PICK i : i = j + 1 /\ i \in 1 .. l /\ i \in 0 .. l
    BY <1>8, <1>12
  <2>2. JoinedUpTo(q, i) = JoinedUpTo(q, j) \o q[i]
    BY <1>4, <1>8, <1>12, <2>1, FlatMore
  <2>3. PICK u, v : u = JoinedUpTo(q, j) /\ v = MetadataEntry(b.entries[i])
    OBVIOUS
  <2>4. u \in Seq(Nat) /\ v \in Seq(Nat) /\ JoinedUpTo(q, i) = u \o v
    <3>1. b.entries[i] \in Skippable /\ q[i] = v
      BY <1>4, <2>1, <2>3
    <3>2. v \in Seq(Nat)
      BY <2>3, <3>1, EntryAt
    <3>3. QED
      BY <1>7, <1>8, <2>2, <2>3, <3>1, <3>2
  <2>5. Len(JoinedUpTo(q, i)) = Len(u) + Len(v) /\ Len(u) \in Nat /\ Len(v) \in Nat
    BY <2>4, JoinTyped
  <2>6. EntryStop(m, k, i) = h + Len(JoinedUpTo(q, i)) /\ EntryStop(m, k, j) = h + Len(u)
    BY <1>6, <1>8, <2>1, <2>3
  <2>7. QED
    BY <2>1, <2>3, <2>5, <2>6
<1>13. EntryStop(m, k, j) = h + Len(JoinedUpTo(q, j)) /\ EntryStop(m, k, 0) = h
       /\ EntryStop(m, k, l) = h + Len(JoinedUpTo(q, l))
  <2>1. /\ EntryStop(m, k, j) = h + Len(JoinedUpTo(q, j)) /\ EntryStop(m, k, 0) = h + Len(JoinedUpTo(q, 0))
        /\ EntryStop(m, k, l) = h + Len(JoinedUpTo(q, l))
    BY <1>6, <1>8
  <2>2. h + 0 = h
    OBVIOUS
  <2>3. QED
    BY <1>11, <2>1, <2>2
<1>14. EntryStop(m, k, j) \in Nat /\ EntryStop(m, k, j) <= HeadEnd(m, k + 1)
  BY <1>7, <1>8, <1>9, <1>10, <1>13
<1>15. QED
  BY <1>1, <1>3, <1>5, <1>10, <1>12, <1>13, <1>14

\* Each entry lies where the one before it ends.
LEMMA EntryLies ==
  ASSUME NEW m, GoodMetas(m), NEW t \in Seq(Nat), HeadLies(m, t),
         NEW k \in 0 .. Len(m) - 1, NEW j \in Nat, j < Len(m[k + 1].entries)
  PROVE  LiesIn(MetadataEntry(m[k + 1].entries[j + 1]), EntryStop(m, k, j), t)
<1>0. PICK w \in Nat : w = Len(m)
  BY DEF GoodMetas
<1>1. PICK n : n = k + 1 /\ n \in 1 .. Len(m) /\ n - 1 = k /\ k \in 0 .. Len(m)
  <2>1. k + 1 \in 1 .. w /\ (k + 1) - 1 = k /\ k \in 0 .. w
    BY <1>0
  <2>2. QED
    BY <1>0, <2>1
<1>2. PICK b : b = m[n] /\ GoodMeta(b)
  BY <1>1 DEF GoodMetas
<1>3. LiesIn(MetadataBlock(b), HeadEnd(m, k), t)
  BY <1>1, <1>2 DEF HeadLies
<1>4. PICK h \in Nat : h = HeadEnd(m, k)
  BY <1>1, HeadEnds
<1>5. CountLen(b) \in Nat /\ LiesIn(Entries(b), h + CountLen(b), t)
  BY <1>2, <1>3, <1>4, MetaAt
<1>6. PICK q : q = EntrySeq(b)
  OBVIOUS
<1>7. PICK l \in Nat : l = Len(b.entries)
  BY <1>2, EntriesTyped
<1>8. /\ q \in Seq(Seq(Nat)) /\ Len(q) = l
      /\ \A i \in 1 .. l : q[i] = MetadataEntry(b.entries[i])
      /\ Entries(b) = JoinedUpTo(q, l)
  BY <1>2, <1>6, <1>7, EntriesTyped
<1>9. PICK i : i = j + 1 /\ i \in 0 .. l /\ i \in 1 .. l /\ i # 0 /\ i - 1 = j /\ l \in 0 .. Len(q)
  <2>1. j < l
    BY <1>1, <1>2, <1>7
  <2>2. PICK x \in Nat : x = j + 1
    OBVIOUS
  <2>3. x \in 0 .. l /\ x \in 1 .. l /\ x # 0 /\ x - 1 = j
    BY <1>7, <2>1, <2>2
  <2>4. l \in 0 .. Len(q)
    BY <1>7, <1>8
  <2>5. QED
    BY <2>2, <2>3, <2>4
<1>10. PICK p \in Nat : p = h + CountLen(b)
  BY <1>5
<1>11. LiesIn(JoinedUpTo(q, l), p, t)
  BY <1>5, <1>8, <1>10
<1>12. LiesIn(q[i], p + Len(JoinedUpTo(q, i - 1)), t)
  BY <1>8, <1>9, <1>11, FlatAt
<1>13. EntryStop(m, k, j) = p + Len(JoinedUpTo(q, j))
  BY <1>1, <1>2, <1>4, <1>6, <1>10 DEF EntryStop
<1>14. QED
  BY <1>1, <1>2, <1>8, <1>9, <1>12, <1>13

FoundBlock == [first: Nat, rows: Nat \ {0}, byte: Nat, size: Nat]

\* The inspector at a count of the header, between entries, and after a block.
AtCount(m, x) ==
  /\ found = <<>>
  /\ \E k \in 0 .. Len(m) : offset = HeadEnd(m, k) /\ (x.kind = "count" => k = 0)

AtEntry(m, x) ==
  /\ found = <<>> /\ x.kind # "count"
  /\ \E k \in 0 .. Len(m) - 1 : \E j \in 0 .. Len(m[k + 1].entries) :
       offset = EntryStop(m, k, j) /\ left = Len(m[k + 1].entries) - j

AtBlock(m, d, x) ==
  /\ x.kind # "count" /\ start = HeadLen(m) /\ start <= Len(bytes)
  /\ Len(found) \in 0 .. Good(d, x)
  /\ \A n \in 1 .. Len(found) : /\ found[n].rows = d[n].rows
                                /\ found[n].byte = DataEnd(m, d, n - 1)
                                /\ found[n].size = DataEnd(m, d, n) - DataEnd(m, d, n - 1)
  /\ offset = DataEnd(m, d, Len(found)) /\ offset <= Len(bytes)

\* Where the inspector is in what was written.
Spot(m, d, x) ==
  /\ part = "magic"   => offset = 0 /\ found = <<>>
  /\ part = "counts"  => AtCount(m, x)
  /\ part = "entries" => AtEntry(m, x)
  /\ part \in {"data", "done"} => AtBlock(m, d, x)
  /\ part = "done"    => x.kind \in {"none", "cut"} /\ offset = Len(bytes)
  /\ part = "failed"  => x.kind # "none"

\* What was written.
Legit(m, d, x) ==
  m \in Metadata /\ d \in Data /\ x \in Damages(m, d) /\ bytes = Damaged(m, d, x)

AvroInv ==
  /\ AvroTypeOK
  /\ Legit(avro.metadata, avro.data, avro.damage)
  /\ Spot(avro.metadata, avro.data, avro.damage)

\* Facts about what was written, for the steps.
LEMMA LegitFacts ==
  ASSUME NEW m, NEW d, NEW x, Legit(m, d, x)
  PROVE  /\ GoodMetas(m) /\ GoodData(d) /\ Laid(m, d, x, bytes) /\ bytes \in Seq(Nat)
         /\ x.kind \in {"none", "cut", "marker", "rows", "size", "count"}
<1>1. m \in Metadata /\ d \in Data /\ x \in Damages(m, d) /\ bytes = Damaged(m, d, x)
  BY DEF Legit
<1>2. Laid(m, d, x, bytes)
  BY <1>1, AllLaid
<1>3. QED
  BY <1>1, <1>2, AllGood, DamageKinds DEF Laid

\* A whole file holds what its header says.
LEMMA WholeHolds ==
  ASSUME NEW m, NEW d, NEW x, Legit(m, d, x), x.kind = "none"
  PROVE  /\ Len(bytes) = DataEnd(m, d, Len(d)) /\ HeadLen(m) <= Len(bytes)
         /\ \A k \in 0 .. Len(m) : HeadEnd(m, k) < Len(bytes)
<1>1. GoodMetas(m) /\ GoodData(d) /\ Laid(m, d, x, bytes)
  BY LegitFacts
<1>2. PICK l \in Nat : l = Len(d) /\ l \in 0 .. Len(d)
  BY <1>1 DEF GoodData
<1>3. Len(bytes) = DataEnd(m, d, l)
  BY <1>1, <1>2 DEF Laid
<1>4. DataEnd(m, d, l) \in Nat /\ HeadLen(m) <= DataEnd(m, d, l)
  BY <1>1, <1>2, DataEnds
<1>5. HeadLen(m) \in Nat /\ HeadEnd(m, Len(m)) < HeadLen(m)
  BY <1>1, HeadEnds
<1>6. ASSUME NEW k \in 0 .. Len(m) PROVE HeadEnd(m, k) < Len(bytes)
  <2>1. HeadEnd(m, k) \in Nat /\ HeadEnd(m, k) <= HeadEnd(m, Len(m))
    BY <1>1, HeadEnds
  <2>2. HeadEnd(m, Len(m)) \in Nat
    <3>1. Len(m) \in 0 .. Len(m)
      BY <1>1 DEF GoodMetas
    <3>2. QED
      BY <1>1, <3>1, HeadEnds
  <2>3. QED
    BY <1>3, <1>4, <1>5, <2>1, <2>2
<1>7. QED
  BY <1>2, <1>3, <1>4, <1>6

\* A failed inspection.
LEMMA FailStep ==
  ASSUME NEW m, NEW d, NEW x, AvroTypeOK, Fail, x.kind # "none"
  PROVE  AvroTypeOK' /\ Spot(m, d, x)'
BY DEF AvroTypeOK, Fail, Spot

\* The magic is read.
LEMMA MagicStep ==
  ASSUME NEW m, NEW d, NEW x, AvroTypeOK, Legit(m, d, x), Spot(m, d, x), ReadMagic
  PROVE  AvroTypeOK' /\ Spot(m, d, x)'
<1>1. GoodMetas(m) /\ Laid(m, d, x, bytes) /\ bytes \in Seq(Nat)
  BY LegitFacts
<1>2. CASE Has(0) /\ bytes[1] = Magic
  <2>1. part' = "counts" /\ offset' = 1 /\ UNCHANGED <<left, start, found>> /\ found = <<>>
    BY <1>2 DEF ReadMagic, Spot
  <2>2. 1 = HeadEnd(m, 0) /\ 0 \in 0 .. Len(m)
    BY <1>1, HeadEnds DEF GoodMetas
  <2>3. AtCount(m, x)'
    BY <2>1, <2>2 DEF AtCount
  <2>4. AvroTypeOK'
    BY <2>1 DEF AvroTypeOK
  <2>5. QED
    BY <2>1, <2>3, <2>4 DEF Spot
<1>3. CASE ~(Has(0) /\ bytes[1] = Magic)
  <2>1. Fail
    BY <1>3 DEF ReadMagic
  <2>2. x.kind # "none"
    <3>1. SUFFICES ASSUME x.kind = "none" PROVE FALSE
      OBVIOUS
    <3>2. 0 \in 0 .. Len(m) /\ HeadEnd(m, 0) = 1
      BY <1>1, HeadEnds DEF GoodMetas
    <3>3. HeadEnd(m, 0) < Len(bytes)
      BY <3>1, <3>2, WholeHolds
    <3>4. 0 < Len(bytes) /\ 0 + 1 <= Len(bytes) /\ 0 + 1 = 1
      BY <1>1, <3>2, <3>3
    <3>5. LiesIn(<<Magic>>, 0, bytes)
      BY <1>1 DEF Laid
    <3>6. Len(<<Magic>>) = 1 /\ <<Magic>>[1] = Magic /\ 1 \in 1 .. Len(<<Magic>>)
      OBVIOUS
    <3>7. bytes[1] = Magic
      BY <3>4, <3>5, <3>6 DEF LiesIn
    <3>8. QED
      BY <1>3, <3>4, <3>7 DEF Has
  <2>3. QED
    BY <2>1, <2>2, FailStep
<1>4. QED
  BY <1>2, <1>3

\* What is read at the end of a header.
LEMMA LastCount ==
  ASSUME NEW m, NEW d, NEW x, Legit(m, d, x), x.kind # "count"
  PROVE  LET p == HeadEnd(m, Len(m)) IN
           /\ x.kind = "none" => ReadLong(p).ok
           /\ ReadLong(p).ok => /\ ReadLong(p).value = 0
                                /\ ReadLong(p).next = HeadLen(m) - 1
<1>1. GoodMetas(m) /\ Laid(m, d, x, bytes) /\ bytes \in Seq(Nat)
  BY LegitFacts
<1>2. PICK p \in Nat : p = HeadEnd(m, Len(m))
  <2>1. Len(m) \in 0 .. Len(m)
    BY <1>1 DEF GoodMetas
  <2>2. QED
    BY <1>1, <2>1, HeadEnds
<1>3. Lies(Long(0), p)
  BY <1>1, <1>2 DEF Laid, HeadLies, Lies
<1>4. 0 \in MinLong .. MaxLong
  BY LongBounds
<1>5. PICK a \in Nat : a = Len(Long(0))
  BY <1>4, LongTyped
<1>6. HeadLen(m) = p + a + 1 /\ HeadLen(m) - 1 = p + a
  BY <1>2, <1>5 DEF HeadLen
<1>7. /\ p + a <= Len(bytes) => /\ ReadLong(p).ok /\ ReadLong(p).value = 0
                                /\ ReadLong(p).next = p + a
      /\ p + a > Len(bytes) => ~ReadLong(p).ok
  BY <1>1, <1>3, <1>4, <1>5, LongCases
<1>8. p + a <= Len(bytes) \/ p + a > Len(bytes)
  BY <1>1
<1>9. x.kind = "none" => p + a <= Len(bytes)
  <2>1. SUFFICES ASSUME x.kind = "none" PROVE p + a <= Len(bytes)
    OBVIOUS
  <2>2. HeadLen(m) <= Len(bytes)
    BY <2>1, WholeHolds
  <2>3. QED
    BY <1>1, <1>6, <2>2
<1>10. QED
  BY <1>2, <1>6, <1>7, <1>8, <1>9

\* What is read at a metadata block.
LEMMA BlockCount ==
  ASSUME NEW m, NEW d, NEW x, Legit(m, d, x), x.kind # "count", NEW k \in 0 .. Len(m) - 1
  PROVE  LET p == HeadEnd(m, k)
             n == Len(m[k + 1].entries)
             q == ReadLong(p).next
             c == CountOf(m[k + 1])
         IN  /\ x.kind = "none" => /\ ReadLong(p).ok
                                   /\ c < 0 => ReadLong(q).ok /\ ~(ReadLong(q).value < 0)
             /\ n \in 1 .. MaxLong
             /\ c = n \/ (c = -n /\ c < 0)
             /\ c # MinLong /\ c # 0
             /\ ReadLong(p).ok =>
                  /\ ReadLong(p).value = c
                  /\ c > 0 => q = EntryStop(m, k, 0)
                  /\ (c < 0 /\ ReadLong(q).ok) => ReadLong(q).next = EntryStop(m, k, 0)
<1>1. GoodMetas(m) /\ Laid(m, d, x, bytes) /\ bytes \in Seq(Nat)
  BY LegitFacts
<1>2. PICK w \in Nat : w = Len(m)
  BY <1>1 DEF GoodMetas
<1>3. PICK h : h = k + 1 /\ h \in 1 .. Len(m) /\ h - 1 = k /\ k \in 0 .. Len(m)
  <2>1. k + 1 \in 1 .. w /\ (k + 1) - 1 = k /\ k \in 0 .. w
    BY <1>2
  <2>2. QED
    BY <1>2, <2>1
<1>4. PICK b : b = m[h] /\ GoodMeta(b)
  BY <1>1, <1>3 DEF GoodMetas
<1>5. PICK p \in Nat : p = HeadEnd(m, k)
  BY <1>1, <1>3, HeadEnds
<1>6. PICK n \in Nat : n = Len(b.entries) /\ n \in 1 .. MaxLong
  BY <1>4, EntriesTyped DEF GoodMeta
<1>7. PICK c : c = CountOf(b)
  OBVIOUS
<1>8. PICK z \in Nat : z = MaxLong /\ MinLong = -z - 1
  BY LongBounds
<1>9. /\ c \in MinLong .. MaxLong /\ c # 0 /\ c # MinLong
      /\ b.sized => c = -n /\ c < 0
      /\ ~b.sized => c = n /\ c > 0
  <2>1. CASE b.sized
    BY <1>6, <1>7, <1>8, <2>1 DEF CountOf
  <2>2. CASE ~b.sized
    BY <1>6, <1>7, <1>8, <2>2 DEF CountOf
  <2>3. QED
    BY <2>1, <2>2
<1>10. LiesIn(MetadataBlock(b), p, bytes)
  BY <1>1, <1>3, <1>4, <1>5 DEF Laid, HeadLies
<1>11. PICK y \in Nat : y = Len(Entries(b)) /\ y \in MinLong .. MaxLong
  BY <1>4, EntriesTyped, MetaAt
<1>12. PICK a \in Nat : a = Len(Long(c))
  BY <1>9, LongTyped
<1>13. PICK e \in Nat : e = Len(Long(y))
  BY <1>11, LongTyped
<1>14. /\ LiesIn(Long(c), p, bytes)
       /\ b.sized => LiesIn(Long(y), p + a, bytes)
  BY <1>1, <1>4, <1>7, <1>10, <1>11, <1>12, MetaAt
<1>15. CountLen(b) = IF b.sized THEN a + e ELSE a
  BY <1>7, <1>11, <1>12, <1>13 DEF CountLen
<1>16. 0 \in 0 .. Len(m[k + 1].entries)
  BY <1>3, <1>4, <1>6
<1>17. PICK o \in Nat : o = EntryStop(m, k, 0) /\ o = p + CountLen(b) /\ o <= HeadEnd(m, k + 1)
  BY <1>1, <1>3, <1>4, <1>5, <1>16, EntryEnds
<1>18. x.kind = "none" => o < Len(bytes)
  <2>1. SUFFICES ASSUME x.kind = "none" PROVE o < Len(bytes)
    OBVIOUS
  <2>2. h \in 0 .. Len(m)
    BY <1>2, <1>3
  <2>3. HeadEnd(m, h) < Len(bytes) /\ HeadEnd(m, h) \in Nat
    BY <1>1, <2>1, <2>2, WholeHolds, HeadEnds
  <2>4. QED
    BY <1>1, <1>3, <1>17, <2>3
<1>19. /\ p + a <= Len(bytes) => /\ ReadLong(p).ok /\ ReadLong(p).value = c
                                 /\ ReadLong(p).next = p + a
       /\ p + a > Len(bytes) => ~ReadLong(p).ok
  <2>1. Lies(Long(c), p)
    BY <1>14 DEF Lies
  <2>2. QED
    BY <1>1, <1>9, <1>12, <2>1, LongCases
<1>20. p + a <= Len(bytes) \/ p + a > Len(bytes)
  BY <1>1
<1>21. PICK q : q = ReadLong(p).next
  OBVIOUS
<1>22. CASE ~b.sized
  <2>1. o = p + a /\ c = n /\ c > 0 /\ ~(c < 0)
    BY <1>9, <1>15, <1>17, <1>22
  <2>2. ReadLong(p).ok => ReadLong(p).value = c /\ q = o
    BY <1>19, <1>20, <1>21, <2>1
  <2>3. x.kind = "none" => ReadLong(p).ok
    BY <1>1, <1>18, <1>19, <2>1
  <2>4. QED
    BY <1>3, <1>4, <1>5, <1>6, <1>7, <1>9, <1>17, <1>21, <2>1, <2>2, <2>3
<1>23. CASE b.sized
  <2>1. PICK r \in Nat : r = p + a
    OBVIOUS
  <2>2. o = r + e /\ c = -n /\ c < 0 /\ ~(c > 0)
    BY <1>9, <1>15, <1>17, <1>23, <2>1
  <2>3. /\ r + e <= Len(bytes) => /\ ReadLong(r).ok /\ ReadLong(r).value = y
                                  /\ ReadLong(r).next = r + e
        /\ r + e > Len(bytes) => ~ReadLong(r).ok
    <3>1. Lies(Long(y), r)
      BY <1>14, <1>23, <2>1 DEF Lies
    <3>2. QED
      BY <1>1, <1>11, <1>13, <3>1, LongCases
  <2>4. r + e <= Len(bytes) \/ r + e > Len(bytes)
    BY <1>1
  <2>5. ReadLong(p).ok => /\ ReadLong(p).value = c /\ q = r
                          /\ ReadLong(q).ok => ReadLong(q).next = o
    BY <1>19, <1>20, <1>21, <2>1, <2>2, <2>3, <2>4
  <2>6. x.kind = "none" => ReadLong(p).ok /\ ReadLong(q).ok /\ ~(ReadLong(q).value < 0)
    <3>1. SUFFICES ASSUME x.kind = "none"
                   PROVE  ReadLong(p).ok /\ ReadLong(q).ok /\ ~(ReadLong(q).value < 0)
      OBVIOUS
    <3>2. r + e <= Len(bytes) /\ p + a <= Len(bytes)
      BY <1>1, <1>18, <2>1, <2>2, <3>1
    <3>3. q = r /\ ReadLong(r).ok /\ ReadLong(r).value = y
      BY <1>19, <1>21, <2>1, <2>3, <3>2
    <3>4. ~(y < 0)
      OBVIOUS
    <3>5. QED
      BY <1>19, <3>2, <3>3, <3>4
  <2>7. QED
    BY <1>3, <1>4, <1>5, <1>6, <1>7, <1>9, <1>17, <1>21, <2>2, <2>5, <2>6
<1>24. QED
  BY <1>22, <1>23, <1>4 DEF GoodMeta

\* The first count of a file in which it has no magnitude.
LEMMA NoMagnitude ==
  ASSUME NEW m, NEW d, NEW x, Legit(m, d, x), x.kind = "count"
  PROVE  ReadLong(1).ok /\ ReadLong(1).value = MinLong /\ MinLong < 0
<1>1. bytes \in Seq(Nat) /\ LiesIn(Long(MinLong), 1, bytes) /\ 1 + Len(Long(MinLong)) <= Len(bytes)
  BY LegitFacts DEF Laid
<1>2. MinLong \in MinLong .. MaxLong /\ MinLong < 0
  BY LongBounds
<1>3. Lies(Long(MinLong), 1)
  BY <1>1 DEF Lies
<1>4. QED
  BY <1>1, <1>2, <1>3, LongCases

\* The header ends.
LEMMA EndHeaderStep ==
  ASSUME NEW m, NEW d, NEW x, AvroTypeOK, Legit(m, d, x), Spot(m, d, x), EndHeader
  PROVE  AvroTypeOK' /\ Spot(m, d, x)'
<1>1. GoodMetas(m) /\ GoodData(d) /\ Laid(m, d, x, bytes) /\ bytes \in Seq(Nat)
  BY LegitFacts
<1>2. ReadLong(offset).ok /\ ReadLong(offset).value = 0 /\ part = "counts"
  BY DEF EndHeader
<1>3. PICK k \in 0 .. Len(m) : /\ offset = HeadEnd(m, k) /\ (x.kind = "count" => k = 0)
                               /\ found = <<>>
  BY <1>2 DEF Spot, AtCount
<1>4. x.kind # "count"
  <2>1. SUFFICES ASSUME x.kind = "count" PROVE FALSE
    OBVIOUS
  <2>2. offset = 1
    BY <1>1, <1>3, <2>1, HeadEnds
  <2>3. QED
    BY <1>2, <2>1, <2>2, NoMagnitude
<1>5. k = Len(m)
  <2>1. SUFFICES ASSUME k # Len(m) PROVE FALSE
    OBVIOUS
  <2>2. PICK w \in Nat : w = Len(m)
    BY <1>1 DEF GoodMetas
  <2>3. k \in 0 .. Len(m) - 1
    BY <1>3, <2>1, <2>2
  <2>4. CountOf(m[k + 1]) # 0 /\ ReadLong(HeadEnd(m, k)).value = CountOf(m[k + 1])
    BY <1>2, <1>3, <1>4, <2>3, BlockCount
  <2>5. QED
    BY <1>2, <1>3, <2>4
<1>6. ReadLong(offset).next = HeadLen(m) - 1
  BY <1>2, <1>3, <1>4, <1>5, LastCount
<1>7. PICK n \in Nat : n + 1 = HeadLen(m) /\ n = HeadLen(m) - 1
  <2>1. HeadLen(m) \in Nat /\ HeadEnd(m, Len(m)) < HeadLen(m)
    BY <1>1, HeadEnds
  <2>2. HeadEnd(m, Len(m)) \in Nat
    BY <1>1, <1>3, <1>5, HeadEnds
  <2>3. HeadLen(m) - 1 \in Nat /\ (HeadLen(m) - 1) + 1 = HeadLen(m)
    BY <2>1, <2>2
  <2>4. QED
    BY <2>3
<1>8. ReadLong(offset).next = n
  BY <1>6, <1>7
<1>9. CASE Has(n)
  <2>1. /\ start' = n + 1 /\ offset' = n + 1 /\ part' = "data" /\ left' = left /\ found' = found
        /\ bytes' = bytes
    BY <1>8, <1>9 DEF EndHeader
  <2>2. AvroTypeOK'
    <3>1. n + 1 \in Nat
      OBVIOUS
    <3>2. QED
      BY <2>1, <3>1 DEF AvroTypeOK
  <2>3. AtBlock(m, d, x)'
    <3>1. found' = <<>> /\ Len(found') = 0
      BY <1>3, <2>1
    <3>2. 0 \in 0 .. Good(d, x)
      <4>1. Good(d, x) \in 0 .. Len(d) /\ Len(d) \in Nat
        BY <1>1, <1>4 DEF Laid, GoodData
      <4>2. QED
        BY <4>1
    <3>3. DataEnd(m, d, 0) = n + 1
      BY <1>1, <1>7, DataEnds
    <3>4. n + 1 <= Len(bytes)
      BY <1>1, <1>9 DEF Has
    <3>5. 1 .. 0 = {}
      OBVIOUS
    <3>6. QED
      BY <1>4, <1>7, <2>1, <3>1, <3>2, <3>3, <3>4, <3>5 DEF AtBlock
  <2>4. QED
    BY <2>1, <2>2, <2>3 DEF Spot
<1>10. CASE ~Has(n)
  <2>1. Fail
    BY <1>8, <1>10 DEF EndHeader
  <2>2. x.kind # "none"
    <3>1. SUFFICES ASSUME x.kind = "none" PROVE FALSE
      OBVIOUS
    <3>2. n + 1 <= Len(bytes)
      BY <1>7, <3>1, WholeHolds
    <3>3. n < Len(bytes)
      BY <1>1, <3>2
    <3>4. QED
      BY <1>10, <3>3 DEF Has
  <2>3. QED
    BY <2>1, <2>2, FailStep
<1>11. QED
  BY <1>9, <1>10

\* A count is read.
LEMMA CountStep ==
  ASSUME NEW m, NEW d, NEW x, AvroTypeOK, Legit(m, d, x), Spot(m, d, x), ReadCount
  PROVE  AvroTypeOK' /\ Spot(m, d, x)'
<1>1. GoodMetas(m) /\ GoodData(d) /\ Laid(m, d, x, bytes) /\ bytes \in Seq(Nat)
  BY LegitFacts
<1>2. PICK count, size : count = ReadLong(offset) /\ size = ReadLong(count.next)
  OBVIOUS
<1>3. /\ part = "counts" /\ (count.ok => count.value # 0) /\ bytes' = bytes
      /\ IF ~count.ok THEN Fail
         ELSE IF count.value < 0 /\ (~size.ok \/ size.value < 0 \/ count.value = MinLong)
           THEN Fail
         ELSE /\ left' = IF count.value < 0 THEN -count.value ELSE count.value
              /\ offset' = IF count.value < 0 THEN size.next ELSE count.next
              /\ part' = "entries"
              /\ UNCHANGED <<start, found>>
  BY <1>2 DEF ReadCount
<1>4. PICK k \in 0 .. Len(m) : /\ offset = HeadEnd(m, k) /\ (x.kind = "count" => k = 0)
                               /\ found = <<>>
  BY <1>3 DEF Spot, AtCount
<1>5. CASE x.kind = "count"
  <2>1. offset = 1
    BY <1>1, <1>4, <1>5, HeadEnds
  <2>2. count.ok /\ count.value = MinLong /\ count.value < 0
    BY <1>2, <1>5, <2>1, NoMagnitude
  <2>3. Fail
    BY <1>3, <2>2
  <2>4. QED
    BY <1>5, <2>3, FailStep
<1>6. CASE x.kind # "count" /\ k = Len(m)
  <2>1. /\ x.kind = "none" => count.ok
        /\ count.ok => count.value = 0
    BY <1>2, <1>4, <1>6, LastCount
  <2>2. ~count.ok
    BY <1>3, <2>1
  <2>3. Fail /\ x.kind # "none"
    BY <1>3, <2>1, <2>2
  <2>4. QED
    BY <2>3, FailStep
<1>7. CASE x.kind # "count" /\ k # Len(m)
  <2>1. PICK w \in Nat : w = Len(m)
    BY <1>1 DEF GoodMetas
  <2>2. k \in 0 .. Len(m) - 1
    BY <1>4, <1>7, <2>1
  <2>3. PICK n, c : n = Len(m[k + 1].entries) /\ c = CountOf(m[k + 1])
    OBVIOUS
  <2>4. /\ x.kind = "none" => count.ok /\ (c < 0 => size.ok /\ ~(size.value < 0))
        /\ n \in 1 .. MaxLong /\ (c = n \/ (c = -n /\ c < 0)) /\ c # MinLong
        /\ count.ok => /\ count.value = c
                       /\ c > 0 => count.next = EntryStop(m, k, 0)
                       /\ (c < 0 /\ size.ok) => size.next = EntryStop(m, k, 0)
    BY <1>2, <1>4, <1>7, <2>2, <2>3, BlockCount
  <2>5. PICK z \in Nat : z = MaxLong
    BY LongBounds
  <2>6. n \in 1 .. z /\ n \in Nat /\ n > 0
    BY <2>4, <2>5
  <2>7. CASE Fail
    <3>1. x.kind # "none"
      <4>1. SUFFICES ASSUME x.kind = "none" PROVE FALSE
        OBVIOUS
      <4>2. count.ok /\ count.value = c /\ (c < 0 => size.ok /\ ~(size.value < 0))
        BY <2>4, <4>1
      <4>3. part' # "entries"
        BY <2>7 DEF Fail
      <4>4. QED
        BY <1>3, <2>4, <4>2, <4>3
    <3>2. QED
      BY <2>7, <3>1, FailStep
  <2>8. CASE ~Fail
    <3>1. /\ count.ok /\ ~(count.value < 0 /\ (~size.ok \/ size.value < 0 \/ count.value = MinLong))
          /\ left' = IF count.value < 0 THEN -count.value ELSE count.value
          /\ offset' = IF count.value < 0 THEN size.next ELSE count.next
          /\ part' = "entries"
          /\ UNCHANGED <<start, found>>
      BY <1>3, <2>8
    <3>2. left' = n
      <4>1. CASE c < 0
        <5>1. c = -n
          BY <2>4, <2>6, <4>1
        <5>2. QED
          BY <2>4, <2>6, <3>1, <4>1, <5>1
      <4>2. CASE ~(c < 0)
        BY <2>4, <3>1, <4>2
      <4>3. QED
        BY <4>1, <4>2
    <3>3. offset' = EntryStop(m, k, 0)
      <4>1. CASE c < 0
        BY <2>4, <3>1, <4>1
      <4>2. CASE ~(c < 0)
        <5>1. c > 0
          BY <2>4, <2>6, <4>2
        <5>2. QED
          BY <2>4, <3>1, <4>2, <5>1
      <4>3. QED
        BY <4>1, <4>2
    <3>4. 0 \in 0 .. Len(m[k + 1].entries) /\ n - 0 = n
      BY <2>3, <2>6
    <3>5. EntryStop(m, k, 0) \in Nat
      BY <1>1, <2>2, <3>4, EntryEnds
    <3>6. AvroTypeOK'
      <4>1. n \in 0 .. MaxLong
        BY <2>5, <2>6
      <4>2. QED
        BY <3>1, <3>2, <3>3, <3>5, <4>1 DEF AvroTypeOK
    <3>7. AtEntry(m, x)'
      <4>1. found' = <<>>
        BY <1>4, <3>1
      <4>2. offset' = EntryStop(m, k, 0) /\ left' = Len(m[k + 1].entries) - 0
        BY <2>3, <3>2, <3>3, <3>4
      <4>3. QED
        BY <1>7, <2>2, <3>4, <4>1, <4>2 DEF AtEntry
    <3>8. QED
      BY <3>1, <3>6, <3>7 DEF Spot
  <2>9. QED
    BY <2>7, <2>8
<1>8. QED
  BY <1>5, <1>6, <1>7

\* The entries of a block end.
LEMMA EndEntriesStep ==
  ASSUME NEW m, NEW d, NEW x, AvroTypeOK, Legit(m, d, x), Spot(m, d, x), EndEntries
  PROVE  AvroTypeOK' /\ Spot(m, d, x)'
<1>1. GoodMetas(m)
  BY LegitFacts
<1>2. /\ part = "entries" /\ left = 0 /\ part' = "counts"
      /\ UNCHANGED <<avro, bytes, offset, left, start, found>>
  BY DEF EndEntries
<1>3. found = <<>> /\ x.kind # "count" /\ AtEntry(m, x)
  BY <1>2 DEF Spot, AtEntry
<1>4. PICK k \in 0 .. Len(m) - 1 : \E j \in 0 .. Len(m[k + 1].entries) :
               offset = EntryStop(m, k, j) /\ left = Len(m[k + 1].entries) - j
  BY <1>3 DEF AtEntry
<1>5. PICK j \in 0 .. Len(m[k + 1].entries) :
               offset = EntryStop(m, k, j) /\ left = Len(m[k + 1].entries) - j
  BY <1>4
<1>6. PICK w \in Nat : w = Len(m)
  BY <1>1 DEF GoodMetas
<1>7. k + 1 \in 0 .. Len(m) /\ k + 1 \in 1 .. Len(m)
  BY <1>6
<1>8. PICK l \in Nat : l = Len(m[k + 1].entries)
  BY <1>1, <1>7, EntriesTyped DEF GoodMetas
<1>9. j = l
  BY <1>2, <1>5, <1>8
<1>10. offset = HeadEnd(m, k + 1)
  BY <1>1, <1>5, <1>8, <1>9, EntryEnds
<1>11. AtCount(m, x)'
  BY <1>2, <1>3, <1>7, <1>10 DEF AtCount
<1>12. AvroTypeOK'
  BY <1>2 DEF AvroTypeOK
<1>13. QED
  BY <1>2, <1>11, <1>12 DEF Spot

\* What is read of an entry.
LEMMA EntryRead ==
  ASSUME bytes \in Seq(Nat), NEW p \in Nat, NEW e \in Skippable, Lies(MetadataEntry(e), p)
  PROVE  LET key   == ReadLong(p)
             value == ReadLong(key.next + key.value)
             l     == Len(MetadataEntry(e))
         IN  /\ key.ok => ~(key.value < 0)
             /\ (key.ok /\ value.ok) => ~(value.value < 0) /\ value.next + value.value = p + l
             /\ p + l <= Len(bytes) => key.ok /\ value.ok
<1>1. PICK u \in Nat, v \in Nat : u = e[1] /\ v = e[2] /\ u \in MinLong .. MaxLong /\ v \in MinLong .. MaxLong
  BY LongBounds DEF Skippable
<1>2. PICK a \in Nat, b \in Nat : a = Len(Long(u)) /\ b = Len(Long(v))
  BY <1>1, LongTyped
<1>3. PICK l \in Nat : l = Len(MetadataEntry(e)) /\ l = a + u + b + v
  BY <1>1, <1>2, EntryAt
<1>4. PICK q \in Nat : q = p + a + u
  OBVIOUS
<1>5. Lies(Long(u), p) /\ Lies(Long(v), q)
  BY <1>1, <1>2, <1>4, EntryAt DEF Lies
<1>6. PICK n \in Nat : n = Len(bytes)
  OBVIOUS
<1>7. /\ p + a <= n => /\ ReadLong(p).ok /\ ReadLong(p).value = u
                       /\ ReadLong(p).next = p + a
      /\ p + a > n => ~ReadLong(p).ok
  BY <1>1, <1>2, <1>5, <1>6, LongCases
<1>8. /\ q + b <= n => /\ ReadLong(q).ok /\ ReadLong(q).value = v
                       /\ ReadLong(q).next = q + b
      /\ q + b > n => ~ReadLong(q).ok
  BY <1>1, <1>2, <1>5, <1>6, LongCases
<1>9. CASE p + a > n
  <2>1. ~ReadLong(p).ok /\ ~(p + l <= n)
    BY <1>3, <1>7, <1>9
  <2>2. QED
    BY <1>3, <1>6, <2>1
<1>10. CASE p + a <= n
  <2>1. ReadLong(p).ok /\ ReadLong(p).value = u /\ ReadLong(p).next = p + a
    BY <1>7, <1>10
  <2>2. ReadLong(p).next + ReadLong(p).value = q
    BY <1>4, <2>1
  <2>3. ~(u < 0) /\ ~(v < 0)
    OBVIOUS
  <2>4. CASE q + b > n
    <3>1. ~ReadLong(q).ok /\ ~(p + l <= n)
      BY <1>3, <1>4, <1>8, <2>4
    <3>2. QED
      BY <1>3, <1>6, <2>1, <2>2, <2>3, <3>1
  <2>5. CASE q + b <= n
    <3>1. ReadLong(q).ok /\ ReadLong(q).value = v /\ ReadLong(q).next = q + b
      BY <1>8, <2>5
    <3>2. (q + b) + v = p + l
      BY <1>3, <1>4
    <3>3. QED
      BY <1>3, <1>6, <2>1, <2>2, <2>3, <3>1, <3>2
  <2>6. QED
    BY <2>4, <2>5
<1>11. QED
  BY <1>9, <1>10

\* An entry is skipped.
LEMMA SkipStep ==
  ASSUME NEW m, NEW d, NEW x, AvroTypeOK, Legit(m, d, x), Spot(m, d, x), SkipEntry
  PROVE  AvroTypeOK' /\ Spot(m, d, x)'
<1>1. GoodMetas(m) /\ Laid(m, d, x, bytes) /\ bytes \in Seq(Nat)
  BY LegitFacts
<1>2. PICK key, value : key = ReadLong(offset) /\ value = ReadLong(key.next + key.value)
  OBVIOUS
<1>3. /\ part = "entries" /\ left > 0 /\ bytes' = bytes
      /\ IF ~key.ok \/ key.value < 0 THEN Fail
         ELSE IF ~value.ok \/ value.value < 0 THEN Fail
         ELSE /\ offset' = value.next + value.value
              /\ left' = left - 1
              /\ UNCHANGED <<start, found, part>>
  BY <1>2 DEF SkipEntry
<1>4. found = <<>> /\ x.kind # "count" /\ AtEntry(m, x)
  BY <1>3 DEF Spot, AtEntry
<1>5. PICK k \in 0 .. Len(m) - 1 : \E j \in 0 .. Len(m[k + 1].entries) :
               offset = EntryStop(m, k, j) /\ left = Len(m[k + 1].entries) - j
  BY <1>4 DEF AtEntry
<1>6. PICK j \in 0 .. Len(m[k + 1].entries) :
               offset = EntryStop(m, k, j) /\ left = Len(m[k + 1].entries) - j
  BY <1>5
<1>7. PICK w \in Nat : w = Len(m)
  BY <1>1 DEF GoodMetas
<1>8. k + 1 \in 0 .. Len(m) /\ k + 1 \in 1 .. Len(m)
  BY <1>7
<1>9. PICK b : b = m[k + 1] /\ GoodMeta(b)
  BY <1>1, <1>8 DEF GoodMetas
<1>10. PICK l \in Nat : l = Len(b.entries)
  BY <1>9, EntriesTyped
<1>11. j \in Nat /\ j < l /\ j + 1 \in 1 .. l /\ j + 1 \in 0 .. l
  BY <1>3, <1>6, <1>9, <1>10
<1>12. PICK e : e = b.entries[j + 1] /\ e \in Skippable
  BY <1>9, <1>10, <1>11, EntriesTyped
<1>13. HeadLies(m, bytes)
  BY <1>1, <1>4 DEF Laid
<1>14. PICK p \in Nat : p = offset
  BY DEF AvroTypeOK
<1>15. Lies(MetadataEntry(e), p)
  <2>1. j < Len(m[k + 1].entries)
    BY <1>9, <1>10, <1>11
  <2>2. LiesIn(MetadataEntry(m[k + 1].entries[j + 1]), EntryStop(m, k, j), bytes)
    BY <1>1, <1>11, <1>13, <2>1, EntryLies
  <2>3. QED
    BY <1>6, <1>9, <1>12, <1>14, <2>2 DEF Lies
<1>16. PICK n : n = Len(MetadataEntry(e))
  OBVIOUS
<1>17. /\ key.ok => ~(key.value < 0)
       /\ (key.ok /\ value.ok) => ~(value.value < 0) /\ value.next + value.value = p + n
       /\ p + n <= Len(bytes) => key.ok /\ value.ok
  BY <1>1, <1>2, <1>12, <1>14, <1>15, <1>16, EntryRead
<1>18. PICK i : i = j + 1 /\ i \in 0 .. l
  BY <1>11
<1>19. EntryStop(m, k, i) = p + n
  <2>1. j < Len(m[k + 1].entries)
    BY <1>9, <1>10, <1>11
  <2>2. EntryStop(m, k, j + 1) = EntryStop(m, k, j) + Len(MetadataEntry(m[k + 1].entries[j + 1]))
    BY <1>1, <2>1, EntryEnds
  <2>3. QED
    BY <1>6, <1>9, <1>12, <1>14, <1>16, <1>18, <2>2
<1>20. EntryStop(m, k, i) \in Nat /\ EntryStop(m, k, i) <= HeadEnd(m, k + 1)
  <2>1. i \in 0 .. Len(m[k + 1].entries)
    BY <1>9, <1>10, <1>18
  <2>2. QED
    BY <1>1, <2>1, EntryEnds
<1>21. CASE ~key.ok \/ ~value.ok
  <2>1. Fail
    BY <1>3, <1>17, <1>21
  <2>2. x.kind # "none"
    <3>1. SUFFICES ASSUME x.kind = "none" PROVE FALSE
      OBVIOUS
    <3>2. HeadEnd(m, k + 1) < Len(bytes) /\ HeadEnd(m, k + 1) \in Nat
      BY <1>1, <1>8, <3>1, WholeHolds, HeadEnds
    <3>3. p + n <= Len(bytes)
      BY <1>1, <1>19, <1>20, <3>2
    <3>4. QED
      BY <1>17, <1>21, <3>3
  <2>3. QED
    BY <2>1, <2>2, FailStep
<1>22. CASE key.ok /\ value.ok
  <2>1. /\ offset' = EntryStop(m, k, i) /\ left' = left - 1
        /\ UNCHANGED <<start, found, part>>
    BY <1>3, <1>17, <1>19, <1>22
  <2>2. left' = Len(m[k + 1].entries) - i
    <3>1. left' = (l - j) - 1 /\ (l - j) - 1 = l - (j + 1)
      BY <1>6, <1>9, <1>10, <1>11, <2>1
    <3>2. QED
      BY <1>9, <1>10, <1>18, <3>1
  <2>3. AvroTypeOK'
    <3>1. left - 1 \in 0 .. MaxLong
      BY <1>3, LongBounds DEF AvroTypeOK
    <3>2. QED
      BY <1>20, <2>1, <3>1 DEF AvroTypeOK
  <2>4. AtEntry(m, x)'
    <3>1. i \in 0 .. Len(m[k + 1].entries)
      BY <1>9, <1>10, <1>18
    <3>2. QED
      BY <1>4, <2>1, <2>2, <3>1 DEF AtEntry
  <2>5. QED
    BY <1>3, <2>1, <2>3, <2>4 DEF Spot
<1>23. QED
  BY <1>21, <1>22

\* What lies where the inspector looks for a block.
LEMMA BlockCases ==
  ASSUME NEW m, NEW d, NEW x, Legit(m, d, x), AtBlock(m, d, x)
  PROVE  \/ /\ Len(found) < Good(d, x)
            /\ Lies(DataBlock(d[Len(found) + 1]), offset)
            /\ x.kind \notin {"none", "cut"} => offset < Len(bytes)
            /\ x.kind = "none" => DataEnd(m, d, Len(found) + 1) <= Len(bytes)
         \/ x.kind = "none" /\ offset = Len(bytes)
         \/ x.kind \notin {"none", "cut"} /\ BadLies(offset, bytes)
<1>1. GoodMetas(m) /\ GoodData(d) /\ Laid(m, d, x, bytes) /\ bytes \in Seq(Nat)
  BY LegitFacts
<1>2. PICK l \in Nat : l = Len(d)
  BY <1>1 DEF GoodData
<1>3. PICK g \in Nat : g = Good(d, x) /\ g \in 0 .. l
  BY <1>1, <1>2 DEF Laid, AtBlock
<1>4. PICK n \in Nat : n = Len(found) /\ n <= g
  BY <1>3 DEF AtBlock
<1>5. x.kind # "count" /\ offset = DataEnd(m, d, n) /\ offset <= Len(bytes)
  BY <1>4 DEF AtBlock
<1>6. DataLies(m, d, g, bytes)
  BY <1>1, <1>3, <1>5 DEF Laid
<1>7. \A k \in 0 .. l : DataEnd(m, d, k) \in Nat
  BY <1>1, <1>2, DataEnds
<1>8. CASE n < g
  <2>1. PICK i : i = n + 1 /\ i \in 1 .. g /\ i \in 0 .. l /\ i - 1 = n /\ n \in 0 .. l
    BY <1>3, <1>4, <1>8
  <2>2. Lies(DataBlock(d[i]), offset)
    BY <1>5, <1>6, <2>1 DEF DataLies, Lies
  <2>3. x.kind \notin {"none", "cut"} => offset < Len(bytes)
    <3>1. SUFFICES ASSUME x.kind \notin {"none", "cut"} PROVE offset < Len(bytes)
      OBVIOUS
    <3>2. DataEnd(m, d, g) < Len(bytes)
      BY <1>1, <1>3, <1>5, <3>1 DEF Laid, BadLies
    <3>3. DataEnd(m, d, n) <= DataEnd(m, d, g)
      BY <1>1, <1>2, <1>3, <1>4, <2>1, DataEnds
    <3>4. QED
      BY <1>1, <1>3, <1>5, <1>7, <2>1, <3>2, <3>3
  <2>4. x.kind = "none" => DataEnd(m, d, i) <= Len(bytes)
    <3>1. SUFFICES ASSUME x.kind = "none" PROVE DataEnd(m, d, i) <= Len(bytes)
      OBVIOUS
    <3>2. Len(bytes) = DataEnd(m, d, l)
      BY <1>1, <1>2, <3>1 DEF Laid
    <3>3. l \in 0 .. Len(d) /\ i \in 0 .. Len(d) /\ i <= l
      BY <1>2, <2>1
    <3>4. QED
      BY <1>1, <3>2, <3>3, DataEnds
  <2>5. QED
    BY <1>3, <1>4, <1>8, <2>1, <2>2, <2>3, <2>4
<1>9. CASE n = g
  <2>1. CASE x.kind \notin {"none", "cut"}
    <3>1. BadLies(offset, bytes)
      BY <1>1, <1>3, <1>5, <1>9, <2>1 DEF Laid
    <3>2. QED
      BY <2>1, <3>1
  <2>2. CASE x.kind = "none"
    <3>1. g = l
      BY <1>2, <1>3, <2>2 DEF Good
    <3>2. Len(bytes) = DataEnd(m, d, l)
      BY <1>1, <1>2, <2>2 DEF Laid
    <3>3. QED
      BY <1>5, <1>9, <2>2, <3>1, <3>2
  <2>3. CASE x.kind = "cut"
    <3>1. g = l
      BY <1>2, <1>3, <2>3 DEF Good
    <3>2. Len(bytes) < DataEnd(m, d, l)
      BY <1>1, <1>2, <2>3 DEF Laid
    <3>3. l \in 0 .. l
      OBVIOUS
    <3>4. QED
      BY <1>1, <1>5, <1>7, <1>9, <3>1, <3>2, <3>3
  <2>4. QED
    BY <2>1, <2>2, <2>3
<1>10. QED
  BY <1>4, <1>8, <1>9

\* Nothing is read at the end of the file.
LEMMA ReadEnd ==
  ASSUME NEW p, p >= Len(bytes)
  PROVE  ReadLong(p).end
<1>1. ReadLong(p) = NoInteger(TRUE)
  BY DEF ReadLong
<1>2. QED
  BY <1>1 DEF NoInteger

\* The marker that blocks are compared with.
LEMMA MarkerAt ==
  ASSUME NEW m, NEW d, NEW x, Legit(m, d, x), AtBlock(m, d, x)
  PROVE  Digit(start - 1, 0) = Marker
<1>1. GoodMetas(m) /\ Laid(m, d, x, bytes) /\ bytes \in Seq(Nat)
  BY LegitFacts
<1>2. PICK h \in Nat : h + 1 = HeadLen(m) /\ h = HeadLen(m) - 1
  <2>1. HeadLen(m) \in Nat /\ HeadEnd(m, Len(m)) < HeadLen(m)
    BY <1>1, HeadEnds
  <2>2. HeadEnd(m, Len(m)) \in Nat
    <3>1. Len(m) \in 0 .. Len(m)
      BY <1>1 DEF GoodMetas
    <3>2. QED
      BY <1>1, <3>1, HeadEnds
  <2>3. HeadLen(m) - 1 \in Nat /\ (HeadLen(m) - 1) + 1 = HeadLen(m)
    BY <2>1, <2>2
  <2>4. QED
    BY <2>3
<1>3. start = h + 1 /\ h + 1 <= Len(bytes) /\ LiesIn(<<Marker>>, h, bytes)
  BY <1>1, <1>2 DEF AtBlock, Laid, HeadLies
<1>4. Len(<<Marker>>) = 1 /\ <<Marker>>[1] = Marker /\ 1 \in 1 .. Len(<<Marker>>)
  OBVIOUS
<1>5. bytes[h + 1] = Marker
  BY <1>3, <1>4 DEF LiesIn
<1>6. (start - 1) + 0 + 1 = h + 1
  BY <1>3
<1>7. QED
  BY <1>5, <1>6 DEF Digit

\* What the inspector does between blocks.
LEMMA Turn ==
  ASSUME FindBlock, Digit(start - 1, 0) = Marker
  PROVE  /\ part = "data" /\ bytes' = bytes
         /\ ReadLong(offset).end => part' = "done" /\ UNCHANGED <<offset, left, start, found>>
         /\ (~ReadLong(offset).end /\ Refused(offset)) => Fail
         /\ (~ReadLong(offset).end /\ ~Refused(offset)) =>
              /\ found' = Append(found, [first |-> FirstRow, rows |-> ReadLong(offset).value,
                                         byte |-> offset, size |-> EndFrom(offset) + 1 - offset])
              /\ offset' = EndFrom(offset) + 1
              /\ UNCHANGED <<left, start, part>>
BY DEF FindBlock, Refused, EndFrom

\* The first row of the next block.
LEMMA FirstRowTyped ==
  ASSUME found \in Seq(FoundBlock)
  PROVE  FirstRow \in Nat
<1>1. CASE found = <<>>
  BY <1>1 DEF FirstRow
<1>2. CASE found # <<>>
  <2>1. PICK S : S = FoundBlock
    OBVIOUS
  <2>2. found \in Seq(S)
    BY <2>1
  <2>3. PICK n \in Nat : n = Len(found)
    BY <2>2
  <2>4. n \in 1 .. n
    BY <1>2, <2>2, <2>3
  <2>5. PICK b : b = found[n] /\ b \in S
    BY <2>2, <2>3, <2>4
  <2>6. Last(found) = b
    BY <2>3, <2>5 DEF Last
  <2>7. b.first \in Nat /\ b.rows \in Nat
    BY <2>1, <2>5 DEF FoundBlock
  <2>8. FirstRow = b.first + b.rows
    BY <1>2, <2>6 DEF FirstRow
  <2>9. QED
    BY <2>7, <2>8
<1>3. QED
  BY <1>1, <1>2

\* One more block found.
LEMMA FoundMore ==
  ASSUME NEW m, NEW d, NEW x, GoodMetas(m), GoodData(d), AtBlock(m, d, x),
         found \in Seq(FoundBlock), Good(d, x) \in 0 .. Len(d), Len(found) < Good(d, x),
         NEW b \in FoundBlock, b.rows = d[Len(found) + 1].rows, b.byte = offset,
         b.size = DataEnd(m, d, Len(found) + 1) - offset,
         bytes' = bytes, start' = start, found' = Append(found, b),
         offset' = DataEnd(m, d, Len(found) + 1), DataEnd(m, d, Len(found) + 1) <= Len(bytes)
  PROVE  AtBlock(m, d, x)' /\ found' \in Seq(FoundBlock)
<1>1. PICK S, f : S = FoundBlock /\ f = found
  OBVIOUS
<1>2. PICK n \in Nat : n = Len(f)
  BY <1>1
<1>3. PICK g \in Nat : g = Good(d, x) /\ n < g
  BY <1>1, <1>2
<1>4. f \in Seq(S) /\ b \in S
  BY <1>1
<1>5. PICK e : e = Append(f, b)
  OBVIOUS
<1>6. /\ e \in Seq(S) /\ Len(e) = n + 1 /\ e[n + 1] = b
      /\ \A i \in 1 .. n : e[i] = f[i]
  BY <1>2, <1>4, <1>5
<1>7. found' = e
  BY <1>1, <1>5
<1>8. PICK j : j = n + 1 /\ j - 1 = n /\ j \in 0 .. g
  <2>1. (n + 1) - 1 = n /\ n + 1 \in 0 .. g
    BY <1>3
  <2>2. QED
    BY <2>1
<1>9. /\ x.kind # "count" /\ start = HeadLen(m) /\ start <= Len(bytes)
      /\ \A i \in 1 .. n : /\ f[i].rows = d[i].rows
                           /\ f[i].byte = DataEnd(m, d, i - 1)
                           /\ f[i].size = DataEnd(m, d, i) - DataEnd(m, d, i - 1)
      /\ offset = DataEnd(m, d, n)
  BY <1>1, <1>2 DEF AtBlock
<1>10. ASSUME NEW i \in 1 .. j
       PROVE  /\ e[i].rows = d[i].rows
              /\ e[i].byte = DataEnd(m, d, i - 1)
              /\ e[i].size = DataEnd(m, d, i) - DataEnd(m, d, i - 1)
  <2>1. CASE i = j
    <3>1. e[i] = b /\ i - 1 = n
      BY <1>6, <1>8, <2>1
    <3>2. /\ b.rows = d[j].rows /\ b.byte = DataEnd(m, d, n)
          /\ b.size = DataEnd(m, d, j) - DataEnd(m, d, n)
      BY <1>1, <1>2, <1>8, <1>9
    <3>3. QED
      BY <2>1, <3>1, <3>2
  <2>2. CASE i # j
    <3>1. i \in 1 .. n
      BY <1>8, <2>2
    <3>2. QED
      BY <1>6, <1>9, <3>1
  <2>3. QED
    BY <2>1, <2>2
<1>11. Len(e) = j
  BY <1>6, <1>8
<1>12. offset' = DataEnd(m, d, j) /\ DataEnd(m, d, j) <= Len(bytes)
  BY <1>1, <1>2, <1>8
<1>13. AtBlock(m, d, x)'
  BY <1>3, <1>7, <1>8, <1>9, <1>10, <1>11, <1>12 DEF AtBlock
<1>14. QED
  BY <1>1, <1>6, <1>7, <1>13

\* A turn of the inspector.
LEMMA FindStep ==
  ASSUME NEW m, NEW d, NEW x, AvroTypeOK, Legit(m, d, x), Spot(m, d, x), FindBlock
  PROVE  AvroTypeOK' /\ Spot(m, d, x)'
<1>1. GoodMetas(m) /\ GoodData(d) /\ Laid(m, d, x, bytes) /\ bytes \in Seq(Nat)
      /\ x.kind \in {"none", "cut", "marker", "rows", "size", "count"}
  BY LegitFacts
<1>2. part = "data"
  BY DEF FindBlock
<1>3. AtBlock(m, d, x)
  BY <1>2 DEF Spot
<1>4. Digit(start - 1, 0) = Marker
  BY <1>3, MarkerAt
<1>5. /\ bytes' = bytes
      /\ ReadLong(offset).end => part' = "done" /\ UNCHANGED <<offset, left, start, found>>
      /\ (~ReadLong(offset).end /\ Refused(offset)) => Fail
      /\ (~ReadLong(offset).end /\ ~Refused(offset)) =>
           /\ found' = Append(found, [first |-> FirstRow, rows |-> ReadLong(offset).value,
                                      byte |-> offset, size |-> EndFrom(offset) + 1 - offset])
           /\ offset' = EndFrom(offset) + 1
           /\ UNCHANGED <<left, start, part>>
  BY <1>4, Turn
<1>6. ASSUME ReadLong(offset).end, x.kind \in {"none", "cut"}, offset = Len(bytes)
      PROVE  AvroTypeOK' /\ Spot(m, d, x)'
  <2>1. part' = "done" /\ UNCHANGED <<offset, left, start, found>>
    BY <1>5, <1>6
  <2>2. AvroTypeOK'
    BY <2>1 DEF AvroTypeOK
  <2>3. AtBlock(m, d, x)'
    BY <1>3, <1>5, <2>1 DEF AtBlock
  <2>4. QED
    BY <1>5, <1>6, <2>1, <2>2, <2>3 DEF Spot
<1>7. PICK p \in Nat : p = offset /\ p <= Len(bytes)
  BY <1>3 DEF AtBlock, AvroTypeOK
<1>8. CASE x.kind = "none" /\ offset = Len(bytes)
  <2>1. ReadLong(offset).end
    BY <1>7, <1>8, ReadEnd
  <2>2. QED
    BY <1>6, <1>8, <2>1
<1>9. CASE x.kind \notin {"none", "cut"} /\ BadLies(offset, bytes)
  <2>1. PICK r \in MinLong .. MaxLong, s \in MinLong .. MaxLong, f \in Nat, k \in Nat :
              Refusable(r, s, f, k) /\ LiesIn(BlockBytes(r, s, f, k), p, bytes)
    BY <1>7, <1>9 DEF BadLies
  <2>2. p < Len(bytes)
    BY <1>7, <1>9 DEF BadLies
  <2>3. Lies(BlockBytes(r, s, f, k), p)
    BY <2>1 DEF Lies
  <2>4. ~ReadLong(p).end /\ Refused(p)
    BY <1>1, <2>1, <2>2, <2>3, BlockRead
  <2>5. Fail
    BY <1>5, <1>7, <2>4
  <2>6. QED
    BY <1>9, <2>5, FailStep
<1>10. CASE /\ Len(found) < Good(d, x)
            /\ Lies(DataBlock(d[Len(found) + 1]), offset)
            /\ x.kind \notin {"none", "cut"} => offset < Len(bytes)
            /\ x.kind = "none" => DataEnd(m, d, Len(found) + 1) <= Len(bytes)
  <2>1. PICK l \in Nat : l = Len(d)
    BY <1>1 DEF GoodData
  <2>2. PICK g \in Nat : g = Good(d, x) /\ g \in 0 .. l
    BY <1>1, <1>3, <2>1 DEF Laid, AtBlock
  <2>3. PICK n \in Nat : n = Len(found) /\ n < g
    BY <1>3, <1>10, <2>2 DEF AtBlock
  <2>4. PICK j : j = n + 1 /\ j \in 1 .. l /\ n \in 0 .. Len(d) - 1
    BY <2>1, <2>2, <2>3
  <2>5. PICK b : b = d[j] /\ b.rows \in 1 .. MaxLong /\ b.size \in 0 .. MaxLong
    BY <1>1, <2>1, <2>4 DEF GoodData
  <2>6. /\ b.rows \in MinLong .. MaxLong /\ b.size \in MinLong .. MaxLong /\ b.size \in Nat
        /\ DataBlock(b) = BlockBytes(b.rows, b.size, b.size, Marker) /\ DataBlock(b) \in Seq(Nat)
    BY <2>5, DataBlockIs
  <2>7. PICK r, s, k, z : r = b.rows /\ s = b.size /\ k = Marker /\ z = Len(DataBlock(b))
    OBVIOUS
  <2>8. /\ r \in MinLong .. MaxLong /\ s \in MinLong .. MaxLong /\ s \in Nat /\ k \in Nat
        /\ r \in Nat \ {0} /\ r > 0 /\ z = Len(BlockBytes(r, s, s, k)) /\ z \in Nat
    <3>1. r \in 1 .. MaxLong /\ MaxLong \in Nat
      BY <2>5, <2>7, LongBounds
    <3>2. z \in Nat
      BY <2>6, <2>7
    <3>3. QED
      BY <2>6, <2>7, <3>1, <3>2 DEF Marker
  <2>9. Lies(BlockBytes(r, s, s, k), p)
    BY <1>7, <1>10, <2>3, <2>4, <2>5, <2>6, <2>7
  <2>10. /\ p >= Len(bytes) => ReadLong(p).end
         /\ p < Len(bytes) => ~ReadLong(p).end
         /\ p + z > Len(bytes) => Refused(p)
         /\ p + z <= Len(bytes) =>
              /\ ~Refused(p) /\ ReadLong(p).value = r
              /\ EndFrom(p) \in Nat /\ EndFrom(p) + 1 = p + z
    <3>1. PICK f : f = s /\ f \in Nat
      BY <2>8
    <3>2. Lies(BlockBytes(r, s, f, k), p)
      BY <2>9, <3>1
    <3>3. /\ p >= Len(bytes) => ReadLong(p).end
          /\ p < Len(bytes) => ~ReadLong(p).end
      BY <1>1, <2>8, <3>1, <3>2, BlockRead
    <3>4. p + Len(BlockBytes(r, s, f, k)) > Len(bytes) => Refused(p)
      BY <1>1, <2>8, <3>1, <3>2, BlockRead
    <3>5. (s = f /\ r > 0 /\ k = Marker /\ p + Len(BlockBytes(r, s, f, k)) <= Len(bytes)) =>
             /\ ~Refused(p) /\ ReadLong(p).value = r
             /\ EndFrom(p) \in Nat /\ EndFrom(p) + 1 = p + Len(BlockBytes(r, s, f, k))
      BY <1>1, <2>8, <3>2, <3>1, BlockRead
    <3>6. p + z <= Len(bytes) =>
            /\ ~Refused(p) /\ ReadLong(p).value = r
            /\ EndFrom(p) \in Nat /\ EndFrom(p) + 1 = p + z
      BY <2>7, <2>8, <3>1, <3>5
    <3>7. p + z > Len(bytes) => Refused(p)
      BY <2>8, <3>1, <3>4
    <3>8. QED
      BY <3>3, <3>6, <3>7
  <2>11. DataEnd(m, d, j) = p + z
    <3>1. DataEnd(m, d, n + 1) = DataEnd(m, d, n) + Len(DataBlock(d[n + 1]))
      BY <1>1, <2>4, DataEnds
    <3>2. p = DataEnd(m, d, n)
      BY <1>3, <1>7, <2>3 DEF AtBlock
    <3>3. QED
      BY <2>4, <2>5, <2>7, <3>1, <3>2
  <2>12. CASE p >= Len(bytes)
    <3>1. p = Len(bytes) /\ ~(p < Len(bytes))
      BY <1>1, <1>7, <2>12
    <3>2. x.kind \in {"none", "cut"}
      BY <1>7, <1>10, <3>1
    <3>3. QED
      BY <1>6, <1>7, <2>10, <2>12, <3>1, <3>2
  <2>13. CASE p < Len(bytes) /\ p + z > Len(bytes)
    <3>1. Fail
      BY <1>5, <1>7, <2>10, <2>13
    <3>2. x.kind # "none"
      <4>1. SUFFICES ASSUME x.kind = "none" PROVE FALSE
        OBVIOUS
      <4>2. p + z <= Len(bytes)
        BY <1>10, <2>3, <2>4, <2>11, <4>1
      <4>3. QED
        BY <1>1, <2>8, <2>13, <4>2
    <3>3. QED
      BY <3>1, <3>2, FailStep
  <2>14. CASE p < Len(bytes) /\ p + z <= Len(bytes)
    <3>1. /\ ~ReadLong(p).end /\ ~Refused(p) /\ ReadLong(p).value = r
          /\ EndFrom(p) \in Nat /\ EndFrom(p) + 1 = p + z
      BY <2>10, <2>14
    <3>2. PICK c : c = [first |-> FirstRow, rows |-> r, byte |-> p, size |-> (p + z) - p]
      OBVIOUS
    <3>3. /\ found' = Append(found, c) /\ offset' = p + z /\ UNCHANGED <<left, start, part>>
      <4>1. c = [first |-> FirstRow, rows |-> ReadLong(offset).value, byte |-> offset,
                 size |-> EndFrom(offset) + 1 - offset]
        <5>1. EndFrom(offset) + 1 - offset = (p + z) - p
          BY <1>7, <2>8, <3>1
        <5>2. ReadLong(offset).value = r /\ offset = p
          BY <1>7, <3>1
        <5>3. QED
          BY <3>2, <5>1, <5>2
      <4>2. ~ReadLong(offset).end /\ ~Refused(offset) /\ EndFrom(offset) + 1 = p + z
        BY <1>7, <3>1
      <4>3. QED
        BY <1>5, <4>1, <4>2
    <3>4. found \in Seq(FoundBlock)
      BY DEF AvroTypeOK, FoundBlock
    <3>5. c.rows = r /\ c.byte = p /\ c.size = (p + z) - p /\ c \in FoundBlock
      <4>1. (p + z) - p \in Nat /\ FirstRow \in Nat
        BY <2>8, <3>4, FirstRowTyped
      <4>2. QED
        BY <2>8, <3>2, <4>1 DEF FoundBlock
    <3>6. /\ c.rows = d[Len(found) + 1].rows /\ c.byte = offset
          /\ c.size = DataEnd(m, d, Len(found) + 1) - offset
          /\ offset' = DataEnd(m, d, Len(found) + 1)
          /\ DataEnd(m, d, Len(found) + 1) <= Len(bytes)
      BY <1>7, <2>3, <2>4, <2>5, <2>7, <2>11, <2>14, <3>3, <3>5
    <3>7. Good(d, x) \in 0 .. Len(d) /\ Len(found) < Good(d, x)
      BY <2>1, <2>2, <2>3
    <3>8. AtBlock(m, d, x)' /\ found' \in Seq(FoundBlock)
      BY <1>1, <1>3, <1>5, <3>3, <3>4, <3>5, <3>6, <3>7, FoundMore
    <3>9. AvroTypeOK'
      <4>1. p + z \in Nat
        BY <2>8
      <4>2. QED
        BY <3>3, <3>8, <4>1 DEF AvroTypeOK, FoundBlock
    <3>10. QED
      BY <1>2, <3>3, <3>8, <3>9 DEF Spot
  <2>15. QED
    BY <1>1, <1>7, <2>8, <2>12, <2>13, <2>14
<1>11. QED
  BY <1>3, <1>8, <1>9, <1>10, BlockCases

\* The inspector has not begun.
LEMMA AvroStarts == AvroInit => AvroInv
<1>1. SUFFICES ASSUME AvroInit PROVE AvroInv
  OBVIOUS
<1>2. PICK m \in Metadata, d \in Data : \E x \in Damages(m, d) :
               /\ avro  = [metadata |-> m, data |-> d, damage |-> x]
               /\ bytes = Damaged(m, d, x)
  BY <1>1 DEF AvroInit
<1>3. PICK x \in Damages(m, d) : /\ avro  = [metadata |-> m, data |-> d, damage |-> x]
                                 /\ bytes = Damaged(m, d, x)
  BY <1>2
<1>4. avro.metadata = m /\ avro.data = d /\ avro.damage = x
  BY <1>3
<1>5. Legit(m, d, x)
  BY <1>3 DEF Legit
<1>6. offset = 0 /\ left = 0 /\ start = 0 /\ found = <<>> /\ part = "magic"
  BY <1>1 DEF AvroInit, AvroStart
<1>7. AvroTypeOK
  BY <1>6, LongBounds DEF AvroTypeOK
<1>8. Spot(m, d, x)
  BY <1>6 DEF Spot
<1>9. QED
  BY <1>4, <1>5, <1>7, <1>8 DEF AvroInv

\* Every step of the inspector keeps the invariant.
LEMMA AvroStep ==
  ASSUME AvroInv, [AvroNext]_avroVars
  PROVE  AvroInv'
<1>1. PICK m, d, x : m = avro.metadata /\ d = avro.data /\ x = avro.damage
  OBVIOUS
<1>2. AvroTypeOK /\ Legit(m, d, x) /\ Spot(m, d, x)
  BY <1>1 DEF AvroInv
<1>3. avro' = avro /\ bytes' = bytes
  BY DEF AvroNext, avroVars, ReadMagic, EndHeader, ReadCount, SkipEntry, EndEntries, FindBlock
<1>4. AvroTypeOK' /\ Spot(m, d, x)'
  <2>1. CASE ReadMagic
    BY <1>2, <2>1, MagicStep
  <2>2. CASE EndHeader
    BY <1>2, <2>2, EndHeaderStep
  <2>3. CASE ReadCount
    BY <1>2, <2>3, CountStep
  <2>4. CASE SkipEntry
    BY <1>2, <2>4, SkipStep
  <2>5. CASE EndEntries
    BY <1>2, <2>5, EndEntriesStep
  <2>6. CASE FindBlock
    BY <1>2, <2>6, FindStep
  <2>7. CASE UNCHANGED avroVars
    <3>1. /\ offset' = offset /\ left' = left /\ start' = start /\ found' = found /\ part' = part
          /\ bytes' = bytes
      BY <2>7 DEF avroVars
    <3>2. AvroTypeOK'
      BY <1>2, <3>1 DEF AvroTypeOK
    <3>3. /\ AtCount(m, x) => AtCount(m, x)'
          /\ AtEntry(m, x) => AtEntry(m, x)'
          /\ AtBlock(m, d, x) => AtBlock(m, d, x)'
      BY <3>1 DEF AtCount, AtEntry, AtBlock
    <3>4. Spot(m, d, x)'
      BY <1>2, <3>1, <3>3 DEF Spot
    <3>5. QED
      BY <3>2, <3>4
  <2>8. QED
    BY <2>1, <2>2, <2>3, <2>4, <2>5, <2>6, <2>7 DEF AvroNext
<1>5. Legit(m, d, x)'
  BY <1>2, <1>3 DEF Legit
<1>6. m = avro'.metadata /\ d = avro'.data /\ x = avro'.damage
  BY <1>1, <1>3
<1>7. QED
  BY <1>4, <1>5, <1>6 DEF AvroInv

\* It is always true.
LEMMA AvroHolds == AvroSpec => []AvroInv
BY AvroStarts, AvroStep, PTL DEF AvroSpec

\* The inspector keeps its types: what it has found are blocks with rows, at a
\* place and of a size, and no metadata block has more entries than a long holds
\* (avro.rs).
THEOREM AvroTyped == AvroSpec => []AvroTypeOK
<1>1. AvroInv => AvroTypeOK
  BY DEF AvroInv
<1>2. QED
  BY <1>1, AvroHolds, PTL

\* One sequence behind another is cut off it.
LEMMA JoinCut ==
  ASSUME NEW a \in Seq(Nat), NEW b \in Seq(Nat)
  PROVE  /\ SubSeq(a \o b, 1, Len(a)) = a
         /\ SubSeq(a \o b, Len(a) + 1, Len(a \o b)) = b
<1>1. PICK n \in Nat, k \in Nat : n = Len(a) /\ k = Len(b)
  OBVIOUS
<1>2. PICK c : c = a \o b
  OBVIOUS
<1>3. /\ c \in Seq(Nat) /\ Len(c) = n + k
      /\ \A i \in 1 .. n : c[i] = a[i]
      /\ \A i \in 1 .. k : c[n + i] = b[i]
  BY <1>1, <1>2
<1>4. SubSeq(c, 1, n) = a
  <2>1. n \in 0 .. Len(c)
    BY <1>3
  <2>2. /\ SubSeq(c, 1, n) \in Seq(Nat) /\ Len(SubSeq(c, 1, n)) = n
        /\ \A i \in 1 .. n : SubSeq(c, 1, n)[i] = c[i]
    BY <1>3, <2>1, CutFacts
  <2>3. QED
    BY <1>1, <1>3, <2>2
<1>5. SubSeq(c, n + 1, n + k) = b
  <2>1. SubSeq(c, n + 1, n + k) = [i \in 1 .. ((n + k) - (n + 1)) + 1 |-> c[((n + 1) + i) - 1]]
    BY <1>3
  <2>2. ((n + k) - (n + 1)) + 1 = k
    OBVIOUS
  <2>3. \A i \in 1 .. k : ((n + 1) + i) - 1 = n + i
    OBVIOUS
  <2>4. SubSeq(c, n + 1, n + k) = [i \in 1 .. k |-> b[i]]
    BY <1>3, <2>1, <2>2, <2>3
  <2>5. b = [i \in 1 .. k |-> b[i]]
    BY <1>1
  <2>6. QED
    BY <2>4, <2>5
<1>6. QED
  BY <1>1, <1>2, <1>3, <1>4, <1>5

\* The blocks end one after another.
LEMMA EndsStrict ==
  ASSUME NEW m, GoodMetas(m), NEW d, GoodData(d), NEW n \in 0 .. Len(d), NEW k \in 0 .. Len(d),
         DataEnd(m, d, n) <= DataEnd(m, d, k)
  PROVE  n <= k
<1>1. SUFFICES ASSUME n > k PROVE FALSE
  OBVIOUS
<1>2. PICK l \in Nat : l = Len(d)
  BY DEF GoodData
<1>3. PICK j : j = k + 1 /\ j \in 1 .. Len(d) /\ j \in 0 .. Len(d) /\ k \in 0 .. Len(d) - 1 /\ j <= n
  <2>1. k + 1 \in 1 .. l /\ k + 1 \in 0 .. l /\ k \in 0 .. l - 1 /\ k + 1 <= n
    BY <1>1, <1>2
  <2>2. QED
    BY <1>2, <2>1
<1>4. DataEnd(m, d, k + 1) = DataEnd(m, d, k) + Len(DataBlock(d[k + 1]))
  BY <1>3, DataEnds
<1>5. Len(DataBlock(d[j])) \in Nat /\ Len(DataBlock(d[j])) >= 1
  BY <1>3, DataEnds
<1>6. DataEnd(m, d, j) <= DataEnd(m, d, n)
  BY <1>3, DataEnds
<1>7. DataEnd(m, d, n) \in Nat /\ DataEnd(m, d, k) \in Nat /\ DataEnd(m, d, j) \in Nat
  BY <1>3, DataEnds
<1>8. QED
  BY <1>3, <1>4, <1>5, <1>6, <1>7

\* Where the written blocks end.
LEMMA EndOfIs ==
  ASSUME NEW m, NEW d, NEW x, Legit(m, d, x), m = avro.metadata, d = avro.data
  PROVE  \A n \in 0 .. Len(d) : EndOf(n) = DataEnd(m, d, n)
<1>1. GoodMetas(m) /\ GoodData(d)
  BY LegitFacts
<1>2. ASSUME NEW n \in 0 .. Len(d) PROVE EndOf(n) = DataEnd(m, d, n)
  <2>1. PICK h, b : h = Header(m) /\ b = JoinedUpTo(BlockSeq(d), n)
    OBVIOUS
  <2>2. /\ Whole(m, SubSeq(d, 1, n)) = h \o b
        /\ h \in Seq(Nat) /\ Len(h) = HeadLen(m) /\ b \in Seq(Nat)
    BY <1>1, <2>1, WholeIs
  <2>3. Len(h \o b) = Len(h) + Len(b)
    BY <2>2, JoinTyped
  <2>4. EndOf(n) = Len(Whole(m, SubSeq(d, 1, n)))
    BY DEF EndOf
  <2>5. QED
    BY <2>1, <2>2, <2>3, <2>4 DEF DataEnd
<1>3. QED
  BY <1>2

\* The last element.
LEMMA GreatestIs ==
  ASSUME NEW S, NEW n \in Nat, n \in S, \A k \in S : k \in Nat /\ k <= n
  PROVE  Max(S) = n
<1>1. \A k \in S : n >= k
  OBVIOUS
<1>2. Max(S) \in S /\ \A k \in S : Max(S) >= k
  BY <1>1 DEF Max
<1>3. Max(S) \in Nat /\ Max(S) >= n /\ Max(S) <= n
  BY <1>2
<1>4. QED
  BY <1>3

\* The inspector ends behind the last block that was kept.
LEMMA KeptIs ==
  ASSUME NEW m, NEW d, NEW x, Legit(m, d, x), m = avro.metadata, d = avro.data, x = avro.damage,
         Spot(m, d, x), part = "done"
  PROVE  Kept = Len(found) /\ Len(found) \in 0 .. Len(d)
<1>1. /\ GoodMetas(m) /\ GoodData(d) /\ Laid(m, d, x, bytes) /\ bytes \in Seq(Nat)
      /\ \A n \in 0 .. Len(d) : EndOf(n) = DataEnd(m, d, n)
  BY LegitFacts, EndOfIs
<1>2. AtBlock(m, d, x) /\ x.kind \in {"none", "cut"} /\ offset = Len(bytes)
  BY DEF Spot
<1>3. PICK l \in Nat : l = Len(d)
  BY <1>1 DEF GoodData
<1>4. Good(d, x) = l
  BY <1>2, <1>3 DEF Good
<1>5. PICK n \in Nat : n = Len(found) /\ n \in 0 .. l /\ Len(bytes) = DataEnd(m, d, n)
  <2>1. Len(found) \in 0 .. l /\ Len(bytes) = DataEnd(m, d, Len(found))
    BY <1>2, <1>4 DEF AtBlock
  <2>2. Len(found) \in Nat
    BY <2>1
  <2>3. QED
    BY <2>1, <2>2
<1>6. \A k \in 0 .. l : DataEnd(m, d, k) <= DataEnd(m, d, n) => k <= n
  BY <1>1, <1>3, <1>5, EndsStrict
<1>7. DOMAIN d = 1 .. l
  BY <1>1, <1>3 DEF GoodData
<1>8. CASE x.kind = "none"
  <2>1. Len(bytes) = DataEnd(m, d, l) /\ l \in 0 .. l
    BY <1>1, <1>3, <1>8 DEF Laid
  <2>2. DataEnd(m, d, l) <= DataEnd(m, d, n)
    <3>1. DataEnd(m, d, n) \in Nat
      BY <1>1, <1>3, <1>5, DataEnds
    <3>2. QED
      BY <1>5, <2>1, <3>1
  <2>3. n = l
    BY <1>5, <1>6, <2>1, <2>2
  <2>4. Kept = l
    BY <1>3, <1>8 DEF Kept
  <2>5. QED
    BY <1>3, <1>5, <2>3, <2>4
<1>9. CASE x.kind = "cut"
  <2>1. PICK S : S = {0} \cup {k \in DOMAIN d : EndOf(k) <= Len(bytes)}
    OBVIOUS
  <2>2. Kept = Max(S)
    BY <1>9, <2>1 DEF Kept
  <2>3. n \in S
    <3>1. CASE n = 0
      BY <2>1, <3>1
    <3>2. CASE n # 0
      <4>1. n \in 1 .. l /\ EndOf(n) = Len(bytes)
        BY <1>1, <1>3, <1>5, <3>2
      <4>2. EndOf(n) <= Len(bytes)
        BY <1>1, <4>1
      <4>3. QED
        BY <1>7, <2>1, <4>1, <4>2
    <3>3. QED
      BY <3>1, <3>2
  <2>4. \A k \in S : k \in Nat /\ k <= n
    <3>1. SUFFICES ASSUME NEW k \in S PROVE k \in Nat /\ k <= n
      OBVIOUS
    <3>2. k = 0 \/ (k \in 1 .. l /\ EndOf(k) <= Len(bytes))
      BY <1>7, <2>1
    <3>3. k \in 0 .. l
      BY <3>2
    <3>4. QED
      BY <1>1, <1>3, <1>5, <1>6, <3>2, <3>3
  <2>5. Max(S) = n
    BY <2>3, <2>4, GreatestIs
  <2>6. QED
    BY <1>3, <1>5, <2>2, <2>5
<1>10. QED
  BY <1>2, <1>8, <1>9

\* A file of some of the blocks.
PartWhole(m, d, n, k) ==
  Whole(m, SubSeq(d, n + 1, k)) = Header(m) \o FlattenSeq(SubSeq(BlockSeq(d), n + 1, k))

\* A header and the blocks from the n-th to the k-th.
LEMMA PartIs ==
  ASSUME NEW m, GoodMetas(m), NEW d, GoodData(d), NEW n \in Nat, NEW k \in 0 .. Len(d), n <= k
  PROVE  /\ PartWhole(m, d, n, k)
         /\ FlattenSeq(SubSeq(BlockSeq(d), n + 1, k)) \in Seq(Nat)
         /\ JoinedUpTo(BlockSeq(d), k)
              = JoinedUpTo(BlockSeq(d), n) \o FlattenSeq(SubSeq(BlockSeq(d), n + 1, k))
<1>0. PICK q : q = BlockSeq(d)
  OBVIOUS
<1>1. PICK l \in Nat : /\ l = Len(d) /\ q = BlockSeq(d) /\ q \in Seq(Seq(Nat)) /\ Len(q) = l
                       /\ \A i \in 1 .. l : q[i] = DataBlock(d[i])
  BY <1>0, BlockSeqTyped
<1>2. d = [i \in 1 .. l |-> d[i]]
  BY <1>1 DEF GoodData
<1>3. PICK S : S = {d[i] : i \in 1 .. l}
  OBVIOUS
<1>4. d \in Seq(S)
  BY <1>1, <1>2, <1>3
<1>5. k \in Nat /\ k <= l
  BY <1>1
<1>6. PICK z \in Nat : z = k - n /\ (k - (n + 1)) + 1 = z /\ n + z = k
  BY <1>5
<1>7. PICK e, c : e = SubSeq(d, n + 1, k) /\ c = SubSeq(q, n + 1, k)
  OBVIOUS
<1>8. e = [i \in 1 .. z |-> d[((n + 1) + i) - 1]]
  BY <1>4, <1>5, <1>6, <1>7
<1>9. c = [i \in 1 .. z |-> q[((n + 1) + i) - 1]]
  <2>1. PICK T : T = Seq(Nat)
    OBVIOUS
  <2>2. q \in Seq(T)
    BY <1>1, <2>1
  <2>3. QED
    BY <1>5, <1>6, <1>7, <2>2
<1>10. \A i \in 1 .. z : ((n + 1) + i) - 1 \in 1 .. l
  BY <1>5, <1>6
<1>11. \A i \in 1 .. z : c[i] = DataBlock(e[i])
  <2>1. SUFFICES ASSUME NEW i \in 1 .. z PROVE c[i] = DataBlock(e[i])
    OBVIOUS
  <2>2. PICK j : j = ((n + 1) + i) - 1 /\ j \in 1 .. l
    BY <1>10
  <2>3. c[i] = q[j] /\ e[i] = d[j]
    BY <1>8, <1>9, <2>2
  <2>4. QED
    BY <1>1, <2>2, <2>3
<1>12. [i \in DOMAIN e |-> DataBlock(e[i])] = c
  <2>1. DOMAIN e = 1 .. z
    BY <1>8
  <2>2. c = [i \in 1 .. z |-> c[i]]
    BY <1>9
  <2>3. QED
    BY <1>11, <2>1, <2>2
<1>13. Whole(m, e) = Header(m) \o FlattenSeq(c)
  BY <1>12 DEF Whole, Blocks
<1>14. /\ FlattenSeq(SubSeq(q, n + 1, k)) \in Seq(Nat)
       /\ JoinedUpTo(q, k) = JoinedUpTo(q, n) \o FlattenSeq(SubSeq(q, n + 1, k))
  <2>1. k \in 0 .. Len(q)
    BY <1>1
  <2>2. FlattenSeq(SubSeq(q, n + 1, k)) \in Seq(Nat)
    BY <1>1, <2>1, FlatSplit
  <2>3. JoinedUpTo(q, k) = JoinedUpTo(q, n) \o FlattenSeq(SubSeq(q, n + 1, k))
    BY <1>1, <2>1, FlatSplit
  <2>4. QED
    BY <2>2, <2>3
<1>15. PartWhole(m, d, n, k)
  BY <1>0, <1>7, <1>13 DEF PartWhole
<1>16. QED
  BY <1>0, <1>14, <1>15

\* What is handed on for the blocks after the n-th.
LEMMA StreamIs ==
  ASSUME NEW m, NEW d, NEW x, Legit(m, d, x), Spot(m, d, x), part = "done",
         NEW k \in 0 .. Len(d), k = Len(found), NEW n \in 0 .. k
  PROVE  StreamFrom(DataEnd(m, d, n)) = Whole(m, SubSeq(d, n + 1, k))
<1>1. GoodMetas(m) /\ GoodData(d) /\ Laid(m, d, x, bytes) /\ bytes \in Seq(Nat)
  BY LegitFacts
<1>2. AtBlock(m, d, x) /\ x.kind \in {"none", "cut"} /\ offset = Len(bytes)
  BY DEF Spot
<1>3. PICK l \in Nat : l = Len(d)
  BY <1>1 DEF GoodData
<1>4. start = HeadLen(m) /\ Len(bytes) = DataEnd(m, d, k)
  BY <1>2 DEF AtBlock
<1>5. PICK h, a, b, r : /\ h = Header(m) /\ a = JoinedUpTo(BlockSeq(d), n)
                        /\ b = FlattenSeq(SubSeq(BlockSeq(d), n + 1, k))
                        /\ r = FlattenSeq(SubSeq(BlockSeq(d), k + 1, l))
  OBVIOUS
<1>6. n \in Nat /\ k \in Nat /\ n <= k /\ k <= l /\ n \in 0 .. l /\ k \in 0 .. l /\ l \in 0 .. l
  BY <1>3
<1>7. h \in Seq(Nat) /\ Len(h) = HeadLen(m) /\ a \in Seq(Nat)
  BY <1>1, <1>3, <1>5, <1>6, WholeIs
<1>8. /\ b \in Seq(Nat) /\ Whole(m, SubSeq(d, n + 1, k)) = h \o b
      /\ JoinedUpTo(BlockSeq(d), k) = a \o b
  <2>1. n \in Nat /\ k \in 0 .. Len(d) /\ n <= k
    BY <1>6
  <2>2. b \in Seq(Nat)
    BY <1>1, <1>5, <2>1, PartIs
  <2>3. Whole(m, SubSeq(d, n + 1, k)) = h \o b
    <3>1. PartWhole(m, d, n, k)
      BY <1>1, <2>1, PartIs
    <3>2. QED
      BY <1>5, <3>1 DEF PartWhole
  <2>4. JoinedUpTo(BlockSeq(d), k) = a \o b
    BY <1>1, <1>5, <2>1, PartIs
  <2>5. QED
    BY <2>2, <2>3, <2>4
<1>9. r \in Seq(Nat) /\ JoinedUpTo(BlockSeq(d), l) = JoinedUpTo(BlockSeq(d), k) \o r
  BY <1>1, <1>3, <1>5, <1>6, PartIs
<1>10. Whole(m, d) = h \o JoinedUpTo(BlockSeq(d), l)
  BY <1>1, <1>3, <1>5, <1>6, WholeIs
<1>11. PICK ab, ha : ab = a \o b /\ ha = h \o a
  OBVIOUS
<1>12. ab \in Seq(Nat) /\ ha \in Seq(Nat) /\ Len(ha) = Len(h) + Len(a)
  BY <1>7, <1>8, <1>11, JoinTyped
<1>13. PICK hab : hab = h \o ab
  OBVIOUS
<1>14. hab \in Seq(Nat) /\ Len(hab) = Len(h) + Len(ab)
  BY <1>7, <1>12, <1>13, JoinTyped
<1>15. Whole(m, d) = hab \o r
  <2>1. (h \o ab) \o r = h \o (ab \o r)
    BY <1>7, <1>9, <1>12, JoinMore
  <2>2. QED
    BY <1>8, <1>9, <1>10, <1>11, <1>13, <2>1
<1>16. Len(bytes) = Len(hab)
  BY <1>4, <1>5, <1>7, <1>8, <1>11, <1>14 DEF DataEnd
<1>17. bytes = hab
  <2>1. bytes = SubSeq(Whole(m, d), 1, Len(bytes))
    BY <1>1, <1>2 DEF Laid
  <2>2. SubSeq(hab \o r, 1, Len(hab)) = hab
    BY <1>9, <1>14, JoinCut
  <2>3. QED
    BY <1>15, <1>16, <2>1, <2>2
<1>18. SubSeq(bytes, 1, start) = h
  <2>1. SubSeq(h \o ab, 1, Len(h)) = h
    BY <1>7, <1>12, JoinCut
  <2>2. QED
    BY <1>4, <1>7, <1>13, <1>17, <2>1
<1>19. SubSeq(bytes, DataEnd(m, d, n) + 1, Len(bytes)) = b
  <2>1. bytes = ha \o b
    <3>1. (h \o a) \o b = h \o (a \o b)
      BY <1>7, <1>8, JoinMore
    <3>2. QED
      BY <1>11, <1>13, <1>17, <3>1
  <2>2. SubSeq(ha \o b, Len(ha) + 1, Len(ha \o b)) = b
    BY <1>8, <1>12, JoinCut
  <2>3. DataEnd(m, d, n) = Len(ha)
    BY <1>5, <1>7, <1>12 DEF DataEnd
  <2>4. QED
    BY <2>1, <2>2, <2>3
<1>20. StreamFrom(DataEnd(m, d, n)) = h \o b
  BY <1>18, <1>19 DEF StreamFrom
<1>21. QED
  BY <1>8, <1>20

\* Every file is inspected as it was written.
LEMMA AvroInvRight == AvroInv => AvroBlocksRight
<1>1. SUFFICES ASSUME AvroInv PROVE AvroBlocksRight
  OBVIOUS
<1>2. PICK m, d, x : m = avro.metadata /\ d = avro.data /\ x = avro.damage
  OBVIOUS
<1>3. Legit(m, d, x) /\ Spot(m, d, x)
  BY <1>1, <1>2 DEF AvroInv
<1>4. WholeFilesPass
  BY <1>2, <1>3 DEF Spot, WholeFilesPass
<1>5. ASSUME part = "done" PROVE BlocksFound /\ DamageRefused /\ StreamsWhole
  <2>1. GoodMetas(m) /\ GoodData(d) /\ Laid(m, d, x, bytes) /\ bytes \in Seq(Nat)
    BY <1>3, LegitFacts
  <2>2. Kept = Len(found) /\ Len(found) \in 0 .. Len(d)
    BY <1>2, <1>3, <1>5, KeptIs
  <2>3. \A n \in 0 .. Len(d) : EndOf(n) = DataEnd(m, d, n)
    BY <1>2, <1>3, EndOfIs
  <2>4. AtBlock(m, d, x) /\ x.kind \in {"none", "cut"} /\ offset = Len(bytes)
    BY <1>3, <1>5 DEF Spot
  <2>5. PICK k \in 0 .. Len(d) : k = Len(found) /\ k = Kept
    BY <2>2
  <2>6. PICK l \in Nat : l = Len(d)
    BY <2>1 DEF GoodData
  <2>7. /\ \A n \in 1 .. k : /\ found[n].rows = d[n].rows
                             /\ found[n].byte = DataEnd(m, d, n - 1)
                             /\ found[n].size = DataEnd(m, d, n) - DataEnd(m, d, n - 1)
        /\ Len(bytes) = DataEnd(m, d, k)
    BY <2>4, <2>5 DEF AtBlock
  <2>8. \A n \in 1 .. k : n \in 0 .. Len(d) /\ n - 1 \in 0 .. Len(d)
    BY <2>6
  <2>9. BlocksFound
    <3>1. DOMAIN found = 1 .. k
      <4>1. PICK S : S = [first: Nat, rows: Nat \ {0}, byte: Nat, size: Nat]
        OBVIOUS
      <4>2. found \in Seq(S)
        BY <1>1, <4>1 DEF AvroInv, AvroTypeOK
      <4>3. DOMAIN found = 1 .. Len(found)
        BY <4>2
      <4>4. QED
        BY <2>5, <4>3
    <3>2. \A n \in 1 .. k : /\ found[n].rows = avro.data[n].rows
                            /\ found[n].byte = EndOf(n - 1)
                            /\ found[n].size = EndOf(n) - EndOf(n - 1)
      BY <1>2, <2>3, <2>7, <2>8
    <3>3. QED
      BY <2>2, <3>1, <3>2 DEF BlocksFound
  <2>10. DamageRefused
    <3>1. Len(bytes) = EndOf(Kept)
      BY <2>3, <2>5, <2>7
    <3>2. QED
      BY <1>2, <2>4, <3>1 DEF DamageRefused
  <2>11. StreamsWhole
    <3>1. SUFFICES ASSUME NEW n \in 1 .. Kept + 1
                   PROVE  StreamFrom(IF n > Kept THEN Len(bytes) ELSE found[n].byte)
                            = Whole(avro.metadata, SubSeq(avro.data, n, Kept))
      BY DEF StreamsWhole
    <3>2. PICK i : i = n - 1 /\ i \in 0 .. k /\ i + 1 = n
      <4>1. n - 1 \in 0 .. k /\ (n - 1) + 1 = n
        BY <2>5, <2>6
      <4>2. QED
        BY <4>1
    <3>3. (IF n > Kept THEN Len(bytes) ELSE found[n].byte) = DataEnd(m, d, i)
      <4>1. CASE n > Kept
        <5>1. i = k
          BY <2>5, <2>6, <3>2, <4>1
        <5>2. QED
          BY <2>7, <4>1, <5>1
      <4>2. CASE ~(n > Kept)
        <5>1. n \in 1 .. k
          BY <2>5, <2>6, <4>2
        <5>2. QED
          BY <2>7, <3>2, <4>2, <5>1
      <4>3. QED
        BY <4>1, <4>2
    <3>4. StreamFrom(DataEnd(m, d, i)) = Whole(m, SubSeq(d, i + 1, k))
      BY <1>3, <1>5, <2>5, <3>2, StreamIs
    <3>5. QED
      BY <1>2, <2>5, <3>2, <3>3, <3>4
  <2>12. QED
    BY <2>9, <2>10, <2>11
<1>6. CASE part = "done"
  BY <1>4, <1>5, <1>6 DEF AvroBlocksRight
<1>7. CASE part # "done"
  BY <1>4, <1>7 DEF AvroBlocksRight, BlocksFound, DamageRefused, StreamsWhole
<1>8. QED
  BY <1>6, <1>7

\* Whatever headers and contents are written, whole, cut or damaged, the inspector
\* finds the blocks that were written, at their places and with their rows, refuses
\* what cannot have been written, and what it hands on is an Avro file (avro.rs).
THEOREM AvroBlocksAreRight == AvroSpec => []AvroBlocksRight
BY AvroHolds, AvroInvRight, PTL
-----------------------------------------------------------------------------
(* The five together. *)

\* What is invariant of each, where the behaviour is about it.
SlicesInv ==
  /\ topic = "slice"   => TypeOK /\ SliceInv
  /\ topic = "objects" => ObjectsInv
  /\ topic = "avro"    => AvroInv
  /\ topic = "columns" => ColumnsInv
  /\ GlobalInv

\* A behaviour begins with the invariant of what it is about.
LEMMA SlicesStart == SlicesInit => SlicesInv
<1> SUFFICES ASSUME SlicesInit PROVE SlicesInv
  OBVIOUS
<1>1. /\ topic = "slice"   => Init
      /\ topic = "objects" => ObjectInit
      /\ topic = "avro"    => AvroInit
      /\ topic = "columns" => ProjectionInit
      /\ GlobalInit
  BY DEF SlicesInit
<1>2. topic = "slice" => TypeOK /\ SliceInv
  BY <1>1, InitTypeOK, InitInv
<1>3. topic = "objects" => ObjectsInv
  BY <1>1, ObjectsBegin
<1>4. topic = "avro" => AvroInv
  BY <1>1, AvroStarts
<1>5. topic = "columns" => ColumnsInv
  BY <1>1, ColumnsStart
<1>6. GlobalInv
  BY <1>1, GlobalStart
<1>7. QED
  BY <1>2, <1>3, <1>4, <1>5, <1>6 DEF SlicesInv

\* A step of one leaves the invariants of the others alone.
LEMMA SlicesStep ==
  ASSUME SlicesInv, [SlicesNext]_slicesVars
  PROVE  SlicesInv'
<1>1. topic' = topic
  BY DEF SlicesNext, slicesVars
<1>2. topic = "slice" => [Next]_vars
  BY DEF SlicesNext, slicesVars
<1>3. topic = "objects" => [ObjectNext]_objectVars
  BY DEF SlicesNext, slicesVars
<1>4. topic = "avro" => [AvroNext]_avroVars
  BY DEF SlicesNext, slicesVars
<1>5. topic = "columns" => [ProjectionNext]_projectionVars
  BY DEF SlicesNext, slicesVars
<1>6. [GlobalNext]_globalVars
  BY DEF SlicesNext, slicesVars
<1>7. topic = "slice" => (TypeOK /\ SliceInv)'
  BY <1>2, NextStep DEF SlicesInv
<1>8. topic = "objects" => ObjectsInv'
  BY <1>3, ObjectsStep DEF SlicesInv
<1>9. topic = "avro" => AvroInv'
  BY <1>4, AvroStep DEF SlicesInv
<1>10. topic = "columns" => ColumnsInv'
  BY <1>5, ColumnsStep DEF SlicesInv
<1>11. GlobalInv'
  BY <1>6, GlobalStep DEF SlicesInv
<1>12. QED
  BY <1>1, <1>7, <1>8, <1>9, <1>10, <1>11 DEF SlicesInv

\* Whichever of the five a behaviour is about, it keeps its types (slice.rs,
\* map/ranges.rs, map/model.rs, formats/plugins).
THEOREM SlicesTypesAreRight == SlicesSpec => []SlicesTypeOK
<1>1. SlicesInv => SlicesTypeOK
  BY ColumnsInvTyped DEF SlicesInv, ObjectsInv, AvroInv, GlobalInv, SlicesTypeOK
<1>2. SlicesInv /\ [SlicesNext]_slicesVars => SlicesInv'
  BY SlicesStep
<1>3. QED
  BY <1>1, <1>2, SlicesStart, PTL DEF SlicesSpec
=============================================================================
