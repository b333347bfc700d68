---------------------------- MODULE ThreadsProofs ----------------------------
(***************************************************************************)
(* Proofs about what the threads of a process share: the iterator of a     *)
(* Python program, for any number of callers, batches and calls; the       *)
(* memory budget and the pools, for any number of jobs and files, any      *)
(* budget and any sizes of pools; the progress bar, for any number of      *)
(* workers, files of any size and any throttle.                            *)
(***************************************************************************)
EXTENDS MCThreads, FiniteSetTheorems, TLAPS

(***************************************************************************)
(* The iterator.  The owner of the mutex is the only call that has batches *)
(* in its hands; they are the last that left the source, and come after    *)
(* all that was returned.                                                  *)
(***************************************************************************)

\* The labels at which a call holds the mutex.
Inside == {"locked", "waiting", "pulled", "deliver"}

\* The call has pulled a batch that it has not put anywhere yet.
Fresh(call) == call.pc \in {"pulled", "deliver"} /\ call.item > 0

\* What a call has in its hands.
Hands(call) == Range(call.got) \cup (IF call.item > 0 THEN {call.item} ELSE {})

\* The owner of the mutex is the one call that has anything in its hands.
OwnerRight ==
  \A c \in Callers :
    /\ caller[c].pc \in Inside <=> lock = c
    /\ caller[c].pc \notin Inside => caller[c].got = <<>> /\ caller[c].item = 0
    /\ caller[c].call = "next" => caller[c].got = <<>>

\* What a call has gathered are the last batches pulled from the source, up to
\* the one it has just pulled.
GatheredRight(call) ==
  /\ \A k \in DOMAIN call.got :
       call.got[k] = (IF Fresh(call) THEN source.pulled - 1 ELSE source.pulled) - Len(call.got) + k
  /\ Fresh(call) => call.item = source.pulled
  /\ call.pc \in {"locked", "waiting"} => call.item = 0 \/ call.item \in Range(call.got)

\* A source that goes on being read has not ended, and one that a table was
\* read from to the end has given all it has.
EndRight(call) ==
  /\ Fresh(call) \/ (call.pc \in {"locked", "waiting"} /\ call.got # <<>>) => ~source.ended
  /\ call.pc \in {"pulled", "deliver"} /\ call.item = 0 /\ call.got # <<>> =>
       source.pulled = source.length

\* What was returned comes before what a call has in its hands.
ReturnedFirst ==
  \A c \in Callers : \A h \in Hands(caller[c]), n \in Range(given) \cup InTables : n < h

IteratorInv ==
  /\ TypeOK /\ source.pulled <= source.length
  /\ OwnerRight
  /\ \A c \in Callers : GatheredRight(caller[c]) /\ EndRight(caller[c])
  /\ \A t \in DOMAIN tables : tables[t] # <<>>
  /\ ReturnedFirst
  /\ BatchesRight
-----------------------------------------------------------------------------
LEMMA HandsOfCall == \A c \in Callers : Pulled(c) = Hands(caller[c])
  BY DEF Pulled, IsBatch, Hands

LEMMA NobodyCalls == Nobody \notin Callers
  BY BatchIteratorBounds DEF Nobody

LEMMA IteratorStarts == Init => IteratorInv
  <1> SUFFICES ASSUME Init PROVE IteratorInv
    OBVIOUS
  <1> USE BatchIteratorBounds
  <1>1. TypeOK
    <2>1. source \in [kind: {"lazy", "eager"}, length: 0 .. MaxBatches,
                      pulled: 0 .. MaxBatches, ended: BOOLEAN]
      <3>1. {0} \subseteq 0 .. MaxBatches /\ {FALSE} \subseteq BOOLEAN
        OBVIOUS
      <3>2. QED
        BY <3>1 DEF Init
    <2>2. <<>> \in Numbers /\ <<>> \in Seq(Numbers)
      BY DEF Numbers
    <2>3. Free \in CallState
      BY <2>2 DEF Free, CallState
    <2>4. QED
      BY <2>1, <2>2, <2>3 DEF Init, TypeOK
  <1>2. \A c \in Callers : caller[c] = Free /\ Hands(caller[c]) = {}
    BY DEF Init, Free, Hands, Range
  <1>3. OwnerRight
    BY <1>2, NobodyCalls DEF Init, OwnerRight, Inside, Free
  <1>4. \A c \in Callers : GatheredRight(caller[c]) /\ EndRight(caller[c])
    BY <1>2 DEF GatheredRight, EndRight, Fresh, Free
  <1>5. ReturnedFirst
    BY <1>2 DEF ReturnedFirst
  <1>6. InTables = {} /\ Range(given) = {} /\ lost = {} /\ source.pulled = 0
    BY DEF Init, InTables, Range
  <1>7. BatchesRight
    <2>1. GivenOnce /\ TableIsTail
      BY DEF Init, GivenOnce, TableIsTail, InTables, Range
    <2>2. UNION {Pulled(c) : c \in Callers} = {}
      BY <1>2, HandsOfCall
    <2>3. QED
      BY <1>6, <2>1, <2>2 DEF BatchesRight, NothingVanishes
  <1>8. source.pulled <= source.length /\ tables = <<>>
    BY DEF Init
  <1>9. QED
    BY <1>1, <1>3, <1>4, <1>5, <1>7, <1>8 DEF IteratorInv
-----------------------------------------------------------------------------
(* What a step of one call does to the others. *)

\* The types, one action at a time.
LEMMA IteratorTypes == TypeOK /\ [Next]_vars => TypeOK'
  <1> SUFFICES ASSUME TypeOK, [Next]_vars PROVE TypeOK'
    OBVIOUS
  <1> USE BatchIteratorBounds
  <1>0. <<>> \in Numbers /\ \A s \in Numbers, b \in 1 .. MaxBatches : Append(s, b) \in Numbers
    BY DEF Numbers
  <1>1. ASSUME NEW c \in Callers PROVE [Free EXCEPT !.calls = caller[c].calls] \in CallState
    BY <1>0 DEF TypeOK, CallState, Free
  <1>2. ASSUME NEW c \in Callers, NEW kept \in SUBSET (1 .. MaxBatches), Leave(c, kept)
        PROVE  /\ lock' \in Callers \cup {Nobody} /\ gil' \in Callers \cup {Nobody}
               /\ caller' \in [Callers -> CallState] /\ lost' \subseteq 1 .. MaxBatches
    BY <1>1, <1>2 DEF Leave, TypeOK
  <1>3. ASSUME NEW c \in Callers, NEW label \in {"locked", "waiting", "pulled", "deliver"}, Goto(c, label)
        PROVE  caller' \in [Callers -> CallState]
    BY <1>3 DEF Goto, TypeOK, CallState
  <1>4. ASSUME NEW c \in Callers, NEW label \in {"pulled", "deliver"}, NextItem(c, label)
        PROVE  /\ caller' \in [Callers -> CallState]
               /\ source' \in [kind: {"lazy", "eager"}, length: 0 .. MaxBatches,
                               pulled: 0 .. MaxBatches, ended: BOOLEAN]
    <2>1. PICK item \in {-1} \cup 0 .. MaxBatches :
            caller' = [caller EXCEPT ![c].item = item, ![c].pc = label]
      <3>1. source.pulled + 1 \in 0 .. MaxBatches \/ ~(source.pulled < source.length)
        BY DEF TypeOK
      <3>2. -1 \in {-1} \cup 0 .. MaxBatches /\ 0 \in {-1} \cup 0 .. MaxBatches
        OBVIOUS
      <3>3. QED
        BY <1>4, <3>1, <3>2 DEF NextItem
    <2>2. caller' \in [Callers -> CallState]
      <3>1. caller[c] \in CallState
        BY DEF TypeOK
      <3>2. [caller[c] EXCEPT !.item = item, !.pc = label] \in CallState
        BY <3>1 DEF CallState
      <3>3. caller' = [caller EXCEPT ![c] = [caller[c] EXCEPT !.item = item, !.pc = label]]
        BY <2>1 DEF TypeOK
      <3>4. QED
        BY <3>2, <3>3 DEF TypeOK
    <2>3. PICK pulled \in 0 .. MaxBatches, ended \in BOOLEAN :
            source' = [source EXCEPT !.pulled = pulled, !.ended = ended]
      <3>1. CASE ~source.ended /\ source.pulled < source.length /\ source' = [source EXCEPT !.pulled = @ + 1]
        <4>1. source' = [source EXCEPT !.pulled = source.pulled + 1, !.ended = source.ended]
          BY <3>1 DEF TypeOK
        <4>2. source.pulled + 1 \in 0 .. MaxBatches /\ source.ended \in BOOLEAN
          BY <3>1 DEF TypeOK
        <4>3. QED
          BY <4>1, <4>2
      <3>2. CASE \E ended \in BOOLEAN : source' = [source EXCEPT !.ended = ended]
        <4>1. PICK ended \in BOOLEAN : source' = [source EXCEPT !.ended = ended]
          BY <3>2
        <4>2. source' = [source EXCEPT !.pulled = source.pulled, !.ended = ended]
          BY <4>1 DEF TypeOK
        <4>3. source.pulled \in 0 .. MaxBatches
          BY DEF TypeOK
        <4>4. QED
          BY <4>2, <4>3
      <3>3. QED
        BY <1>4, <3>1, <3>2 DEF NextItem
    <2>4. source' \in [kind: {"lazy", "eager"}, length: 0 .. MaxBatches,
                       pulled: 0 .. MaxBatches, ended: BOOLEAN]
      BY <2>3 DEF TypeOK
    <2>5. QED
      BY <2>2, <2>4
  <1>5. ASSUME NEW c \in Callers PROVE Range(caller[c].got) \subseteq 1 .. MaxBatches
    BY DEF TypeOK, CallState, Numbers, Range
  <1>6. ASSUME NEW c \in Callers PROVE Pulled(c) \subseteq 1 .. MaxBatches
    BY <1>5 DEF Pulled, IsBatch, TypeOK, CallState
  <1>7. ASSUME NEW c \in Callers, IsBatch(c) PROVE caller[c].item \in 1 .. MaxBatches
    BY <1>7 DEF IsBatch, TypeOK, CallState
  <1>8. ASSUME NEW c \in Callers, Call(c) PROVE TypeOK'
    <2>1. PICK call \in {"next", "table"} :
            caller' = [caller EXCEPT ![c].pc = "called", ![c].call = call, ![c].calls = @ + 1]
      BY <1>8 DEF Call
    <2>2. caller[c] \in CallState /\ caller[c].calls + 1 \in 0 .. MaxCalls
      BY <1>8 DEF Call, TypeOK, CallState
    <2>3. [caller[c] EXCEPT !.pc = "called", !.call = call, !.calls = @ + 1] \in CallState
      BY <2>2 DEF CallState
    <2>4. caller' = [caller EXCEPT ![c] = [caller[c] EXCEPT !.pc = "called", !.call = call, !.calls = @ + 1]]
      BY <2>1 DEF TypeOK
    <2>5. caller' \in [Callers -> CallState]
      BY <2>3, <2>4 DEF TypeOK
    <2>6. QED
      BY <1>8, <2>5 DEF Call, TypeOK
  <1>9. ASSUME NEW c \in Callers, TryLock(c) PROVE TypeOK'
    BY <1>2, <1>3, <1>9 DEF TryLock, TypeOK
  <1>10. ASSUME NEW c \in Callers, Detach(c) PROVE TypeOK'
    BY <1>3, <1>10 DEF Detach, TypeOK
  <1>11. ASSUME NEW c \in Callers, PullLazy(c) PROVE TypeOK'
    BY <1>4, <1>11 DEF PullLazy, TypeOK
  <1>12. ASSUME NEW c \in Callers, PullPanics(c) PROVE TypeOK'
    BY <1>2, <1>5, <1>12 DEF PullPanics, TypeOK
  <1>13. ASSUME NEW c \in Callers, PullEager(c) PROVE TypeOK'
    <2>1. PICK label \in {"pulled", "deliver"} : NextItem(c, label)
      BY <1>13 DEF PullEager
    <2>2. gil' \in Callers \cup {Nobody}
      BY <1>13 DEF PullEager, TypeOK
    <2>3. QED
      BY <1>4, <1>13, <2>1, <2>2 DEF PullEager, TypeOK
  <1>14. ASSUME NEW c \in Callers, Attach(c) PROVE TypeOK'
    BY <1>3, <1>14 DEF Attach, TypeOK
  <1>15. ASSUME NEW c \in Callers, GiveBatch(c) PROVE TypeOK'
    BY <1>0, <1>2, <1>7, <1>15 DEF GiveBatch, TypeOK
  <1>16. ASSUME NEW c \in Callers, Stop(c) PROVE TypeOK'
    BY <1>2, <1>16 DEF Stop, TypeOK
  <1>17. ASSUME NEW c \in Callers, Gather(c) PROVE TypeOK'
    <2>1. Append(caller[c].got, caller[c].item) \in Numbers
      BY <1>0, <1>7, <1>17 DEF Gather, TypeOK, CallState
    <2>2. caller[c] \in CallState /\ caller \in [Callers -> CallState]
      BY <1>17 DEF TypeOK
    <2>3. PICK list \in Numbers : list = Append(caller[c].got, caller[c].item)
      BY <2>1
    <2>4. [caller[c] EXCEPT !.got = list, !.pc = "locked"] \in CallState
      BY <2>2 DEF CallState
    <2>5. caller' = [caller EXCEPT ![c] = [caller[c] EXCEPT !.got = list, !.pc = "locked"]]
      BY <1>17, <2>2, <2>3 DEF Gather
    <2>6. caller' \in [Callers -> CallState]
      BY <2>2, <2>4, <2>5
    <2>7. QED
      BY <1>17, <2>6 DEF Gather, TypeOK
  <1>18. ASSUME NEW c \in Callers, ReturnTable(c) PROVE TypeOK'
    <2>1. tables' \in Seq(Numbers)
      BY <1>18 DEF ReturnTable, TypeOK, CallState
    <2>2. QED
      BY <1>2, <1>18, <2>1 DEF ReturnTable, TypeOK
  <1>19. ASSUME NEW c \in Callers, Raise(c) PROVE TypeOK'
    BY <1>2, <1>6, <1>19 DEF Raise, TypeOK
  <1>20. ASSUME NEW c \in Callers, ImportFails(c) PROVE TypeOK'
    BY <1>2, <1>20 DEF ImportFails, TypeOK
  <1>21. CASE UNCHANGED vars
    BY <1>21 DEF vars, TypeOK
  <1>22. QED
    BY <1>8, <1>9, <1>10, <1>11, <1>12, <1>13, <1>14, <1>15, <1>16, <1>17, <1>18, <1>19, <1>20, <1>21
       DEF Next, Work

\* A sequence with one more element.
LEMMA Appended ==
  ASSUME NEW S, NEW s \in Seq(S), NEW x \in S
  PROVE  /\ Append(s, x) \in Seq(S) /\ Len(s) \in Nat /\ Len(Append(s, x)) = Len(s) + 1
         /\ DOMAIN Append(s, x) = 1 .. Len(s) + 1 /\ DOMAIN s = 1 .. Len(s)
         /\ \A k \in DOMAIN s : Append(s, x)[k] = s[k]
         /\ Append(s, x)[Len(s) + 1] = x
  OBVIOUS

LEMMA RangeAppended ==
  ASSUME NEW s \in Seq(1 .. MaxBatches), NEW x \in 1 .. MaxBatches
  PROVE  Range(Append(s, x)) = Range(s) \cup {x}
  <1>1. /\ Len(s) \in Nat /\ DOMAIN Append(s, x) = 1 .. Len(s) + 1 /\ DOMAIN s = 1 .. Len(s)
        /\ \A k \in DOMAIN s : Append(s, x)[k] = s[k]
        /\ Append(s, x)[Len(s) + 1] = x
    OBVIOUS
  <1>2. 1 .. Len(s) + 1 = (1 .. Len(s)) \cup {Len(s) + 1}
    BY <1>1
  <1>3. QED
    BY <1>1, <1>2 DEF Range

LEMMA RangeOfNumbers ==
  ASSUME NEW s \in Seq(1 .. MaxBatches)
  PROVE  \A n \in Range(s) : n \in 1 .. MaxBatches
  <1> DEFINE Batches == 1 .. MaxBatches
  <1>1. \A k \in DOMAIN s : s[k] \in Batches
    <2> HIDE DEF Batches
    <2>1. s \in Seq(Batches)
      BY DEF Batches
    <2>2. QED
      BY <2>1
  <1>2. QED
    BY <1>1 DEF Range

\* What was returned.
Returned == Range(given) \cup InTables

\* A call that keeps to the rules keeps the invariant, whatever the others hold.
\* Only the owner of the mutex changes the source and what is returned.
LEMMA CallStep ==
  ASSUME IteratorInv, TypeOK', NEW c \in Callers, NEW new,
         \A d \in Callers \ {c} : caller'[d] = caller[d],
         lock = c \/ UNCHANGED <<source, given, tables>>,
         \A d \in Callers \ {c} : lock' = d <=> lock = d,
         caller'[c].pc \in Inside <=> lock' = c,
         caller'[c].pc \notin Inside => caller'[c].got = <<>> /\ caller'[c].item = 0,
         caller'[c].call = "next" => caller'[c].got = <<>>,
         GatheredRight(caller[c])', EndRight(caller[c])',
         source'.pulled <= source'.length,
         \A t \in DOMAIN tables' : tables'[t] # <<>>,
         \A h \in Hands(caller'[c]), n \in Returned' : n < h,
         1 .. source'.pulled = (1 .. source.pulled) \cup new,
         Returned' \cup lost' \cup Hands(caller'[c]) = Returned \cup lost \cup Hands(caller[c]) \cup new,
         GivenOnce', TableIsTail'
  PROVE  IteratorInv'
  <1>1. ASSUME NEW d \in Callers \ {c}, lock = c
        PROVE  caller[d].pc \notin Inside /\ caller[d].got = <<>> /\ caller[d].item = 0
    BY <1>1 DEF IteratorInv, OwnerRight
  <1>2. OwnerRight'
    BY DEF IteratorInv, OwnerRight
  <1>3. ASSUME NEW d \in Callers PROVE GatheredRight(caller[d])' /\ EndRight(caller[d])'
    <2>1. CASE d = c
      BY <2>1
    <2>2. CASE d # c /\ lock = c
      BY <1>1, <2>2 DEF GatheredRight, EndRight, Fresh, Inside
    <2>3. CASE d # c /\ source' = source
      BY <2>3 DEF IteratorInv, GatheredRight, EndRight, Fresh
    <2>4. QED
      BY <2>1, <2>2, <2>3
  <1>4. ReturnedFirst'
    <2>1. SUFFICES ASSUME NEW d \in Callers, NEW h \in Hands(caller'[d]), NEW n \in Returned' PROVE n < h
      BY DEF ReturnedFirst, Returned
    <2>2. CASE d = c
      BY <2>2
    <2>3. CASE d # c /\ lock = c
      <3>1. Hands(caller'[d]) = {}
        BY <1>1, <2>3 DEF Hands, Range
      <3>2. QED
        BY <3>1
    <2>4. CASE d # c /\ UNCHANGED <<given, tables>>
      <3>1. Returned' = Returned
        BY <2>4 DEF Returned, InTables
      <3>2. QED
        BY <2>4, <3>1 DEF IteratorInv, ReturnedFirst, Returned
    <2>5. QED
      BY <2>2, <2>3, <2>4
  <1>5. NothingVanishes'
    <2>1. UNION {Pulled(d) : d \in Callers} = UNION {Hands(caller[d]) : d \in Callers}
      BY HandsOfCall
    <2>2. UNION {Pulled(d)' : d \in Callers} = UNION {Hands(caller'[d]) : d \in Callers}
      BY DEF Pulled, IsBatch, Hands
    <2>3. 1 .. source.pulled = Returned \cup lost \cup UNION {Hands(caller[d]) : d \in Callers}
      BY <2>1 DEF IteratorInv, BatchesRight, NothingVanishes, Returned
    <2>4. 1 .. source'.pulled = Returned' \cup lost' \cup UNION {Hands(caller'[d]) : d \in Callers}
      <3>1. UNION {Hands(caller[d]) : d \in Callers}
              = Hands(caller[c]) \cup UNION {Hands(caller[d]) : d \in Callers \ {c}}
        OBVIOUS
      <3>2. UNION {Hands(caller'[d]) : d \in Callers}
              = Hands(caller'[c]) \cup UNION {Hands(caller[d]) : d \in Callers \ {c}}
        OBVIOUS
      <3> HIDE DEF Hands, Returned
      <3>3. QED
        BY <2>3, <3>1, <3>2
    <2>5. QED
      BY <2>2, <2>4 DEF NothingVanishes, Returned
  <1>6. QED
    BY <1>2, <1>3, <1>4, <1>5 DEF IteratorInv, BatchesRight

\* Most steps leave alone the source and what was returned.
LEMMA QuietStep ==
  ASSUME IteratorInv, TypeOK', NEW c \in Callers,
         \A d \in Callers \ {c} : caller'[d] = caller[d],
         UNCHANGED <<source, given, tables>>,
         \A d \in Callers \ {c} : lock' = d <=> lock = d,
         caller'[c].pc \in Inside <=> lock' = c,
         caller'[c].pc \notin Inside => caller'[c].got = <<>> /\ caller'[c].item = 0,
         caller'[c].call = "next" => caller'[c].got = <<>>,
         GatheredRight(caller[c])', EndRight(caller[c])',
         Hands(caller'[c]) \subseteq Hands(caller[c]),
         lost' \cup Hands(caller'[c]) = lost \cup Hands(caller[c])
  PROVE  IteratorInv'
  <1>1. Returned' = Returned /\ GivenOnce' /\ TableIsTail'
    BY DEF IteratorInv, BatchesRight, GivenOnce, TableIsTail, Returned, InTables
  <1>2. \A h \in Hands(caller'[c]), n \in Returned' : n < h
    BY <1>1 DEF IteratorInv, ReturnedFirst, Returned
  <1>3. Returned' \cup lost' \cup Hands(caller'[c]) = Returned \cup lost \cup Hands(caller[c]) \cup {}
    <2> HIDE DEF Hands, Returned
    <2>1. QED
      BY <1>1
  <1>4. source'.pulled <= source'.length /\ \A t \in DOMAIN tables' : tables'[t] # <<>>
    BY DEF IteratorInv
  <1>5. 1 .. source'.pulled = (1 .. source.pulled) \cup {}
    OBVIOUS
  <1>6. QED
    BY <1>1, <1>2, <1>3, <1>4, <1>5, CallStep

\* A call that leaves drops what it has, or has nothing.
LEMMA LeaveKeeps ==
  ASSUME IteratorInv, TypeOK', NEW c \in Callers, NEW kept, Leave(c, kept), kept = Hands(caller[c]),
         UNCHANGED <<source, given, tables>>
  PROVE  IteratorInv'
  <1>1. caller'[c] = [Free EXCEPT !.calls = caller[c].calls]
    BY DEF IteratorInv, TypeOK, Leave
  <1>2. caller'[c].pc = "free" /\ caller'[c].got = <<>> /\ caller'[c].item = 0 /\ Hands(caller'[c]) = {}
    BY <1>1 DEF Free, Hands, Range
  <1>3. \A d \in Callers \ {c} : caller'[d] = caller[d]
    BY DEF IteratorInv, TypeOK, Leave
  <1>4. lock' # c /\ \A d \in Callers \ {c} : lock' = d <=> lock = d
    BY NobodyCalls DEF Leave
  <1>5. GatheredRight(caller[c])' /\ EndRight(caller[c])'
    BY <1>2 DEF GatheredRight, EndRight, Fresh
  <1>6. lost' \cup Hands(caller'[c]) = lost \cup Hands(caller[c])
    BY <1>2 DEF Leave
  <1>7. QED
    BY <1>2, <1>3, <1>4, <1>5, <1>6, QuietStep DEF Inside

\* A call outside the mutex has nothing in its hands.
LEMMA EmptyHanded ==
  ASSUME IteratorInv, NEW c \in Callers, caller[c].pc \notin Inside
  PROVE  Hands(caller[c]) = {} /\ caller[c].got = <<>> /\ caller[c].item = 0 /\ lock # c
  BY DEF IteratorInv, OwnerRight, Hands, Range

\* A call that goes on to another label with what it has.
LEMMA GotoKeeps ==
  ASSUME IteratorInv, TypeOK', NEW c \in Callers, NEW label \in Inside, Goto(c, label), lock' = c,
         caller[c].pc \in Inside \/ lock = Nobody,
         \/ label \in {"locked", "waiting"} /\ caller[c].pc \notin {"pulled", "deliver"}
         \/ label = "deliver" /\ caller[c].pc = "pulled",
         UNCHANGED <<source, given, tables, lost>>
  PROVE  IteratorInv'
  <1>1. caller'[c] = [caller[c] EXCEPT !.pc = label] /\ \A d \in Callers \ {c} : caller'[d] = caller[d]
    BY DEF IteratorInv, TypeOK, Goto
  <1>2. /\ caller'[c].pc = label /\ caller'[c].got = caller[c].got /\ caller'[c].item = caller[c].item
        /\ caller'[c].call = caller[c].call
    BY <1>1 DEF IteratorInv, TypeOK, CallState
  <1>3. Hands(caller'[c]) = Hands(caller[c])
    BY <1>2 DEF Hands
  <1>4. \A d \in Callers \ {c} : lock' = d <=> lock = d
    BY NobodyCalls DEF IteratorInv, OwnerRight
  <1>5. caller'[c].call = "next" => caller'[c].got = <<>>
    BY <1>2 DEF IteratorInv, OwnerRight
  <1>6. GatheredRight(caller[c])' /\ EndRight(caller[c])'
    <2>1. CASE caller[c].pc \in Inside
      BY <1>2, <2>1 DEF IteratorInv, GatheredRight, EndRight, Fresh, Inside
    <2>2. CASE caller[c].pc \notin Inside
      BY <1>2, <2>2, EmptyHanded DEF GatheredRight, EndRight, Fresh, Inside
    <2>3. QED
      BY <2>1, <2>2
  <1>7. lost' \cup Hands(caller'[c]) = lost \cup Hands(caller[c])
    BY <1>3
  <1>8. QED
    BY <1>1, <1>2, <1>3, <1>4, <1>5, <1>6, <1>7, QuietStep
-----------------------------------------------------------------------------
(* The steps of a call. *)

LEMMA CallKeeps ==
  ASSUME IteratorInv, TypeOK', NEW c \in Callers, Call(c)
  PROVE  IteratorInv'
  <1>1. /\ caller'[c].pc = "called" /\ caller'[c].got = caller[c].got /\ caller'[c].item = caller[c].item
        /\ \A d \in Callers \ {c} : caller'[d] = caller[d]
    BY DEF IteratorInv, TypeOK, CallState, Call
  <1>2. caller[c].pc \notin Inside /\ lock' = lock
    BY DEF Call, At, Inside
  <1>3. caller'[c].got = <<>> /\ caller'[c].item = 0 /\ lock' # c /\ Hands(caller'[c]) = Hands(caller[c])
    BY <1>1, <1>2, EmptyHanded DEF Hands
  <1>4. GatheredRight(caller[c])' /\ EndRight(caller[c])'
    BY <1>1, <1>3 DEF GatheredRight, EndRight, Fresh
  <1>5. lost' \cup Hands(caller'[c]) = lost \cup Hands(caller[c])
    BY <1>3 DEF Call
  <1>6. UNCHANGED <<source, given, tables>>
    BY DEF Call
  <1>7. QED
    BY <1>1, <1>2, <1>3, <1>4, <1>5, <1>6, QuietStep DEF Inside

LEMMA TryLockKeeps ==
  ASSUME IteratorInv, TypeOK', NEW c \in Callers, TryLock(c)
  PROVE  IteratorInv'
  <1>1. Hands(caller[c]) = {}
    BY EmptyHanded DEF TryLock, At, Inside
  <1>2. CASE Leave(c, {})
    BY <1>1, <1>2, LeaveKeeps DEF TryLock
  <1>3. CASE lock = Nobody /\ lock' = c /\ Goto(c, "locked") /\ lost' = lost
    BY <1>3, GotoKeeps DEF TryLock, At, Inside
  <1>4. QED
    BY <1>2, <1>3 DEF TryLock

LEMMA DetachAttachKeep ==
  ASSUME IteratorInv, TypeOK', NEW c \in Callers, Detach(c) \/ Attach(c)
  PROVE  IteratorInv'
  <1>1. CASE Detach(c)
    <2>1. lock = c
      BY <1>1 DEF Detach, At, Inside, IteratorInv, OwnerRight
    <2>2. QED
      BY <1>1, <2>1, GotoKeeps DEF Detach, At, Inside
  <1>2. CASE Attach(c)
    <2>1. lock = c
      BY <1>2 DEF Attach, At, Inside, IteratorInv, OwnerRight
    <2>2. QED
      BY <1>2, <2>1, GotoKeeps DEF Attach, At, Inside
  <1>3. QED
    BY <1>1, <1>2

\* The panics of a query, StopIteration and exceptions.
LEMMA EndingsKeep ==
  ASSUME IteratorInv, TypeOK', NEW c \in Callers, PullPanics(c) \/ ImportFails(c) \/ Stop(c) \/ Raise(c)
  PROVE  IteratorInv'
  <1>1. CASE PullPanics(c)
    <2>1. Range(caller[c].got) = Hands(caller[c])
      BY <1>1 DEF PullPanics, At, Hands, IteratorInv, GatheredRight
    <2>2. QED
      BY <1>1, <2>1, LeaveKeeps DEF PullPanics
  <1>2. CASE Stop(c)
    <2>1. Hands(caller[c]) = {}
      BY <1>2 DEF Stop, Hands, Range, IteratorInv, OwnerRight
    <2>2. QED
      BY <1>2, <2>1, LeaveKeeps DEF Stop
  <1>3. CASE Raise(c)
    BY <1>3, HandsOfCall, LeaveKeeps DEF Raise
  <1>4. CASE ImportFails(c)
    <2>1. Hands(caller[c]) = {}
      BY <1>4 DEF ImportFails, At, Hands, Range, IteratorInv, GatheredRight
    <2>2. QED
      BY <1>4, <2>1, LeaveKeeps DEF ImportFails
  <1>5. QED
    BY <1>1, <1>2, <1>3, <1>4

\* What a call knows that has an item of the source.
LEMMA AtDeliver ==
  ASSUME IteratorInv, NEW c \in Callers, At(c, "deliver")
  PROVE  LET got == caller[c].got IN
         /\ lock = c /\ got \in Seq(1 .. MaxBatches)
         /\ caller[c].call = "next" => got = <<>>
         /\ source.pulled \in Nat /\ source.length \in Nat
         /\ IF IsBatch(c)
              THEN /\ caller[c].item \in 1 .. MaxBatches /\ caller[c].item = source.pulled /\ ~source.ended
                   /\ \A k \in DOMAIN got : got[k] = source.pulled - 1 - Len(got) + k
              ELSE /\ \A k \in DOMAIN got : got[k] = source.pulled - Len(got) + k
                   /\ caller[c].item = 0 /\ got # <<>> => source.pulled = source.length
  <1>1. caller[c].pc = "deliver" /\ (Fresh(caller[c]) <=> IsBatch(c))
    BY DEF At, Fresh, IsBatch
  <1>2. lock = c /\ (caller[c].call = "next" => caller[c].got = <<>>)
    BY <1>1 DEF IteratorInv, OwnerRight, Inside
  <1>3. caller[c].got \in Seq(1 .. MaxBatches) /\ caller[c].item \in {-1} \cup 0 .. MaxBatches
    BY DEF IteratorInv, TypeOK, CallState, Numbers
  <1>4. source.pulled \in Nat /\ source.length \in Nat
    BY DEF IteratorInv, TypeOK
  <1>5. GatheredRight(caller[c]) /\ EndRight(caller[c])
    BY DEF IteratorInv
  <1>6. CASE IsBatch(c)
    BY <1>1, <1>2, <1>3, <1>4, <1>5, <1>6 DEF IsBatch, GatheredRight, EndRight
  <1>7. CASE ~IsBatch(c)
    BY <1>1, <1>2, <1>3, <1>4, <1>5, <1>7 DEF IsBatch, GatheredRight, EndRight
  <1>8. QED
    BY <1>6, <1>7

LEMMA GatherKeeps ==
  ASSUME IteratorInv, TypeOK', NEW c \in Callers, Gather(c)
  PROVE  IteratorInv'
  <1> DEFINE got == caller[c].got
  <1>1. /\ caller'[c] = [caller[c] EXCEPT !.got = Append(got, caller[c].item), !.pc = "locked"]
        /\ \A d \in Callers \ {c} : caller'[d] = caller[d]
    BY DEF IteratorInv, TypeOK, Gather
  <1>2. /\ caller'[c].got = Append(got, caller[c].item) /\ caller'[c].pc = "locked"
        /\ caller'[c].item = caller[c].item /\ caller'[c].call = "table"
    BY <1>1 DEF IteratorInv, TypeOK, CallState, Gather
  <1>3. /\ caller[c].item \in 1 .. MaxBatches
        /\ caller[c].item = source.pulled /\ got \in Seq(1 .. MaxBatches) /\ source.pulled \in Nat
        /\ lock = c /\ ~source.ended
        /\ \A k \in DOMAIN got : got[k] = source.pulled - 1 - Len(got) + k
    BY AtDeliver DEF Gather
  <1>4. Range(Append(got, caller[c].item)) = Range(got) \cup {caller[c].item}
    BY <1>3, RangeAppended
  <1>5. Hands(caller'[c]) = Hands(caller[c])
    BY <1>2, <1>3, <1>4 DEF Hands
  <1>6. GatheredRight(caller[c])'
    <2>1. \A k \in DOMAIN Append(got, caller[c].item) :
            Append(got, caller[c].item)[k] = source.pulled - Len(Append(got, caller[c].item)) + k
      <3> HIDE DEF got
      <3>1. QED
        BY <1>3, Appended
    <2>2. caller'[c].item \in Range(caller'[c].got) /\ source' = source
      BY <1>2, <1>4 DEF Gather
    <2>3. QED
      BY <1>2, <2>1, <2>2 DEF GatheredRight, Fresh
  <1>7. EndRight(caller[c])'
    BY <1>2, <1>3 DEF EndRight, Fresh, Gather
  <1>8. lost' \cup Hands(caller'[c]) = lost \cup Hands(caller[c])
    BY <1>5 DEF Gather
  <1>9. QED
    BY <1>1, <1>2, <1>3, <1>5, <1>6, <1>7, <1>8, QuietStep DEF Gather, Inside

LEMMA GiveBatchKeeps ==
  ASSUME IteratorInv, TypeOK', NEW c \in Callers, GiveBatch(c)
  PROVE  IteratorInv'
  <1> DEFINE item == caller[c].item
  <1>1. /\ item \in 1 .. MaxBatches /\ given \in Seq(1 .. MaxBatches) /\ item = source.pulled
        /\ lock = c /\ caller[c].got = <<>> /\ Hands(caller[c]) = {item}
    <2>1. item \in 1 .. MaxBatches /\ item = source.pulled /\ lock = c /\ caller[c].got = <<>>
      BY AtDeliver DEF GiveBatch
    <2>2. given \in Seq(1 .. MaxBatches)
      BY DEF IteratorInv, TypeOK, Numbers
    <2>3. QED
      BY <2>1, <2>2 DEF Hands, Range
  <1>2. caller'[c] = [Free EXCEPT !.calls = caller[c].calls] /\ \A d \in Callers \ {c} : caller'[d] = caller[d]
    BY DEF IteratorInv, TypeOK, GiveBatch, Leave
  <1>3. caller'[c].pc = "free" /\ caller'[c].got = <<>> /\ caller'[c].item = 0 /\ Hands(caller'[c]) = {}
    BY <1>2 DEF Free, Hands, Range
  <1>4. GatheredRight(caller[c])' /\ EndRight(caller[c])'
    BY <1>3 DEF GatheredRight, EndRight, Fresh
  <1>5. lock' = Nobody /\ lost' = lost /\ source' = source /\ tables' = tables /\ given' = Append(given, item)
    BY <1>1 DEF GiveBatch, Leave
  <1>6. \A n \in Returned : n < item
    BY <1>1 DEF IteratorInv, ReturnedFirst, Returned
  <1> HIDE DEF item
  <1>7. Range(given') = Range(given) \cup {item} /\ InTables' = InTables
    <2>1. Range(Append(given, item)) = Range(given) \cup {item}
      BY <1>1, RangeAppended
    <2>2. QED
      BY <1>5, <2>1 DEF InTables
  <1>8. GivenOnce'
    <2>1. \A i, j \in DOMAIN given' : i < j => given'[i] < given'[j]
      <3>1. \A i \in DOMAIN given : given[i] < item
        BY <1>6 DEF Returned, Range
      <3>2. \A i, j \in DOMAIN given : i < j => given[i] < given[j]
        BY DEF IteratorInv, BatchesRight, GivenOnce
      <3>3. QED
        BY <1>1, <1>5, <3>1, <3>2, Appended
    <2>2. item \notin InTables
      BY <1>1, <1>6 DEF Returned
    <2>3. QED
      BY <1>5, <1>7, <2>1, <2>2 DEF GivenOnce, IteratorInv, BatchesRight
  <1>9. TableIsTail' /\ source'.pulled <= source'.length /\ \A t \in DOMAIN tables' : tables'[t] # <<>>
    BY <1>5 DEF TableIsTail, IteratorInv, BatchesRight
  <1>10. Returned' \cup lost' \cup Hands(caller'[c]) = Returned \cup lost \cup Hands(caller[c]) \cup {}
    <2> HIDE DEF Hands
    <2>1. QED
      BY <1>1, <1>3, <1>5, <1>7 DEF Returned
  <1>11. 1 .. source'.pulled = (1 .. source.pulled) \cup {}
    BY <1>5
  <1>12. \A d \in Callers \ {c} : lock' = d <=> lock = d
    BY <1>1, <1>5, NobodyCalls
  <1>13. lock' # c
    BY <1>5, NobodyCalls
  <1>14. QED
    BY <1>1, <1>2, <1>3, <1>4, <1>8, <1>9, <1>10, <1>11, <1>12, <1>13, CallStep DEF Inside

LEMMA ReturnTableKeeps ==
  ASSUME IteratorInv, TypeOK', NEW c \in Callers, ReturnTable(c)
  PROVE  IteratorInv'
  <1> DEFINE got == caller[c].got
  <1>1. /\ got \in Seq(1 .. MaxBatches) /\ caller[c].item = 0 /\ lock = c /\ Hands(caller[c]) = Range(got)
        /\ source.pulled \in Nat /\ source.length \in Nat
        /\ \A k \in DOMAIN got : got[k] = source.pulled - Len(got) + k
        /\ got # <<>> => source.pulled = source.length
    BY AtDeliver DEF ReturnTable, IsBatch, Hands
  <1> HIDE DEF got
  <1>2. CASE got = <<>>
    <2>1. tables' = tables /\ Leave(c, {}) /\ Hands(caller[c]) = {}
      BY <1>1, <1>2 DEF ReturnTable, got, Range
    <2>2. QED
      BY <2>1, LeaveKeeps DEF ReturnTable
  <1>3. CASE got # <<>>
    <2>1. tables' = Append(tables, got) /\ UNCHANGED <<source, given>> /\ Leave(c, {})
      BY <1>3 DEF ReturnTable, got
    <2>2. caller'[c] = [Free EXCEPT !.calls = caller[c].calls] /\ \A d \in Callers \ {c} : caller'[d] = caller[d]
      BY <2>1 DEF IteratorInv, TypeOK, Leave
    <2>3. caller'[c].pc = "free" /\ caller'[c].got = <<>> /\ caller'[c].item = 0 /\ Hands(caller'[c]) = {}
      BY <2>2 DEF Free, Hands, Range
    <2>4. GatheredRight(caller[c])' /\ EndRight(caller[c])'
      BY <2>3 DEF GatheredRight, EndRight, Fresh
    <2>5. lock' = Nobody /\ lost' = lost
      BY <1>1, <2>1 DEF Leave
    <2>6. /\ DOMAIN tables = 1 .. Len(tables) /\ Len(tables) \in Nat
          /\ DOMAIN tables' = (DOMAIN tables) \cup {Len(tables) + 1}
          /\ \A t \in DOMAIN tables : tables'[t] = tables[t]
          /\ tables'[Len(tables) + 1] = got
      <3>1. tables \in Seq(Numbers) /\ got \in Numbers
        BY <1>1 DEF IteratorInv, TypeOK, Numbers
      <3>2. 1 .. Len(tables) + 1 = (1 .. Len(tables)) \cup {Len(tables) + 1}
        BY <3>1
      <3>3. QED
        BY <2>1, <3>1, <3>2, Appended
    <2>7. InTables' = InTables \cup Range(got)
      BY <2>6 DEF InTables
    <2>8. Returned' = Returned \cup Range(got)
      BY <2>1, <2>7 DEF Returned
    <2>9. \A h \in Range(got), n \in Returned : n < h
      BY <1>1 DEF IteratorInv, ReturnedFirst, Returned
    <2>10. Range(got) \cap Returned = {}
      <3>1. \A h \in Range(got) : h \in 1 .. MaxBatches
        BY <1>1, RangeOfNumbers
      <3>2. QED
        BY <2>9, <3>1
    <2>11. GivenOnce'
      <3>1. IsInjective(got)
        BY <1>1 DEF IsInjective
      <3>2. Range(given) \cap InTables' = {}
        BY <2>7, <2>10 DEF IteratorInv, BatchesRight, GivenOnce, Returned
      <3>3. \A t \in DOMAIN tables : Range(tables[t]) \cap Range(got) = {}
        BY <2>10 DEF Returned, InTables
      <3>4. \A t, u \in DOMAIN tables' :
              IF t = u THEN IsInjective(tables'[t]) ELSE Range(tables'[t]) \cap Range(tables'[u]) = {}
        BY <2>6, <3>1, <3>3 DEF IteratorInv, BatchesRight, GivenOnce
      <3>5. QED
        BY <2>1, <3>2, <3>4 DEF IteratorInv, BatchesRight, GivenOnce
    <2>12. TableIsTail'
      <3>1. /\ Last(got) = source.length
            /\ \A k \in DOMAIN got : got[k] = got[1] + k - 1
        BY <1>1, <1>3 DEF Last
      <3>2. QED
        BY <2>1, <2>6, <3>1 DEF IteratorInv, BatchesRight, TableIsTail
    <2>13. source'.pulled <= source'.length /\ \A t \in DOMAIN tables' : tables'[t] # <<>>
      BY <1>3, <2>1, <2>6 DEF IteratorInv
    <2>14. Returned' \cup lost' \cup Hands(caller'[c]) = Returned \cup lost \cup Hands(caller[c]) \cup {}
      <3> HIDE DEF Hands, Returned
      <3>1. QED
        BY <1>1, <2>3, <2>5, <2>8
    <2>15. 1 .. source'.pulled = (1 .. source.pulled) \cup {}
      BY <2>1
    <2>16. lock' # c /\ \A d \in Callers \ {c} : lock' = d <=> lock = d
      BY <1>1, <2>5, NobodyCalls
    <2>17. QED
      BY <1>1, <2>2, <2>3, <2>4, <2>11, <2>12, <2>13, <2>14, <2>15, <2>16, CallStep DEF Inside
  <1>4. QED
    BY <1>2, <1>3

\* The next item of the source, whatever it is, goes to the owner of the mutex.
LEMMA NextItemKeeps ==
  ASSUME IteratorInv, TypeOK', NEW c \in Callers, PullLazy(c) \/ PullEager(c)
  PROVE  IteratorInv'
  <1> DEFINE got == caller[c].got
  <1>1. PICK label \in {"pulled", "deliver"} : NextItem(c, label)
    BY DEF PullLazy, PullEager
  <1>2. /\ caller[c].pc \in {"locked", "waiting"} /\ lock' = lock
        /\ UNCHANGED <<given, tables, lost>>
    BY DEF PullLazy, PullEager, At
  <1>3. /\ lock = c /\ got \in Seq(1 .. MaxBatches) /\ Hands(caller[c]) = Range(got)
        /\ source.pulled \in Nat /\ source.length \in Nat
        /\ source.pulled <= source.length
        /\ \A k \in DOMAIN got : got[k] = source.pulled - Len(got) + k
        /\ got # <<>> => ~source.ended
        /\ caller[c].call = "next" => got = <<>>
    <2>1. ~Fresh(caller[c]) /\ caller[c].pc \in Inside
      BY <1>2 DEF Fresh, Inside
    <2>2. Hands(caller[c]) = Range(got)
      BY <1>2 DEF Hands, IteratorInv, GatheredRight
    <2>3. /\ \A k \in DOMAIN got : got[k] = source.pulled - Len(got) + k
          /\ got # <<>> => ~source.ended
      BY <1>2, <2>1 DEF IteratorInv, GatheredRight, EndRight
    <2>4. lock = c /\ (caller[c].call = "next" => got = <<>>)
      BY <2>1 DEF IteratorInv, OwnerRight
    <2>5. QED
      BY <2>2, <2>3, <2>4 DEF IteratorInv, TypeOK, CallState, Numbers
  <1>4. PICK item \in {-1} \cup 0 .. MaxBatches :
          /\ caller' = [caller EXCEPT ![c].item = item, ![c].pc = label]
          /\ source'.length = source.length
          /\ \/ /\ item = source.pulled + 1 /\ source'.pulled = item /\ ~source.ended /\ ~source'.ended
                /\ source.pulled < source.length
             \/ item = 0 /\ source'.pulled = source.pulled /\ (source.pulled = source.length \/ source.ended)
             \/ item = -1 /\ source'.pulled = source.pulled
    <2>1. /\ source.pulled < source.length => source.pulled + 1 \in {-1} \cup 0 .. MaxBatches
          /\ -1 \in {-1} \cup 0 .. MaxBatches /\ 0 \in {-1} \cup 0 .. MaxBatches
      BY BatchIteratorBounds DEF IteratorInv, TypeOK
    <2>2. CASE ~source.ended /\ source.pulled < source.length /\ source' = [source EXCEPT !.pulled = @ + 1]
               /\ caller' = [caller EXCEPT ![c].item = source.pulled + 1, ![c].pc = label]
      BY <2>1, <2>2 DEF IteratorInv, TypeOK
    <2>3. CASE (source.pulled = source.length \/ source.ended) /\ source' = [source EXCEPT !.ended = TRUE]
               /\ caller' = [caller EXCEPT ![c].item = 0, ![c].pc = label]
      BY <2>1, <2>3 DEF IteratorInv, TypeOK
    <2>4. CASE (\E ended \in BOOLEAN : source' = [source EXCEPT !.ended = ended])
               /\ caller' = [caller EXCEPT ![c].item = -1, ![c].pc = label]
      BY <2>1, <2>4 DEF IteratorInv, TypeOK
    <2>5. QED
      BY <1>1, <2>2, <2>3, <2>4 DEF NextItem
  <1>5. /\ caller'[c] = [caller[c] EXCEPT !.item = item, !.pc = label]
        /\ \A d \in Callers \ {c} : caller'[d] = caller[d]
    BY <1>4 DEF IteratorInv, TypeOK
  <1>6. /\ caller'[c].pc = label /\ caller'[c].item = item /\ caller'[c].got = got
        /\ caller'[c].call = caller[c].call
    BY <1>5 DEF IteratorInv, TypeOK, CallState
  <1> DEFINE new == IF item > 0 THEN {item} ELSE {}
  <1>7. Hands(caller'[c]) = Hands(caller[c]) \cup new
    BY <1>3, <1>6 DEF Hands
  <1>8. 1 .. source'.pulled = (1 .. source.pulled) \cup new
    BY <1>3, <1>4
  <1>9. GatheredRight(caller[c])'
    BY <1>3, <1>4, <1>6 DEF GatheredRight, Fresh
  <1>10. EndRight(caller[c])'
    BY <1>3, <1>4, <1>6 DEF EndRight, Fresh
  <1>11. Returned' = Returned /\ lost' = lost
    BY <1>2 DEF Returned, InTables
  <1>12. \A h \in Hands(caller'[c]), n \in Returned' : n < h
    <2>1. \A n \in Returned : n \in 1 .. source.pulled
      BY DEF IteratorInv, BatchesRight, NothingVanishes, Returned
    <2>2. \A h \in Hands(caller[c]), n \in Returned : n < h
      BY DEF IteratorInv, ReturnedFirst, Returned
    <2>3. \A h \in new, n \in Returned : n < h
      BY <1>3, <1>4, <2>1
    <2> HIDE DEF new
    <2>4. QED
      BY <1>7, <1>11, <2>2, <2>3
  <1>13. GivenOnce' /\ TableIsTail' /\ \A t \in DOMAIN tables' : tables'[t] # <<>>
    BY <1>2, <1>4 DEF IteratorInv, BatchesRight, GivenOnce, TableIsTail, InTables
  <1>14. Returned' \cup lost' \cup Hands(caller'[c]) = Returned \cup lost \cup Hands(caller[c]) \cup new
    <2> HIDE DEF Returned, Hands, new
    <2>1. QED
      BY <1>7, <1>11
  <1>15. source'.pulled <= source'.length
    BY <1>3, <1>4
  <1>16. caller'[c].pc \in Inside /\ lock' = c
    BY <1>2, <1>3, <1>6 DEF Inside
  <1>17. QED
    <2> HIDE DEF new
    <2>1. QED
      BY <1>2, <1>3, <1>5, <1>6, <1>8, <1>9, <1>10, <1>12, <1>13, <1>14, <1>15, <1>16, CallStep

LEMMA IteratorStep == IteratorInv /\ [Next]_vars => IteratorInv'
  <1> SUFFICES ASSUME IteratorInv, [Next]_vars PROVE IteratorInv'
    OBVIOUS
  <1>1. TypeOK'
    BY IteratorTypes DEF IteratorInv
  <1>2. CASE UNCHANGED vars
    BY <1>2 DEF vars, IteratorInv, TypeOK, OwnerRight, GatheredRight, EndRight, Fresh, ReturnedFirst, InTables,
       BatchesRight, GivenOnce, TableIsTail, NothingVanishes, Pulled, IsBatch
  <1>3. ASSUME NEW c \in Callers, Call(c) \/ Work(c) PROVE IteratorInv'
    BY <1>1, <1>3, CallKeeps, TryLockKeeps, DetachAttachKeep, EndingsKeep, GatherKeeps, GiveBatchKeeps,
       ReturnTableKeeps, NextItemKeeps DEF Work
  <1>4. QED
    BY <1>2, <1>3 DEF Next

LEMMA IteratorKeepsInv == Spec => []IteratorInv
  BY IteratorStarts, IteratorStep, PTL DEF Spec

\* However the calls of any number of threads interleave, every batch is given
\* to one of them, in order, or is accounted for (iterator.rs:64-118).
THEOREM BatchesAreRight == Spec => []BatchesRight
  <1>1. IteratorInv => BatchesRight
    BY DEF IteratorInv
  <1>2. QED
    BY <1>1, IteratorKeepsInv, PTL
-----------------------------------------------------------------------------
(***************************************************************************)
(* The memory budget and the pools.                                        *)
(***************************************************************************)

\* The batches were sized for n streams, or are the smallest there may be; and
\* n is what was asked for, or the files that there are.
SizedFor(call, n) ==
  /\ call.rows = MinRows \/ (7 * n * call.width) * call.rows <= Ram * 2
  /\ IF call.asked = Unasked THEN call.left + call.streams <= n ELSE n = call.asked

\* What a job knows without looking at its pool.
Planned(call) ==
  /\ call.pc = "idle" => call.rows = MinRows
  /\ call.pc \in {"idle", "sized"} => call.pool = 1
  /\ call.pc # "running" => call.streams = 0
  /\ call.left + call.streams <= MaxFiles
  /\ call.pc # "idle" /\ call.asked # 0 => \E n \in Nat \ {0} : SizedFor(call, n)

\* A job that runs is on a pool made for what it asked for, with no more
\* streams than that has threads.
PlacedIn(call, all) ==
  /\ call.pool \in DOMAIN all
  /\ call.pc = "running" => /\ all[call.pool].asked = call.asked
                            /\ call.streams <= all[call.pool].threads

\* Every pool has the threads it was asked for, and the first is Rayon's own.
PoolsMade(all) ==
  /\ all # <<>> /\ all[1].asked = Unasked
  /\ \A p \in DOMAIN all : all[p] = Pool(all[p].asked)

PoolsInv ==
  /\ PoolsTypeOK
  /\ PoolsMade(pools)
  /\ \A j \in Jobs : Planned(job[j]) /\ PlacedIn(job[j], pools)
-----------------------------------------------------------------------------
(* The budget. *)

LEMMA Divide ==
  ASSUME NEW a \in Nat, NEW d \in Nat \ {0}
  PROVE  (a \div d) \in Nat /\ d * (a \div d) <= a
  OBVIOUS

LEMMA Multiply ==
  ASSUME NEW a \in Nat, NEW b \in Nat, NEW k \in Nat, a <= b
  PROVE  a * k <= b * k /\ k * a <= k * b
  OBVIOUS

LEMMA Positive ==
  ASSUME NEW a \in Nat \ {0}, NEW b \in Nat \ {0}
  PROVE  7 * a * b \in Nat \ {0}
  OBVIOUS

\* The batch size lies in its bounds, and the batches of all streams fit in the
\* budget unless they are the smallest there may be.
LEMMA BudgetFits ==
  ASSUME NEW n \in Nat, NEW w \in Nat
  PROVE  /\ budget_batch_rows_for(n, w) \in MinRows .. MaxRows
         /\ \/ budget_batch_rows_for(n, w) = MinRows
            \/ (7 * AtLeastOne(n) * AtLeastOne(w)) * budget_batch_rows_for(n, w) <= Ram * 2
  <1> DEFINE d == 7 * AtLeastOne(n) * AtLeastOne(w)
             q == (Ram * 2) \div d
             rows == budget_batch_rows_for(n, w)
  <1>1. AtLeastOne(n) \in Nat \ {0} /\ AtLeastOne(w) \in Nat \ {0}
    BY DEF AtLeastOne
  <1>2. d \in Nat \ {0}
    BY <1>1, Positive
  <1>3. Ram * 2 \in Nat /\ MinRows \in Nat /\ MaxRows \in Nat /\ MinRows <= MaxRows
    BY MemoryAssumption
  <1>4. rows = IF q < MinRows THEN MinRows ELSE IF q > MaxRows THEN MaxRows ELSE q
    BY DEF budget_batch_rows_for
  <1> HIDE DEF d, rows
  <1>5. q \in Nat /\ d * q <= Ram * 2
    BY <1>2, <1>3, Divide
  <1> HIDE DEF q
  <1>6. rows \in MinRows .. MaxRows
    BY <1>3, <1>4, <1>5
  <1>7. CASE rows = MinRows
    BY <1>6, <1>7 DEF rows
  <1>8. CASE rows # MinRows
    <2>1. rows \in Nat /\ rows <= q
      BY <1>3, <1>4, <1>5, <1>8
    <2>2. d * rows <= d * q /\ d * rows \in Nat /\ d * q \in Nat
      BY <1>2, <1>5, <2>1, Multiply
    <2>3. d * rows <= Ram * 2
      BY <1>3, <1>5, <2>2
    <2> QED
      BY <1>6, <2>3 DEF d, rows
  <1> QED
    BY <1>7, <1>8
-----------------------------------------------------------------------------
(* The streams of a pool. *)

\* The streams of a job are among those of its pool.
LEMMA OwnStreams ==
  ASSUME PoolsTypeOK, NEW j \in Jobs, job[j].pc = "running"
  PROVE  job[j].streams <= Cardinality(Busy(job[j].pool))
  <1> DEFINE own == {j} \X (1 .. job[j].streams)
             all == Jobs \X (1 .. MaxFiles)
             busy == Busy(job[j].pool)
  <1>1. job[j].streams \in 0 .. MaxFiles /\ MaxFiles \in Nat
    BY MemoryAssumption DEF PoolsTypeOK, JobState
  <1>2. IsFiniteSet(1 .. MaxFiles) /\ IsFiniteSet(1 .. job[j].streams)
        /\ Cardinality(1 .. job[j].streams) = job[j].streams
    BY <1>1, FS_Interval
  <1>3. IsFiniteSet(all)
    BY <1>2, FS_Product, MemoryAssumption
  <1>4. busy \subseteq all
    BY DEF Busy
  <1>5. IsFiniteSet(busy) /\ Cardinality(busy) \in Nat
    BY <1>3, <1>4, FS_Subset, FS_CardinalityType
  <1>6. own \subseteq busy
    BY <1>1 DEF Busy
  <1>7. Cardinality(own) <= Cardinality(busy)
    BY <1>5, <1>6, FS_Subset
  <1>8. IsFiniteSet({j}) /\ Cardinality({j}) = 1
    BY FS_Singleton
  <1>9. Cardinality(own) = Cardinality({j}) * Cardinality(1 .. job[j].streams)
    BY <1>2, <1>8, FS_Product
  <1> HIDE DEF own, busy
  <1>10. Cardinality(own) = job[j].streams
    BY <1>1, <1>2, <1>8, <1>9
  <1> QED
    BY <1>7, <1>10 DEF busy
-----------------------------------------------------------------------------
(* The steps. *)

LEMMA ThreadsType ==
  ASSUME NEW asked \in Asked \cup {Unasked} PROVE Pool(asked) \in PoolSet
  BY MemoryAssumption DEF Pool, Threads, PoolSet

LEMMA PoolsStart == PoolsInit => PoolsInv
  <1> SUFFICES ASSUME PoolsInit PROVE PoolsInv
    OBVIOUS
  <1>1. /\ pools = <<Pool(Unasked)>> /\ cache = 0
        /\ job = [j \in Jobs |-> [pc |-> "idle", asked |-> Unasked, width |-> 1, rows |-> MinRows,
                                  pool |-> 1, left |-> 0, streams |-> 0]]
    BY DEF PoolsInit
  <1>2. Pool(Unasked) \in PoolSet
    BY ThreadsType
  <1>3. pools \in Seq(PoolSet) /\ Len(pools) = 1 /\ pools[1] = Pool(Unasked) /\ DOMAIN pools = 1 .. 1
    BY <1>1, <1>2
  <1>4. PoolsTypeOK
    BY <1>1, <1>3, MemoryAssumption DEF PoolsTypeOK, JobState
  <1>5. PoolsMade(pools)
    BY <1>1, <1>3 DEF PoolsMade, Pool
  <1>6. \A j \in Jobs : Planned(job[j]) /\ PlacedIn(job[j], pools)
    BY <1>1, <1>3, MemoryAssumption DEF Planned, PlacedIn
  <1> QED
    BY <1>4, <1>5, <1>6 DEF PoolsInv

\* A step of one job that makes no pool.
LEMMA JobStep ==
  ASSUME PoolsInv, NEW j \in Jobs, NEW call \in JobState, job' = [job EXCEPT ![j] = call],
         UNCHANGED <<pools, cache>>, Planned(call), PlacedIn(call, pools)
  PROVE  PoolsInv'
  <1>1. PoolsTypeOK'
    <2>1. job' \in [Jobs -> JobState] /\ DOMAIN pools = 1 .. Len(pools)
      BY DEF PoolsInv, PoolsTypeOK
    <2>2. \A i \in Jobs : job'[i].pool <= Len(pools)
      BY <2>1 DEF PoolsInv, PoolsTypeOK, PlacedIn
    <2> QED
      BY <2>1, <2>2 DEF PoolsInv, PoolsTypeOK
  <1>2. \A i \in Jobs : Planned(job'[i]) /\ PlacedIn(job'[i], pools)
    BY DEF PoolsInv, PoolsTypeOK
  <1>3. \A i \in Jobs : Planned(job[i])' /\ PlacedIn(job[i], pools)'
    BY <1>2 DEF Planned, PlacedIn, SizedFor
  <1>4. PoolsMade(pools)'
    BY DEF PoolsInv, PoolsMade, Pool, Threads
  <1> QED
    BY <1>1, <1>3, <1>4 DEF PoolsInv

LEMMA StartKeeps ==
  ASSUME PoolsInv, NEW j \in Jobs, NEW asked \in Asked, NEW n \in 1 .. MaxFiles,
         NEW width \in Widths, Start(j, asked, n, width)
  PROVE  PoolsInv'
  <1> DEFINE streams == IF asked = Unasked THEN n ELSE asked
             rows == budget_batch_rows_for(streams, width)
             call == [job[j] EXCEPT !.pc = "sized", !.asked = asked, !.width = AtLeastOne(width),
                                    !.left = n, !.rows = rows]
  <1>1. job' = [job EXCEPT ![j] = call] /\ job[j].pc = "idle" /\ UNCHANGED <<pools, cache>>
    BY DEF Start
  <1>2. job[j] \in JobState /\ job[j].pool = 1 /\ job[j].streams = 0 /\ 1 \in DOMAIN pools
    BY <1>1 DEF PoolsInv, PoolsTypeOK, Planned, PlacedIn
  <1>3. streams \in Nat /\ width \in Nat /\ n \in 1 .. MaxFiles /\ n \in Nat \ {0}
    BY MemoryAssumption
  <1>4. rows \in MinRows .. MaxRows
        /\ (rows = MinRows \/ (7 * AtLeastOne(streams) * AtLeastOne(width)) * rows <= Ram * 2)
    BY <1>3, BudgetFits
  <1>5. AtLeastOne(width) \in Nat \ {0}
    BY <1>3 DEF AtLeastOne
  <1> DEFINE perRow == AtLeastOne(width)
  <1> HIDE DEF rows, perRow
  <1>6. /\ call.pc = "sized" /\ call.asked = asked /\ call.width = AtLeastOne(width)
        /\ call.left = n /\ call.rows = rows /\ call.pool = 1 /\ call.streams = 0
        /\ call \in JobState
    <2>1. n \in 0 .. MaxFiles /\ rows \in MinRows .. MaxRows /\ perRow \in Nat \ {0}
      BY <1>3, <1>4, <1>5, MemoryAssumption DEF perRow
    <2> QED
      BY <1>2, <2>1 DEF JobState, perRow
  <1> HIDE DEF call
  <1>7. Planned(call)
    <2>1. call.left + call.streams <= MaxFiles
      BY <1>3, <1>6, MemoryAssumption
    <2>2. ASSUME asked # 0 PROVE \E m \in Nat \ {0} : SizedFor(call, m)
      <3>1. CASE asked = Unasked
        <4>1. AtLeastOne(streams) = n
          BY <1>3, <3>1 DEF AtLeastOne
        <4>2. call.left + call.streams <= n
          BY <1>3, <1>6
        <4>3. SizedFor(call, n)
          BY <1>4, <1>6, <3>1, <4>1, <4>2 DEF SizedFor
        <4> QED
          BY <1>3, <4>3
      <3>2. CASE asked # Unasked
        <4>1. asked \in Nat \ {0} /\ AtLeastOne(streams) = asked
          BY <2>2, <3>2, MemoryAssumption DEF AtLeastOne
        <4>2. SizedFor(call, asked)
          BY <1>4, <1>6, <3>2, <4>1 DEF SizedFor
        <4> QED
          BY <4>1, <4>2
      <3> QED
        BY <3>1, <3>2
    <2> QED
      BY <1>6, <2>1, <2>2 DEF Planned
  <1>8. PlacedIn(call, pools)
    BY <1>2, <1>6 DEF PlacedIn
  <1> QED
    BY <1>1, <1>6, <1>7, <1>8, JobStep

\* A job that is sized goes to a pool that is there.
LEMMA SettleKeeps ==
  ASSUME PoolsInv, NEW j \in Jobs, job[j].pc = "sized", NEW p \in DOMAIN pools,
         pools[p].asked = job[j].asked,
         job' = [job EXCEPT ![j] = [job[j] EXCEPT !.pc = "running", !.pool = p]],
         UNCHANGED <<pools, cache>>
  PROVE  PoolsInv'
  <1> DEFINE call == [job[j] EXCEPT !.pc = "running", !.pool = p]
  <1>1. job[j] \in JobState /\ job[j].streams = 0 /\ Planned(job[j])
        /\ pools \in Seq(PoolSet)
    BY DEF PoolsInv, PoolsTypeOK, Planned
  <1>2. p \in Nat \ {0} /\ pools[p].threads \in Nat
    <2>1. p \in Nat \ {0} /\ pools[p] \in PoolSet
      BY <1>1
    <2> QED
      BY <2>1 DEF PoolSet
  <1>3. /\ call.pc = "running" /\ call.pool = p /\ call \in JobState
        /\ call.asked = job[j].asked /\ call.width = job[j].width /\ call.rows = job[j].rows
        /\ call.left = job[j].left /\ call.streams = job[j].streams
    BY <1>1, <1>2 DEF JobState
  <1> HIDE DEF call
  <1>4. Planned(call)
    BY <1>1, <1>3 DEF Planned, SizedFor
  <1>5. PlacedIn(call, pools)
    BY <1>1, <1>2, <1>3 DEF PlacedIn
  <1>6. job' = [job EXCEPT ![j] = call]
    BY DEF call
  <1> QED
    BY <1>3, <1>4, <1>5, <1>6, JobStep

\* A new pool changes nothing for the jobs that hold another one.
LEMMA NewPoolKeeps ==
  ASSUME PoolsInv, NEW j \in Jobs, job[j].pc = "sized",
         pools' = Append(pools, Pool(job[j].asked)), cache' = Len(pools'),
         job' = [job EXCEPT ![j] = [job[j] EXCEPT !.pc = "running", !.pool = Len(pools')]]
  PROVE  PoolsInv'
  <1> DEFINE p == Len(pools')
             call == [job[j] EXCEPT !.pc = "running", !.pool = p]
             new == Pool(job[j].asked)
  <1>1. job[j] \in JobState /\ job[j].streams = 0 /\ Planned(job[j])
        /\ pools \in Seq(PoolSet) /\ PoolsMade(pools)
    BY DEF PoolsInv, PoolsTypeOK, Planned
  <1>2. new \in PoolSet /\ new.asked = job[j].asked /\ new = Pool(new.asked) /\ new.threads \in Nat
    BY <1>1, ThreadsType DEF JobState, Pool, PoolSet
  <1> HIDE DEF new
  <1>3. /\ pools' \in Seq(PoolSet) /\ p = Len(pools) + 1 /\ p \in Nat \ {0}
        /\ DOMAIN pools' = 1 .. p /\ pools'[p] = new /\ DOMAIN pools = 1 .. p - 1
        /\ \A i \in DOMAIN pools : pools'[i] = pools[i] /\ i \in DOMAIN pools'
    BY <1>1, <1>2 DEF new
  <1> HIDE DEF p
  <1>4. /\ call.pc = "running" /\ call.pool = p /\ call \in JobState
        /\ call.asked = job[j].asked /\ call.width = job[j].width /\ call.rows = job[j].rows
        /\ call.left = job[j].left /\ call.streams = job[j].streams
    BY <1>1, <1>3 DEF JobState
  <1> HIDE DEF call
  <1>5. job' = [job EXCEPT ![j] = call]
    BY DEF call, p
  <1>6. PoolsMade(pools')
    <2>1. 1 \in DOMAIN pools
      BY <1>1 DEF PoolsMade
    <2>2. \A i \in DOMAIN pools' : i = p \/ i \in DOMAIN pools
      BY <1>3
    <2> QED
      BY <1>1, <1>2, <1>3, <2>1, <2>2 DEF PoolsMade
  <1>7. Planned(call) /\ PlacedIn(call, pools')
    BY <1>1, <1>2, <1>3, <1>4 DEF Planned, SizedFor, PlacedIn
  <1>8. \A i \in Jobs : Planned(job[i]) /\ PlacedIn(job[i], pools')
    BY <1>3 DEF PoolsInv, PlacedIn
  <1>9. job' \in [Jobs -> JobState] /\ \A i \in Jobs : Planned(job'[i]) /\ PlacedIn(job'[i], pools')
    BY <1>4, <1>5, <1>7, <1>8 DEF PoolsInv, PoolsTypeOK
  <1>10. PoolsTypeOK'
    <2>1. \A i \in Jobs : job'[i].pool <= Len(pools')
      BY <1>3, <1>9 DEF PlacedIn, p
    <2>2. cache' \in 0 .. Len(pools')
      BY <1>3 DEF p
    <2> QED
      BY <1>3, <1>9, <2>1, <2>2 DEF PoolsTypeOK, PoolSet, JobState
  <1>11. \A i \in Jobs : Planned(job[i])' /\ PlacedIn(job[i], pools)'
    BY <1>9 DEF Planned, PlacedIn, SizedFor
  <1>12. PoolsMade(pools)'
    BY <1>6 DEF PoolsMade, Pool, Threads
  <1> QED
    BY <1>10, <1>11, <1>12 DEF PoolsInv

LEMMA TakePoolKeeps == ASSUME PoolsInv, NEW j \in Jobs, TakePool(j) PROVE PoolsInv'
  <1>1. job[j].pc = "sized" /\ job[j] \in JobState /\ cache \in 0 .. Len(pools) /\ pools \in Seq(PoolSet)
    BY DEF TakePool, PoolsInv, PoolsTypeOK
  <1>2. CASE Kept /\ pools[cache].asked = job[j].asked
    <2>1. job' = [job EXCEPT ![j] = [job[j] EXCEPT !.pc = "running", !.pool = cache]]
          /\ UNCHANGED <<pools, cache>>
      BY <1>1, <1>2 DEF TakePool, PoolsInv, PoolsTypeOK
    <2>2. cache \in DOMAIN pools
      BY <1>1, <1>2 DEF Kept
    <2> QED
      BY <1>1, <1>2, <2>1, <2>2, SettleKeeps
  <1>3. CASE ~(Kept /\ pools[cache].asked = job[j].asked)
    <2>1. /\ pools' = Append(pools, Pool(job[j].asked)) /\ cache' = Len(pools')
          /\ job' = [job EXCEPT ![j].pc = "running", ![j].pool = Len(pools')]
      BY <1>3 DEF TakePool
    <2>2. job' = [job EXCEPT ![j] = [job[j] EXCEPT !.pc = "running", !.pool = Len(pools')]]
      BY <1>1, <2>1 DEF PoolsInv, PoolsTypeOK
    <2> QED
      BY <1>1, <2>1, <2>2, NewPoolKeeps
  <1> QED
    BY <1>2, <1>3

LEMMA RunInPlaceKeeps == ASSUME PoolsInv, NEW j \in Jobs, RunInPlace(j) PROVE PoolsInv'
  <1>1. job[j].pc = "sized" /\ job[j].asked = Unasked /\ UNCHANGED <<pools, cache>>
        /\ job' = [job EXCEPT ![j].pc = "running"]
    BY DEF RunInPlace
  <1>2. job[j] \in JobState /\ job[j].pool = 1 /\ 1 \in DOMAIN pools /\ pools[1].asked = Unasked
    BY <1>1 DEF PoolsInv, PoolsTypeOK, PoolsMade, Planned, PlacedIn
  <1>3. job' = [job EXCEPT ![j] = [job[j] EXCEPT !.pc = "running", !.pool = 1]]
    BY <1>1, <1>2 DEF PoolsInv, PoolsTypeOK, JobState
  <1> QED
    BY <1>1, <1>2, <1>3, SettleKeeps

LEMMA OpenStreamKeeps == ASSUME PoolsInv, NEW j \in Jobs, OpenStream(j) PROVE PoolsInv'
  <1> DEFINE call == [job[j] EXCEPT !.left = job[j].left - 1, !.streams = job[j].streams + 1]
             pool == job[j].pool
  <1>1. /\ job[j].pc = "running" /\ job[j].left > 0 /\ UNCHANGED <<pools, cache>>
        /\ Cardinality(Busy(pool)) < pools[pool].threads
        /\ job[j] \in JobState /\ Planned(job[j]) /\ PlacedIn(job[j], pools)
    BY DEF OpenStream, PoolsInv, PoolsTypeOK
  <1>2. job' = [job EXCEPT ![j] = call]
    BY DEF OpenStream, PoolsInv, PoolsTypeOK
  <1>3. job[j].left + job[j].streams <= MaxFiles /\ MaxFiles \in Nat
    BY <1>1, MemoryAssumption DEF Planned
  <1>4. job[j].left \in Nat \ {0} /\ job[j].streams \in Nat
    BY <1>1, <1>3 DEF JobState
  <1>5. job[j].left - 1 \in 0 .. MaxFiles /\ job[j].streams + 1 \in 0 .. MaxFiles
    BY <1>3, <1>4
  <1>6. /\ call \in JobState /\ call.pc = "running" /\ call.pool = pool
        /\ call.asked = job[j].asked /\ call.width = job[j].width /\ call.rows = job[j].rows
        /\ call.left = job[j].left - 1 /\ call.streams = job[j].streams + 1
    BY <1>1, <1>5 DEF JobState
  <1> HIDE DEF call, pool
  <1>7. call.left + call.streams = job[j].left + job[j].streams
    BY <1>4, <1>6
  <1>8. Planned(call)
    BY <1>1, <1>6, <1>7 DEF Planned, SizedFor
  <1>9. call.streams <= pools[pool].threads
    <2>1. job[j].streams <= Cardinality(Busy(pool)) /\ Cardinality(Busy(pool)) \in Nat
      <3>1. job[j].streams <= Cardinality(Busy(pool))
        BY <1>1, OwnStreams DEF PoolsInv, pool
      <3>2. IsFiniteSet(Jobs \X (1 .. MaxFiles))
        <4>1. IsFiniteSet(1 .. MaxFiles)
          BY <1>3, FS_Interval
        <4> QED
          BY <4>1, FS_Product, MemoryAssumption
      <3>3. Busy(pool) \subseteq Jobs \X (1 .. MaxFiles)
        BY DEF Busy
      <3> QED
        BY <3>1, <3>2, <3>3, FS_Subset, FS_CardinalityType
    <2>2. pools[pool].threads \in Nat
      <3>1. pools[pool] \in PoolSet
        BY <1>1 DEF PlacedIn, PoolsInv, PoolsTypeOK, pool
      <3> QED
        BY <3>1 DEF PoolSet
    <2> QED
      BY <1>1, <1>4, <1>6, <2>1, <2>2
  <1>10. PlacedIn(call, pools)
    BY <1>1, <1>6, <1>9 DEF PlacedIn, pool
  <1> QED
    BY <1>1, <1>2, <1>6, <1>8, <1>10, JobStep

LEMMA CloseStreamKeeps == ASSUME PoolsInv, NEW j \in Jobs, CloseStream(j) PROVE PoolsInv'
  <1> DEFINE call == [job[j] EXCEPT !.streams = job[j].streams - 1]
  <1>1. /\ job[j].streams > 0 /\ UNCHANGED <<pools, cache>>
        /\ job[j] \in JobState /\ Planned(job[j]) /\ PlacedIn(job[j], pools)
    BY DEF CloseStream, PoolsInv, PoolsTypeOK
  <1>2. job' = [job EXCEPT ![j] = call]
    BY DEF CloseStream, PoolsInv, PoolsTypeOK
  <1>3. /\ job[j].pc = "running" /\ job[j].left \in Nat /\ job[j].streams \in Nat \ {0}
        /\ MaxFiles \in Nat /\ job[j].streams - 1 \in 0 .. MaxFiles
    BY <1>1, MemoryAssumption DEF JobState, Planned
  <1>4. /\ call \in JobState /\ call.pc = "running" /\ call.pool = job[j].pool
        /\ call.asked = job[j].asked /\ call.width = job[j].width /\ call.rows = job[j].rows
        /\ call.left = job[j].left /\ call.streams = job[j].streams - 1
    BY <1>1, <1>3 DEF JobState
  <1> HIDE DEF call
  <1>5. call.left + call.streams < job[j].left + job[j].streams /\ call.streams < job[j].streams
    BY <1>3, <1>4
  <1>6. Planned(call)
    <2>1. call.left + call.streams <= MaxFiles
      BY <1>1, <1>3, <1>4, <1>5 DEF Planned
    <2>2. \A n \in Nat \ {0} : SizedFor(job[j], n) => SizedFor(call, n)
      BY <1>3, <1>4, <1>5 DEF SizedFor
    <2> QED
      BY <1>1, <1>3, <1>4, <2>1, <2>2 DEF Planned
  <1>7. PlacedIn(call, pools)
    <2>1. pools[job[j].pool].threads \in Nat
      <3>1. pools[job[j].pool] \in PoolSet
        BY <1>1 DEF PlacedIn, PoolsInv, PoolsTypeOK
      <3> QED
        BY <3>1 DEF PoolSet
    <2> QED
      BY <1>1, <1>3, <1>4, <2>1 DEF PlacedIn
  <1> QED
    BY <1>1, <1>2, <1>4, <1>6, <1>7, JobStep

LEMMA FinishKeeps == ASSUME PoolsInv, NEW j \in Jobs, Finish(j) PROVE PoolsInv'
  <1> DEFINE call == [job[j] EXCEPT !.pc = "done"]
  <1>1. /\ job[j].pc = "running" /\ job[j].streams = 0 /\ UNCHANGED <<pools, cache>>
        /\ job[j] \in JobState /\ Planned(job[j]) /\ PlacedIn(job[j], pools)
    BY DEF Finish, PoolsInv, PoolsTypeOK
  <1>2. job' = [job EXCEPT ![j] = call]
    BY DEF Finish, PoolsInv, PoolsTypeOK
  <1>3. /\ call \in JobState /\ call.pc = "done" /\ call.pool = job[j].pool
        /\ call.asked = job[j].asked /\ call.width = job[j].width /\ call.rows = job[j].rows
        /\ call.left = job[j].left /\ call.streams = job[j].streams
    BY <1>1 DEF JobState
  <1> HIDE DEF call
  <1>4. Planned(call) /\ PlacedIn(call, pools)
    BY <1>1, <1>3 DEF Planned, SizedFor, PlacedIn
  <1> QED
    BY <1>1, <1>2, <1>3, <1>4, JobStep

LEMMA PoolsStep == PoolsInv /\ [PoolsNext]_memoryVars => PoolsInv'
  <1> SUFFICES ASSUME PoolsInv, [PoolsNext]_memoryVars PROVE PoolsInv'
    OBVIOUS
  <1>1. ASSUME NEW j \in Jobs, Step(j) PROVE PoolsInv'
    <2>1. CASE \E asked \in Asked, n \in 1 .. MaxFiles, width \in Widths : Start(j, asked, n, width)
      BY <2>1, StartKeeps
    <2>2. CASE TakePool(j) \/ RunInPlace(j)
      BY <2>2, TakePoolKeeps, RunInPlaceKeeps
    <2>3. CASE OpenStream(j) \/ CloseStream(j) \/ Finish(j)
      BY <2>3, OpenStreamKeeps, CloseStreamKeeps, FinishKeeps
    <2> QED
      BY <1>1, <2>1, <2>2, <2>3 DEF Step
  <1>2. CASE UNCHANGED memoryVars
    <2> USE <1>2 DEF memoryVars, PoolsInv
    <2>1. PoolsTypeOK'
      BY DEF PoolsTypeOK, PoolSet, JobState
    <2>2. PoolsMade(pools)'
      BY DEF PoolsMade, Pool, Threads
    <2>3. \A j \in Jobs : Planned(job[j])' /\ PlacedIn(job[j], pools)'
      BY DEF Planned, SizedFor, PlacedIn
    <2> QED
      BY <2>1, <2>2, <2>3
  <1> QED
    BY <1>1, <1>2 DEF PoolsNext

LEMMA PoolsKeepInv == PoolsSpec => []PoolsInv
  BY PoolsStart, PoolsStep, PTL DEF PoolsSpec
-----------------------------------------------------------------------------
\* Pools, batches and streams keep their types; the size of a batch stays in
\* its bounds for every budget (memory.rs:60-107).
THEOREM PoolsTyped == PoolsSpec => []PoolsTypeOK
  BY PoolsKeepInv, PTL DEF PoolsInv

\* However many jobs change the pool that is kept, each runs on as many threads
\* as it asked for (memory.rs:85-107).
THEOREM JobsRunAsAsked == PoolsSpec => []PoolAsAsked
  <1>1. PoolsInv => PoolAsAsked
    <2> SUFFICES ASSUME PoolsInv, NEW j \in Jobs, job[j].pc = "running"
                 PROVE  pools[job[j].pool].threads = Threads(job[j].asked)
      BY DEF PoolAsAsked
    <2>1. job[j].pool \in DOMAIN pools /\ pools[job[j].pool].asked = job[j].asked
      BY DEF PoolsInv, PlacedIn
    <2>2. pools[job[j].pool] = Pool(job[j].asked)
      BY <2>1 DEF PoolsInv, PoolsMade
    <2> QED
      BY <2>2 DEF Pool
  <1> QED
    BY <1>1, PoolsKeepInv, PTL

LEMMA StreamsFit == ASSUME PoolsInv PROVE BudgetKept
  <1> SUFFICES ASSUME NEW j \in Jobs, job[j].asked # 0, job[j].rows # MinRows
               PROVE  job[j].streams * job[j].rows * job[j].width * 7 <= Ram * 2
    BY DEF BudgetKept
  <1> DEFINE call == job[j]
  <1>1. call \in JobState /\ Planned(call) /\ PlacedIn(call, pools)
    BY DEF PoolsInv, PoolsTypeOK
  <1> HIDE DEF call
  <1>2. call.rows # MinRows /\ call.asked # 0
    BY DEF call
  <1>3. PICK n \in Nat \ {0} : SizedFor(call, n)
    BY <1>1, <1>2 DEF Planned
  <1>4. /\ call.rows \in Nat /\ call.width \in Nat /\ call.streams \in Nat /\ call.left \in Nat
        /\ Ram \in Nat
    BY <1>1, MemoryAssumption DEF JobState
  <1>5. call.streams <= n
    <2>1. CASE call.asked = Unasked
      BY <1>3, <1>4, <2>1 DEF SizedFor
    <2>2. CASE call.asked # Unasked
      <3>1. n = call.asked
        BY <1>3, <2>2 DEF SizedFor
      <3>2. CASE call.pc = "running"
        <4>1. /\ call.pool \in DOMAIN pools /\ pools[call.pool].asked = call.asked
              /\ call.streams <= pools[call.pool].threads
          BY <1>1, <3>2 DEF PlacedIn
        <4>2. pools[call.pool].threads = Threads(call.asked)
          BY <4>1 DEF PoolsInv, PoolsMade, Pool
        <4>3. Threads(call.asked) = call.asked
          BY <1>2, <2>2 DEF Threads
        <4> QED
          BY <3>1, <4>1, <4>2, <4>3
      <3>3. CASE call.pc # "running"
        BY <1>1, <1>4, <3>3 DEF Planned
      <3> QED
        BY <3>2, <3>3
    <2> QED
      BY <2>1, <2>2
  <1> DEFINE k == 7 * call.width * call.rows
  <1>6. k \in Nat /\ n * k = (7 * n * call.width) * call.rows
        /\ call.streams * call.rows * call.width * 7 = call.streams * k
    BY <1>4
  <1>7. (7 * n * call.width) * call.rows <= Ram * 2
    BY <1>2, <1>3 DEF SizedFor
  <1> HIDE DEF k
  <1>8. call.streams * k <= n * k /\ call.streams * k \in Nat /\ n * k \in Nat
    BY <1>4, <1>5, <1>6, Multiply
  <1>9. call.streams * k <= Ram * 2
    BY <1>4, <1>6, <1>7, <1>8
  <1> QED
    BY <1>6, <1>9 DEF call

\* The batches of all streams of a job fit in the budget, or are the smallest
\* there may be, whatever pools other jobs take (memory.rs:64-69, 85-107).
THEOREM BudgetIsKept == PoolsSpec => []BudgetKept
  <1>1. PoolsInv => BudgetKept
    BY StreamsFit
  <1> QED
    BY <1>1, PoolsKeepInv, PTL
-----------------------------------------------------------------------------
(***************************************************************************)
(* The progress bar.                                                       *)
(***************************************************************************)

\* The workers that have counted their file.
Counted == {w \in Workers : worker[w].pc \notin {"inspect", "left"}}

\* What is counted is the number of workers that have counted; each has a
\* number of its own, and the last number there is belongs to one of them.
CountersRight ==
  /\ files = Cardinality(Counted)
  /\ \A w \in Workers :
       /\ worker[w].files <= files
       /\ w \notin Counted => worker[w].files = 0
       /\ w \in Counted => worker[w].files > 0
  /\ \A v, w \in Counted : worker[v].files = worker[w].files => v = w
  /\ files > 0 => \E w \in Workers : worker[w].files = files

\* A line has the number of a worker that is done, no two have the same, and a
\* done worker with the last number has drawn it, if the bar is shown.
LinesRight ==
  /\ \A w \in Workers : worker[w].pc \in {"added", "timed"} => show
  /\ ~show => lines = <<>>
  /\ \A i \in DOMAIN lines :
       \E w \in Workers : worker[w].pc = "done" /\ worker[w].files = lines[i].files
  /\ \A i, j \in DOMAIN lines : lines[i].files = lines[j].files => i = j
  /\ \A w \in Workers :
       worker[w].pc = "done" /\ show /\ worker[w].files = total_files =>
         \E i \in DOMAIN lines : lines[i].files = total_files

\* Nobody is ahead of the clock, and the time that is kept is that of the last
\* line.
TimesRight ==
  /\ \A w \in Workers : worker[w].now <= clock
  /\ lines # <<>> => last = lines[Len(lines)].now

TrackerInv == TrackerTypeOK /\ CountersRight /\ LinesRight /\ TimesRight /\ LinesApart
-----------------------------------------------------------------------------
LEMMA TotalFiles == total_files \in Nat \ {0}
  BY TrackerAssumption, FS_CardinalityType, FS_EmptySet DEF total_files

\* A worker that counts raises the number of those that have counted by one.
LEMMA CountedGrows ==
  ASSUME NEW w \in Workers, w \notin Counted, Counted' = Counted \cup {w}
  PROVE  /\ Cardinality(Counted)' = Cardinality(Counted) + 1
         /\ Cardinality(Counted) + 1 <= total_files
         /\ Cardinality(Counted) \in Nat
  <1>1. IsFiniteSet(Workers)
    BY TrackerAssumption
  <1>2. Counted \subseteq Workers
    BY DEF Counted
  <1>3. IsFiniteSet(Counted) /\ Cardinality(Counted) \in Nat
    BY <1>1, <1>2, FS_Subset, FS_CardinalityType
  <1>4. Cardinality(Counted \cup {w}) = Cardinality(Counted) + 1
    BY <1>3, FS_AddElement
  <1>5. Cardinality(Counted \cup {w}) <= Cardinality(Workers)
    BY <1>1, <1>2, FS_Subset
  <1> QED
    BY <1>3, <1>4, <1>5 DEF total_files

\* When all have ended and nothing was left out, the counter is the number of files.
LEMMA AllCounted ==
  ASSUME Finished, ~LeftOut PROVE Counted = Workers
  BY DEF Finished, LeftOut, Counted

\* While a file is left out, the counter is below it.
LEMMA NotAllCounted ==
  ASSUME LeftOut PROVE Cardinality(Counted) < total_files
  <1>1. PICK w \in Workers : w \notin Counted
    BY DEF LeftOut, Counted
  <1>2. IsFiniteSet(Workers) /\ Counted \subseteq Workers /\ Counted # Workers
    BY <1>1, TrackerAssumption DEF Counted
  <1>3. Cardinality(Counted) \in Nat /\ Cardinality(Workers) \in Nat
    BY <1>2, FS_Subset, FS_CardinalityType
  <1>4. Cardinality(Counted) <= Cardinality(Workers) /\ Cardinality(Counted) # Cardinality(Workers)
    BY <1>2, FS_Subset
  <1>5. QED
    BY <1>3, <1>4 DEF total_files
-----------------------------------------------------------------------------
LEMMA StartsRight == TrackerInit => TrackerInv
  <1> SUFFICES ASSUME TrackerInit PROVE TrackerInv
    OBVIOUS
  <1> USE DEF TrackerInit, TrackerStart
  <1>1. TrackerTypeOK
    BY TotalFiles, TrackerAssumption DEF TrackerTypeOK, WorkerState
  <1>2. CountersRight
    <2>1. Counted = {}
      BY DEF Counted
    <2> QED
      BY <2>1, FS_EmptySet DEF CountersRight
  <1>3. LinesRight
    BY DEF LinesRight
  <1>4. TimesRight /\ LinesApart
    BY DEF TimesRight, LinesApart
  <1> QED
    BY <1>1, <1>2, <1>3, <1>4 DEF TrackerInv

\* A step of one worker leaves the others as they are.
Others(w) == \A v \in Workers \ {w} : worker'[v] = worker[v]

LEMMA StateKept ==
  ASSUME TrackerTypeOK, NEW w \in Workers, NEW state \in WorkerState,
         worker' = [worker EXCEPT ![w] = state]
  PROVE  /\ worker' \in [Workers -> WorkerState]
         /\ worker'[w] = state
         /\ Others(w)
  BY DEF TrackerTypeOK, Others

LEMMA TotalKept == total_files' = total_files
  BY DEF total_files

LEMMA TickKeeps == ASSUME TrackerInv, Tick PROVE TrackerInv'
  <1> USE DEF Tick, TrackerInv
  <1>1. TrackerTypeOK'
    BY TrackerAssumption, TotalKept DEF TrackerTypeOK, WorkerState, Line
  <1>2. CountersRight'
    BY DEF CountersRight, Counted
  <1>3. LinesRight'
    BY DEF LinesRight, total_files
  <1>4. TimesRight' /\ LinesApart'
    <2>1. \A w \in Workers : worker[w].now \in Nat
      BY DEF TrackerTypeOK, WorkerState
    <2>2. TimesRight'
      BY <2>1, TrackerAssumption DEF TrackerTypeOK, TimesRight
    <2>3. LinesApart'
      BY DEF LinesApart, total_files
    <2> QED
      BY <2>2, <2>3
  <1> QED
    BY <1>1, <1>2, <1>3, <1>4

LEMMA CountFileKeeps == ASSUME TrackerInv, NEW w \in Workers, CountFile(w) PROVE TrackerInv'
  <1> USE DEF TrackerInv
  <1> DEFINE state == [worker[w] EXCEPT !.pc = "counted", !.files = files + 1]
  <1>1. /\ worker' = [worker EXCEPT ![w] = state] /\ worker[w] \in WorkerState
        /\ files' = files + 1 /\ worker[w].pc = "inspect"
        /\ UNCHANGED <<show, size, broken, bytes, clock, last, lines>>
    BY DEF CountFile, TrackerTypeOK
  <1>2. w \notin Counted
    BY <1>1 DEF Counted
  <1>3. files \in Nat /\ files + 1 \in 1 .. total_files
    <2>1. \A v \in Workers \ {w} : worker'[v].pc = worker[v].pc
      BY <1>1 DEF TrackerTypeOK
    <2>2. worker'[w].pc = "counted"
      BY <1>1 DEF TrackerTypeOK, WorkerState
    <2>3. Counted' = Counted \cup {w}
      BY <2>1, <2>2 DEF Counted
    <2> QED
      BY <1>2, <2>3, CountedGrows, TotalFiles DEF CountersRight
  <1>4. state \in WorkerState /\ state.pc = "counted" /\ state.files = files + 1 /\ state.now = worker[w].now
    <2>1. files + 1 \in 0 .. total_files
      BY <1>3, TotalFiles
    <2> QED
      BY <1>1, <2>1 DEF WorkerState
  <1>5. worker' \in [Workers -> WorkerState] /\ worker'[w] = state /\ Others(w)
    BY <1>1, <1>4, StateKept
  <1> HIDE DEF state
  <1>6. TrackerTypeOK'
    BY <1>1, <1>3, <1>5, TotalFiles, TotalKept DEF TrackerTypeOK, WorkerState, Line
  <1>7. CountersRight'
    <2>1. Counted' = Counted \cup {w}
      BY <1>4, <1>5 DEF Counted, Others
    <2>2. files' = Cardinality(Counted)'
      BY <1>1, <1>2, <2>1, CountedGrows DEF CountersRight
    <2>3. \A v \in Workers : worker[v].files \in Nat /\ worker[v].files <= files
      BY TotalFiles DEF TrackerTypeOK, WorkerState, CountersRight
    <2>4. ASSUME NEW v \in Workers
          PROVE  /\ worker'[v].files <= files'
                 /\ v \notin Counted' => worker'[v].files = 0
                 /\ v \in Counted' => worker'[v].files > 0
      <3>1. CASE v = w
        BY <1>1, <1>3, <1>4, <1>5, <2>1, <3>1
      <3>2. CASE v # w
        BY <1>1, <1>3, <1>5, <2>1, <2>3, <3>2 DEF Others, CountersRight
      <3> QED
        BY <3>1, <3>2
    <2>5. ASSUME NEW v \in Counted', NEW u \in Counted', worker'[v].files = worker'[u].files
          PROVE  v = u
      <3>1. \A x \in Counted : x \in Workers /\ worker'[x] = worker[x] /\ worker'[x].files <= files
        BY <1>2, <1>5, <2>3 DEF Counted, Others
      <3>2. worker'[w].files = files + 1
        BY <1>4, <1>5
      <3>3. \A x \in Counted : worker'[x].files # files + 1
        BY <1>3, <2>3, <3>1
      <3> QED
        BY <2>1, <2>5, <3>1, <3>2, <3>3 DEF CountersRight
    <2>6. worker'[w].files = files'
      BY <1>1, <1>4, <1>5
    <2> QED
      BY <2>2, <2>4, <2>5, <2>6 DEF CountersRight
  <1>8. LinesRight'
    BY <1>1, <1>4, <1>5, TotalKept DEF LinesRight, Others
  <1>9. TimesRight'
    BY <1>1, <1>4, <1>5 DEF TimesRight, Others
  <1>10. LinesApart'
    BY <1>1, TotalKept DEF LinesApart
  <1> QED
    BY <1>6, <1>7, <1>8, <1>9, <1>10

LEMMA AddBytesKeeps == ASSUME TrackerInv, NEW w \in Workers, AddBytes(w) PROVE TrackerInv'
  <1> USE DEF TrackerInv
  <1> DEFINE next == IF show THEN "added" ELSE "done"
             state == [worker[w] EXCEPT !.pc = next, !.bytes = bytes + size[w]]
  <1>1. /\ worker' = [worker EXCEPT ![w] = state] /\ worker[w] \in WorkerState
        /\ worker[w].pc = "counted" /\ bytes' = bytes + size[w]
        /\ UNCHANGED <<show, size, broken, files, clock, last, lines>>
    <2>1. worker[w] \in WorkerState
      BY DEF TrackerTypeOK
    <2>2. worker' = [worker EXCEPT ![w] = [worker[w] EXCEPT !.pc = next, !.bytes = bytes']]
      BY DEF AddBytes, TrackerTypeOK
    <2> QED
      BY <2>1, <2>2 DEF AddBytes
  <1>2. bytes + size[w] \in Nat
    <2>1. bytes \in Nat /\ size[w] \in Nat
      BY TrackerAssumption DEF TrackerTypeOK
    <2> QED
      BY <2>1
  <1>3. /\ state \in WorkerState /\ state.pc = next
        /\ state.files = worker[w].files /\ state.now = worker[w].now
    BY <1>1, <1>2 DEF WorkerState
  <1>4. worker' \in [Workers -> WorkerState] /\ worker'[w] = state /\ Others(w)
    BY <1>1, <1>3, StateKept
  <1> HIDE DEF state
  <1>5. TrackerTypeOK'
    BY <1>1, <1>2, <1>4, TotalKept DEF TrackerTypeOK, WorkerState, Line
  <1>6. CountersRight'
    <2>1. Counted' = Counted
      BY <1>1, <1>3, <1>4 DEF Counted, Others
    <2>2. \A v \in Workers : worker'[v].files = worker[v].files
      BY <1>1, <1>3, <1>4 DEF Others
    <2>3. \A v \in Counted : v \in Workers
      BY DEF Counted
    <2> QED
      BY <1>1, <2>1, <2>2, <2>3 DEF CountersRight
  <1>7. LinesRight'
    <2>1. \A v \in Workers : worker'[v].files = worker[v].files
      BY <1>3, <1>4 DEF Others
    <2>2. ASSUME ~show PROVE LinesRight'
      BY <1>1, <1>3, <1>4, <2>2, TotalKept DEF LinesRight, Others
    <2>3. ASSUME show PROVE LinesRight'
      <3>1. worker'[w].pc = "added"
        BY <1>3, <1>4, <2>3
      <3> QED
        BY <1>1, <1>4, <2>1, <2>3, <3>1, TotalKept DEF LinesRight, Others
    <2> QED
      BY <2>2, <2>3
  <1>8. TimesRight'
    BY <1>1, <1>3, <1>4 DEF TimesRight, Others
  <1>9. LinesApart'
    BY <1>1, TotalKept DEF LinesApart
  <1> QED
    BY <1>5, <1>6, <1>7, <1>8, <1>9

LEMMA TakeTimeKeeps == ASSUME TrackerInv, NEW w \in Workers, TakeTime(w) PROVE TrackerInv'
  <1> USE DEF TrackerInv
  <1> DEFINE state == [worker[w] EXCEPT !.pc = "timed", !.now = clock]
  <1>1. /\ worker' = [worker EXCEPT ![w] = state] /\ worker[w] \in WorkerState
        /\ worker[w].pc = "added"
        /\ UNCHANGED <<show, size, broken, files, bytes, clock, last, lines>>
    BY DEF TakeTime, TrackerTypeOK
  <1>2. /\ state \in WorkerState /\ state.pc = "timed"
        /\ state.files = worker[w].files /\ state.now = clock
    BY <1>1 DEF WorkerState, TrackerTypeOK
  <1>3. worker' \in [Workers -> WorkerState] /\ worker'[w] = state /\ Others(w)
    BY <1>1, <1>2, StateKept
  <1> HIDE DEF state
  <1>4. TrackerTypeOK'
    BY <1>1, <1>3, TotalKept DEF TrackerTypeOK, WorkerState, Line
  <1>5. CountersRight'
    <2>1. Counted' = Counted
      BY <1>1, <1>2, <1>3 DEF Counted, Others
    <2>2. \A v \in Workers : worker'[v].files = worker[v].files
      BY <1>1, <1>2, <1>3 DEF Others
    <2>3. \A v \in Counted : v \in Workers
      BY DEF Counted
    <2> QED
      BY <1>1, <2>1, <2>2, <2>3 DEF CountersRight
  <1>6. LinesRight'
    <2>1. show
      BY <1>1 DEF LinesRight
    <2>2. \A v \in Workers : worker'[v].files = worker[v].files
      BY <1>2, <1>3 DEF Others
    <2> QED
      BY <1>1, <1>2, <1>3, <2>1, <2>2, TotalKept DEF LinesRight, Others
  <1>7. TimesRight'
    <2>1. clock \in Nat
      BY TrackerAssumption DEF TrackerTypeOK
    <2> QED
      BY <1>1, <1>2, <1>3, <2>1 DEF TimesRight, Others
  <1>8. LinesApart'
    BY <1>1, TotalKept DEF LinesApart
  <1> QED
    BY <1>4, <1>5, <1>6, <1>7, <1>8

\* A worker that has drawn, or has not, is done.
LEMMA DoneKeeps ==
  ASSUME TrackerInv, NEW w \in Workers, Render(w)
  PROVE  /\ worker[w].pc = "timed" /\ worker'[w].pc = "done"
         /\ worker'[w].files = worker[w].files /\ worker'[w].now = worker[w].now
         /\ worker[w] \in WorkerState /\ Others(w)
         /\ worker' \in [Workers -> WorkerState]
         /\ CountersRight' /\ UNCHANGED <<show, size, broken, files, bytes, clock>>
  <1> USE DEF TrackerInv
  <1> DEFINE state == [worker[w] EXCEPT !.pc = "done"]
  <1>1. /\ worker' = [worker EXCEPT ![w] = state] /\ worker[w] \in WorkerState
        /\ worker[w].pc = "timed"
        /\ UNCHANGED <<show, size, broken, files, bytes, clock>>
    BY DEF Render, TrackerTypeOK
  <1>2. /\ state \in WorkerState /\ state.pc = "done"
        /\ state.files = worker[w].files /\ state.now = worker[w].now
    BY <1>1 DEF WorkerState
  <1>3. worker' \in [Workers -> WorkerState] /\ worker'[w] = state /\ Others(w)
    BY <1>1, <1>2, StateKept
  <1> HIDE DEF state
  <1>4. CountersRight'
    <2>1. Counted' = Counted
      BY <1>1, <1>2, <1>3 DEF Counted, Others
    <2>2. \A v \in Workers : worker'[v].files = worker[v].files
      BY <1>1, <1>2, <1>3 DEF Others
    <2>3. \A v \in Counted : v \in Workers
      BY DEF Counted
    <2> QED
      BY <1>1, <2>1, <2>2, <2>3 DEF CountersRight
  <1> QED
    BY <1>1, <1>2, <1>3, <1>4

LEMMA SilentKeeps ==
  ASSUME TrackerInv, NEW w \in Workers, Render(w),
         worker[w].files # total_files, UNCHANGED <<last, lines>>
  PROVE  TrackerInv'
  <1> USE DEF TrackerInv
  <1>1. /\ worker[w].pc = "timed" /\ worker'[w].pc = "done"
        /\ worker'[w].files = worker[w].files /\ worker'[w].now = worker[w].now
        /\ Others(w) /\ worker' \in [Workers -> WorkerState]
        /\ CountersRight' /\ UNCHANGED <<show, size, broken, files, bytes, clock>>
    BY DoneKeeps
  <1>2. TrackerTypeOK'
    BY <1>1, TotalKept DEF TrackerTypeOK, WorkerState, Line
  <1>3. LinesRight'
    <2>1. \A v \in Workers : worker'[v].files = worker[v].files
      BY <1>1 DEF Others
    <2> QED
      BY <1>1, <2>1, TotalKept DEF LinesRight, Others
  <1>4. TimesRight'
    BY <1>1 DEF TimesRight, Others
  <1>5. LinesApart'
    BY TotalKept DEF LinesApart
  <1> QED
    BY <1>1, <1>2, <1>3, <1>4, <1>5

\* A line that is drawn bears a number no other line bears.
LEMMA DrawingKeeps ==
  ASSUME TrackerInv, NEW w \in Workers, Render(w),
         Since(worker[w].now) >= Throttle \/ worker[w].files = total_files
  PROVE  TrackerInv'
  <1> USE DEF TrackerInv
  <1> DEFINE line == [files |-> worker[w].files, bytes |-> worker[w].bytes, now |-> worker[w].now]
  <1>0. /\ worker[w].pc = "timed" /\ worker'[w].pc = "done"
        /\ worker'[w].files = worker[w].files /\ worker'[w].now = worker[w].now
        /\ worker[w] \in WorkerState /\ Others(w) /\ worker' \in [Workers -> WorkerState]
        /\ CountersRight' /\ UNCHANGED <<show, size, broken, files, bytes, clock>>
    BY DoneKeeps
  <1>1. /\ \A v \in Workers : worker'[v].files = worker[v].files /\ worker'[v].now = worker[v].now
        /\ \A v \in Workers : worker[v].pc = "done" => worker'[v].pc = "done"
        /\ \A v \in Workers \ {w} : worker'[v] = worker[v]
    BY <1>0 DEF Others
  <1>2. last' = worker[w].now /\ lines' = Append(lines, line)
    BY DEF Render
  <1>3. worker[w].files \in 1 .. total_files
    BY <1>0, TotalFiles DEF WorkerState, CountersRight, Counted
  <1>4. line \in Line /\ lines \in Seq(Line)
    BY <1>0, <1>3 DEF TrackerTypeOK, WorkerState, Line
  <1> HIDE DEF line
  <1>5. /\ Len(lines) \in Nat /\ Len(lines') = Len(lines) + 1 /\ lines' \in Seq(Line)
        /\ DOMAIN lines = 1 .. Len(lines) /\ DOMAIN lines' = 1 .. Len(lines) + 1
        /\ lines'[Len(lines) + 1] = line
        /\ \A i \in 1 .. Len(lines) : lines'[i] = lines[i]
    BY <1>2, <1>4
  <1>6. line.files = worker[w].files /\ line.now = worker[w].now
    BY DEF line
  <1>7. TrackerTypeOK'
    <2>1. worker[w].now \in 0 .. clock
      BY <1>0 DEF WorkerState, TimesRight
    <2>2. Line' = Line /\ WorkerState' = WorkerState
      BY TotalKept DEF Line, WorkerState
    <2> QED
      BY <1>0, <1>2, <1>5, <2>1, <2>2, TotalKept DEF TrackerTypeOK
  <1>9. LinesRight'
    <2>1. \A i \in 1 .. Len(lines) : lines[i].files # worker[w].files
      <3> SUFFICES ASSUME NEW i \in 1 .. Len(lines), lines[i].files = worker[w].files
                   PROVE  FALSE
        OBVIOUS
      <3>1. PICK v \in Workers : worker[v].pc = "done" /\ worker[v].files = lines[i].files
        BY <1>5 DEF LinesRight
      <3>2. v \in Counted /\ w \in Counted /\ v # w
        BY <1>0, <3>1 DEF Counted
      <3> QED
        BY <3>1, <3>2 DEF CountersRight
    <2>2. \A i, j \in DOMAIN lines' : lines'[i].files = lines'[j].files => i = j
      BY <1>5, <1>6, <2>1 DEF LinesRight
    <2>3. \A i \in DOMAIN lines' :
            \E v \in Workers : worker'[v].pc = "done" /\ worker'[v].files = lines'[i].files
      <3> SUFFICES ASSUME NEW i \in DOMAIN lines'
                   PROVE  \E v \in Workers : worker'[v].pc = "done" /\ worker'[v].files = lines'[i].files
        OBVIOUS
      <3>1. CASE i = Len(lines) + 1
        BY <1>0, <1>5, <1>6, <3>1
      <3>2. CASE i \in 1 .. Len(lines)
        <4>1. PICK v \in Workers : worker[v].pc = "done" /\ worker[v].files = lines[i].files
          BY <1>5, <3>2 DEF LinesRight
        <4> QED
          BY <1>1, <1>5, <3>2, <4>1
      <3> QED
        BY <1>5, <3>1, <3>2
    <2>4. show
      BY <1>0 DEF LinesRight
    <2>5. \A v \in Workers :
            worker'[v].pc = "done" /\ worker'[v].files = total_files =>
              \E i \in DOMAIN lines' : lines'[i].files = total_files
      <3> SUFFICES ASSUME NEW v \in Workers, worker'[v].pc = "done", worker'[v].files = total_files
                   PROVE  \E i \in DOMAIN lines' : lines'[i].files = total_files
        OBVIOUS
      <3>1. CASE v = w
        BY <1>0, <1>5, <1>6, <3>1
      <3>2. CASE v # w
        <4>1. PICK i \in DOMAIN lines : lines[i].files = total_files
          BY <1>1, <2>4, <3>2 DEF LinesRight
        <4> QED
          BY <1>5, <4>1
      <3> QED
        BY <3>1, <3>2
    <2>6. UNCHANGED <<show, total_files>>
      BY <1>0, TotalKept
    <2>7. \A v \in Workers : worker'[v].pc \in {"added", "timed"} => show'
      BY <2>4, <2>6
    <2> QED
      BY <2>2, <2>3, <2>4, <2>5, <2>6, <2>7 DEF LinesRight
  <1>10. TimesRight'
    BY <1>0, <1>1, <1>2, <1>5, <1>6 DEF TimesRight
  <1>11. LinesApart'
    <2> SUFFICES ASSUME NEW i \in DOMAIN lines', i > 1, lines'[i].files < total_files
                 PROVE  lines'[i].now >= lines'[i - 1].now + Throttle
      BY TotalKept DEF LinesApart
    <2>1. CASE i = Len(lines) + 1
      <3>1. lines # <<>> /\ lines'[i - 1] = lines[Len(lines)] /\ i - 1 = Len(lines)
        BY <1>5, <2>1
      <3>2. lines[Len(lines)].now = last /\ lines'[i].now = worker[w].now
        BY <1>5, <1>6, <2>1, <3>1 DEF TimesRight
      <3>3. Since(worker[w].now) >= Throttle
        BY <1>3, <1>5, <1>6, <2>1, TotalFiles
      <3>4. worker[w].now \in Nat /\ last \in Nat
        BY <1>0, TrackerAssumption DEF WorkerState, TrackerTypeOK
      <3> QED
        BY <3>1, <3>2, <3>3, <3>4, TrackerAssumption DEF Since
    <2>2. CASE i \in 1 .. Len(lines)
      <3>1. i - 1 \in 1 .. Len(lines) /\ lines'[i] = lines[i] /\ lines'[i - 1] = lines[i - 1]
        BY <1>5, <2>2
      <3> QED
        BY <1>5, <2>2, <3>1 DEF LinesApart
    <2> QED
      BY <1>5, <2>1, <2>2
  <1> QED
    BY <1>0, <1>7, <1>9, <1>10, <1>11

LEMMA RenderKeeps == ASSUME TrackerInv, NEW w \in Workers, Render(w) PROVE TrackerInv'
  <1>1. CASE Since(worker[w].now) >= Throttle \/ worker[w].files = total_files
    BY <1>1, DrawingKeeps
  <1>2. CASE ~(Since(worker[w].now) >= Throttle \/ worker[w].files = total_files)
    <2>1. UNCHANGED <<last, lines>>
      BY <1>2 DEF Render
    <2> QED
      BY <1>2, <2>1, SilentKeeps
  <1> QED
    BY <1>1, <1>2

LEMMA LeaveOutKeeps == ASSUME TrackerInv, NEW w \in Workers, LeaveOut(w) PROVE TrackerInv'
  <1> USE DEF TrackerInv
  <1> DEFINE state == [worker[w] EXCEPT !.pc = "left"]
  <1>1. /\ worker' = [worker EXCEPT ![w] = state] /\ worker[w] \in WorkerState
        /\ worker[w].pc = "inspect"
        /\ UNCHANGED <<show, size, broken, files, bytes, clock, last, lines>>
    BY DEF LeaveOut, TrackerTypeOK
  <1>2. /\ state \in WorkerState /\ state.pc = "left"
        /\ state.files = worker[w].files /\ state.now = worker[w].now
    BY <1>1 DEF WorkerState
  <1>3. worker' \in [Workers -> WorkerState] /\ worker'[w] = state /\ Others(w)
    BY <1>1, <1>2, StateKept
  <1> HIDE DEF state
  <1>4. TrackerTypeOK'
    BY <1>1, <1>3, TotalKept DEF TrackerTypeOK, WorkerState, Line
  <1>5. CountersRight'
    <2>1. Counted' = Counted
      BY <1>1, <1>2, <1>3 DEF Counted, Others
    <2>2. \A v \in Workers : worker'[v].files = worker[v].files
      BY <1>1, <1>2, <1>3 DEF Others
    <2>3. \A v \in Counted : v \in Workers
      BY DEF Counted
    <2> QED
      BY <1>1, <2>1, <2>2, <2>3 DEF CountersRight
  <1>6. LinesRight'
    <2>1. \A v \in Workers : worker'[v].files = worker[v].files
      BY <1>2, <1>3 DEF Others
    <2> QED
      BY <1>1, <1>2, <1>3, <2>1, TotalKept DEF LinesRight, Others
  <1>7. TimesRight'
    BY <1>1, <1>2, <1>3 DEF TimesRight, Others
  <1>8. LinesApart'
    BY <1>1, TotalKept DEF LinesApart
  <1> QED
    BY <1>4, <1>5, <1>6, <1>7, <1>8

LEMMA StepsKeep == TrackerInv /\ [TrackerNext]_trackerVars => TrackerInv'
  <1> SUFFICES ASSUME TrackerInv, [TrackerNext]_trackerVars PROVE TrackerInv'
    OBVIOUS
  <1>1. CASE Tick
    BY <1>1, TickKeeps
  <1>2. ASSUME NEW w \in Workers, RunFile(w) PROVE TrackerInv'
    BY <1>2, CountFileKeeps, AddBytesKeeps, TakeTimeKeeps, RenderKeeps, LeaveOutKeeps DEF RunFile, InspectFile
  <1>3. CASE UNCHANGED trackerVars
    <2> USE <1>3 DEF TrackerInv, trackerVars
    <2>1. TrackerTypeOK'
      BY TotalKept DEF TrackerTypeOK, WorkerState, Line
    <2>2. CountersRight'
      BY DEF CountersRight, Counted
    <2>3. LinesRight'
      BY TotalKept DEF LinesRight
    <2>4. TimesRight' /\ LinesApart'
      BY TotalKept DEF TimesRight, LinesApart
    <2> QED
      BY <2>1, <2>2, <2>3, <2>4
  <1> QED
    BY <1>1, <1>2, <1>3 DEF TrackerNext

LEMMA Tracked == TrackerSpec => []TrackerInv
  BY StartsRight, StepsKeep, PTL DEF TrackerSpec
-----------------------------------------------------------------------------
\* The counters, the times and the lines keep their types: no worker is counted
\* beyond the files there are, and no line is from the future (model.rs:307-366).
THEOREM TrackerTyped == TrackerSpec => []TrackerTypeOK
  BY Tracked, PTL DEF TrackerInv

\* Lines that do not end the bar keep their distance, for every throttle
\* (model.rs:330-333).
THEOREM LinesKeepApart == TrackerSpec => []LinesApart
  BY Tracked, PTL DEF TrackerInv

LEMMA OnceEach == ASSUME TrackerInv PROVE DoneOnce
  <1> USE DEF TrackerInv
  <1>1. \A n \in Nat, i \in DOMAIN lines : lines[i].files = n => Drawn(n) = {i}
    BY DEF Drawn, LinesRight
  <1>2. \A n \in Nat : Drawn(n) = {} \/ \E i \in DOMAIN lines : Drawn(n) = {i}
    BY <1>1 DEF Drawn
  <1>3. \A n \in Nat : Cardinality(Drawn(n)) <= 1
    <2> TAKE n \in Nat
    <2>1. CASE Drawn(n) = {}
      BY <2>1, FS_EmptySet
    <2>2. CASE \E i \in DOMAIN lines : Drawn(n) = {i}
      BY <2>2, FS_Singleton
    <2> QED
      BY <1>2, <2>1, <2>2
  <1>4. ASSUME Finished, show, ~LeftOut PROVE Cardinality(Drawn(total_files)) = 1
    <2>1. files = total_files
      BY <1>4, AllCounted DEF CountersRight, total_files
    <2>2. PICK w \in Workers : worker[w].files = total_files
      BY <2>1, TotalFiles DEF CountersRight
    <2>3. PICK i \in DOMAIN lines : lines[i].files = total_files
      BY <1>4, <2>2 DEF LinesRight, Finished, LeftOut
    <2>4. Drawn(total_files) = {i}
      BY <1>1, <2>3, TotalFiles
    <2> QED
      BY <2>4, FS_Singleton
  <1>5. ASSUME ~(show /\ ~LeftOut) PROVE Cardinality(Drawn(total_files)) = 0
    <2>1. ASSUME ~show PROVE Drawn(total_files) = {}
      BY <2>1 DEF Drawn, LinesRight
    <2>2. ASSUME LeftOut PROVE Drawn(total_files) = {}
      <3>1. files < total_files /\ files \in Nat /\ total_files \in Nat
        BY <2>2, NotAllCounted, TotalFiles DEF CountersRight, TrackerTypeOK
      <3>2. \A w \in Workers : worker[w].files # total_files
        BY <3>1 DEF CountersRight, TrackerTypeOK, WorkerState
      <3> QED
        BY <3>2 DEF Drawn, LinesRight
    <2>3. Drawn(total_files) = {}
      BY <1>5, <2>1, <2>2
    <2> QED
      BY <2>3, FS_EmptySet
  <1>6. \A n \in 1 .. total_files : n \in Nat
    BY TotalFiles
  <1> QED
    BY <1>3, <1>4, <1>5, <1>6 DEF DoneOnce

\* However many threads interleave, no number is drawn twice, and the line that
\* ends the bar is drawn exactly once, or never if a file was left out
\* (model.rs:320-335).
THEOREM BarEndsOnce == TrackerSpec => []DoneOnce
  <1>1. TrackerInv => DoneOnce
    BY OnceEach
  <1> QED
    BY <1>1, Tracked, PTL

\* However many threads interleave, no line is drawn twice, the last one exactly
\* once, and the others keep their distance (model.rs:320-354).
THEOREM BarIsRight == TrackerSpec => []BarRight
  BY BarEndsOnce, LinesKeepApart, PTL DEF BarRight
-----------------------------------------------------------------------------
(***************************************************************************)
(* All three in one process.                                               *)
(***************************************************************************)

\* Each is in an initial state of its own, and a step of one is a stutter of
\* the others.
LEMMA ThreadsStart == ThreadsInit => Init /\ PoolsInit /\ TrackerInit
  <1>1. NoTracker => TrackerInit
    BY ThreadsAssumption DEF NoTracker, TrackerInit
  <1>2. QED
    BY <1>1 DEF ThreadsInit, NoIterator

LEMMA ThreadsStep ==
  [ThreadsNext]_threadVars => [Next]_vars /\ [PoolsNext]_memoryVars /\ [TrackerNext]_trackerVars
  BY DEF ThreadsNext, OfIterator, OfPools, OfTracker, threadVars

LEMMA ThreadsKeepInv == ThreadsSpec => [](IteratorInv /\ PoolsInv /\ TrackerInv)
  <1>1. ThreadsSpec => Spec /\ PoolsSpec /\ TrackerSpec
    BY ThreadsStart, ThreadsStep, PTL DEF ThreadsSpec, Spec, PoolsSpec, TrackerSpec
  <1>2. QED
    BY <1>1, IteratorKeepsInv, PoolsKeepInv, Tracked, PTL

\* The state of all three keeps its type (iterator.rs, memory.rs, map/model.rs).
THEOREM ThreadsTyped == ThreadsSpec => []ThreadsTypeOK
  <1>1. IteratorInv /\ PoolsInv /\ TrackerInv => ThreadsTypeOK
    BY DEF IteratorInv, PoolsInv, TrackerInv, ThreadsTypeOK
  <1>2. QED
    BY <1>1, ThreadsKeepInv, PTL

\* What is proved of the iterator, the pools and the bar holds in every behaviour
\* of a process that has them (iterator.rs:64-118, memory.rs:64-107, model.rs:320-354).
THEOREM ThreadsAreRight == ThreadsSpec => [](BatchesRight /\ PoolAsAsked /\ BudgetKept /\ BarRight)
  <1>1. ThreadsSpec => Spec /\ PoolsSpec /\ TrackerSpec
    BY ThreadsStart, ThreadsStep, PTL DEF ThreadsSpec, Spec, PoolsSpec, TrackerSpec
  <1>2. QED
    BY <1>1, BatchesAreRight, JobsRunAsAsked, BudgetIsKept, BarIsRight, PTL
=============================================================================
