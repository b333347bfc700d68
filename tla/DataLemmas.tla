----------------------------- MODULE DataLemmas -----------------------------
(***************************************************************************)
(* What the proofs need of the operators of the community modules, which   *)
(* are recursive functions or CHOOSE: each lemma gives one step of one of  *)
(* them, and is proved by taking a least counterexample.                   *)
(***************************************************************************)
EXTENDS Integers, SequencesExt, FiniteSets, FiniteSetTheorems, TLAPS

-----------------------------------------------------------------------------
(* Sums over finite sets, which FiniteSetsExt folds with a CHOOSE: a sum is
   determined by its terms, one term at a time. *)

\* A set of naturals that is not empty has a least element.
LEMMA LeastExists ==
  ASSUME NEW T, T \subseteq Nat, T # {}
  PROVE  \E x \in T : \A y \in T : x <= y
<1>1. PICK R : R = OpToRel(<, Nat)
  OBVIOUS
<1>2. IsWellFoundedOn(R, Nat)
  BY <1>1, NatLessThanWellFounded
<1>3. ASSUME NEW x \in Nat, NEW y \in Nat, x < y PROVE <<x, y>> \in R
  BY <1>1, <1>3 DEF OpToRel
<1>4. PICK x \in T : \A y \in T : ~(<<y, x>> \in R)
  BY <1>2, WFMin
<1>5. ASSUME NEW y \in T PROVE x <= y
  <2>1. ~(y < x)
    BY <1>3, <1>4
  <2>2. QED
    BY <2>1
<1>6. QED
  BY <1>5

\* The element a sum takes first.
One(s) == CHOOSE x \in s : TRUE

\* A function that adds up f on the subsets of S.
Adds(g, f, S) ==
  g = [s \in SUBSET S |-> IF s = {} THEN 0 ELSE f[One(s)] + g[s \ {One(s)}]]

\* The least of the subsets with a fault.
LEMMA LeastSubset ==
  ASSUME NEW S, IsFiniteSet(S), NEW B, B \subseteq SUBSET S, B # {}
  PROVE  \E s \in B : \A t \in B : ~(t \subseteq s /\ t # s)
<1> DEFINE T == {Cardinality(s) : s \in B}
<1>1. \A s \in B : IsFiniteSet(s) /\ Cardinality(s) \in Nat
  BY FS_Subset, FS_CardinalityType
<1>2. PICK n \in T : \A m \in T : n <= m
  <2>1. T \subseteq Nat /\ T # {}
    BY <1>1
  <2> HIDE DEF T
  <2>2. QED
    BY <2>1, LeastExists
<1>3. PICK s \in B : n = Cardinality(s)
  BY <1>2
<1>4. ASSUME NEW t \in B, t \subseteq s, t # s PROVE FALSE
  <2>1. Cardinality(t) < Cardinality(s)
    BY <1>1, <1>4, FS_Subset
  <2>2. Cardinality(s) <= Cardinality(t)
    BY <1>2, <1>3
  <2>3. QED
    BY <1>1, <2>1, <2>2
<1>5. QED
  BY <1>4

\* Two such functions agree where both are defined.
LEMMA AddsAgree ==
  ASSUME NEW S, IsFiniteSet(S), NEW T, T \subseteq S, NEW f, NEW g, NEW h,
         Adds(g, f, S), Adds(h, f, T)
  PROVE  \A s \in SUBSET T : g[s] = h[s]
<1> DEFINE B == {s \in SUBSET T : g[s] # h[s]}
<1>1. SUFFICES ASSUME B # {} PROVE FALSE
  OBVIOUS
<1>2. PICK s \in B : \A t \in B : ~(t \subseteq s /\ t # s)
  <2>1. B \subseteq SUBSET S
    OBVIOUS
  <2> HIDE DEF B
  <2>2. QED
    BY <1>1, <2>1, LeastSubset
<1>3. s \in SUBSET S /\ s \in SUBSET T
  OBVIOUS
<1>4. /\ g[s] = IF s = {} THEN 0 ELSE f[One(s)] + g[s \ {One(s)}]
      /\ h[s] = IF s = {} THEN 0 ELSE f[One(s)] + h[s \ {One(s)}]
  BY <1>3 DEF Adds
<1>5. s # {} => One(s) \in s
  BY DEF One
<1>6. s # {} => g[s \ {One(s)}] = h[s \ {One(s)}]
  BY <1>2, <1>3, <1>5
<1>7. QED
  BY <1>4, <1>6

\* The value of the function on its largest set.
Total(f, S) == (CHOOSE g : Adds(g, f, S))[S]

\* One more element.
LEMMA TotalStep ==
  ASSUME NEW S, IsFiniteSet(S), NEW f, \A s \in SUBSET S : \E g : Adds(g, f, s)
  PROVE  Total(f, S) = IF S = {} THEN 0 ELSE f[One(S)] + Total(f, S \ {One(S)})
<1>1. PICK g : g = CHOOSE h : Adds(h, f, S)
  OBVIOUS
<1>2. PICK d : d = CHOOSE h : Adds(h, f, S \ {One(S)})
  OBVIOUS
<1>3. Adds(g, f, S) /\ Adds(d, f, S \ {One(S)})
  BY <1>1, <1>2
<1>4. g[S \ {One(S)}] = d[S \ {One(S)}]
  <2>1. S \ {One(S)} \subseteq S
    OBVIOUS
  <2>2. QED
    BY <1>3, <2>1, AddsAgree
<1>5. g[S] = IF S = {} THEN 0 ELSE f[One(S)] + g[S \ {One(S)}]
  BY <1>3 DEF Adds
<1>6. QED
  BY <1>1, <1>2, <1>4, <1>5 DEF Total

\* There is such a function for every finite set.
LEMMA AddsExists ==
  ASSUME NEW S, IsFiniteSet(S), NEW f
  PROVE  \A s \in SUBSET S : \E g : Adds(g, f, s)
<1> DEFINE B == {s \in SUBSET S : ~\E g : Adds(g, f, s)}
<1>1. SUFFICES ASSUME B # {} PROVE FALSE
  OBVIOUS
<1>2. PICK s \in B : \A t \in B : ~(t \subseteq s /\ t # s)
  <2>1. B \subseteq SUBSET S
    OBVIOUS
  <2> HIDE DEF B
  <2>2. QED
    BY <1>1, <2>1, LeastSubset
<1>3. \A t \in SUBSET s : t # s => \E g : Adds(g, f, t)
  BY <1>2
<1>4. ASSUME NEW t \in SUBSET s, t # s
      PROVE  Total(f, t) = IF t = {} THEN 0 ELSE f[One(t)] + Total(f, t \ {One(t)})
  <2>1. IsFiniteSet(t)
    BY FS_Subset
  <2>2. \A u \in SUBSET t : \E g : Adds(g, f, u)
    BY <1>3, <1>4
  <2>3. QED
    BY <2>1, <2>2, TotalStep
<1> DEFINE g == [t \in SUBSET s |-> IF t = {} THEN 0 ELSE f[One(t)] + Total(f, t \ {One(t)})]
<1>5. ASSUME NEW t \in SUBSET s, t # {}
      PROVE  g[t \ {One(t)}] = Total(f, t \ {One(t)})
  <2>1. One(t) \in t
    BY <1>5 DEF One
  <2>2. t \ {One(t)} \in SUBSET s /\ t \ {One(t)} # s
    BY <2>1
  <2>3. PICK u : u = t \ {One(t)}
    OBVIOUS
  <2>4. g[u] = IF u = {} THEN 0 ELSE f[One(u)] + Total(f, u \ {One(u)})
    BY <2>2, <2>3
  <2>5. Total(f, u) = IF u = {} THEN 0 ELSE f[One(u)] + Total(f, u \ {One(u)})
    BY <1>4, <2>2, <2>3
  <2>6. QED
    BY <2>3, <2>4, <2>5
<1>6. Adds(g, f, s)
  <2>1. \A t \in SUBSET s : (IF t = {} THEN 0 ELSE f[One(t)] + Total(f, t \ {One(t)}))
                             = (IF t = {} THEN 0 ELSE f[One(t)] + g[t \ {One(t)}])
    BY <1>5
  <2>2. g = [t \in SUBSET s |-> IF t = {} THEN 0 ELSE f[One(t)] + g[t \ {One(t)}]]
    BY <2>1
  <2>3. QED
    BY <2>2 DEF Adds
<1>7. QED
  BY <1>6

\* A sum, one element at a time.
LEMMA SumStep ==
  ASSUME NEW S, IsFiniteSet(S), NEW f
  PROVE  SumFunctionOnSet(f, S)
           = IF S = {} THEN 0 ELSE f[One(S)] + SumFunctionOnSet(f, S \ {One(S)})
<1>1. \A T : SumFunctionOnSet(f, T) = Total(f, T)
  BY DEF SumFunctionOnSet, FoldFunctionOnSet, MapThenFoldSet, Total, Adds, One
<1>2. Total(f, S) = IF S = {} THEN 0 ELSE f[One(S)] + Total(f, S \ {One(S)})
  BY AddsExists, TotalStep
<1>3. QED
  BY <1>1, <1>2

\* A sum over one element less.
LEMMA OneLess ==
  ASSUME NEW S, IsFiniteSet(S), S # {}
  PROVE  /\ One(S) \in S /\ IsFiniteSet(S \ {One(S)}) /\ S \ {One(S)} \in SUBSET S
         /\ S \ {One(S)} # S
<1>1. One(S) \in S
  BY DEF One
<1>2. QED
  BY <1>1, FS_Subset

\* Sums of natural numbers are natural numbers.
LEMMA SumNat ==
  ASSUME NEW S, IsFiniteSet(S), NEW f, \A x \in S : f[x] \in Nat
  PROVE  SumFunctionOnSet(f, S) \in Nat
<1> DEFINE B == {s \in SUBSET S : SumFunctionOnSet(f, s) \notin Nat}
<1>1. SUFFICES ASSUME B # {} PROVE FALSE
  OBVIOUS
<1>2. PICK s \in B : \A t \in B : ~(t \subseteq s /\ t # s)
  <2>1. B \subseteq SUBSET S
    OBVIOUS
  <2> HIDE DEF B
  <2>2. QED
    BY <1>1, <2>1, LeastSubset
<1>3. IsFiniteSet(s) /\ s \in SUBSET S
  BY FS_Subset
<1>4. s # {} => SumFunctionOnSet(f, s \ {One(s)}) \in Nat /\ One(s) \in S
  BY <1>2, <1>3, OneLess
<1>5. SumFunctionOnSet(f, s)
        = IF s = {} THEN 0 ELSE f[One(s)] + SumFunctionOnSet(f, s \ {One(s)})
  BY <1>3, SumStep
<1>6. SumFunctionOnSet(f, s) \in Nat
  BY <1>4, <1>5
<1>7. QED
  BY <1>6

\* The order of a sum does not matter.
LEMMA SumAny ==
  ASSUME NEW S, IsFiniteSet(S), NEW f, \A x \in S : f[x] \in Nat, NEW y \in S
  PROVE  SumFunctionOnSet(f, S) = f[y] + SumFunctionOnSet(f, S \ {y})
<1> DEFINE B == {s \in SUBSET S :
                   \E x \in s : SumFunctionOnSet(f, s) # f[x] + SumFunctionOnSet(f, s \ {x})}
<1>1. SUFFICES ASSUME B # {} PROVE FALSE
  OBVIOUS
<1>2. PICK s \in B : \A t \in B : ~(t \subseteq s /\ t # s)
  <2>1. B \subseteq SUBSET S
    OBVIOUS
  <2> HIDE DEF B
  <2>2. QED
    BY <1>1, <2>1, LeastSubset
<1>3. PICK x \in s : SumFunctionOnSet(f, s) # f[x] + SumFunctionOnSet(f, s \ {x})
  OBVIOUS
<1>4. IsFiniteSet(s) /\ s \in SUBSET S /\ s # {}
  BY FS_Subset
<1>5. PICK o \in s : o = One(s)
  BY <1>4, OneLess
<1>6. \A t \in SUBSET s : IsFiniteSet(t) /\ SumFunctionOnSet(f, t) \in Nat
  <2>1. ASSUME NEW t \in SUBSET s PROVE IsFiniteSet(t) /\ SumFunctionOnSet(f, t) \in Nat
    <3>1. IsFiniteSet(t) /\ \A u \in t : f[u] \in Nat
      BY <1>4, FS_Subset
    <3>2. QED
      BY <3>1, SumNat
  <2>2. QED
    BY <2>1
<1>7. SumFunctionOnSet(f, s) = f[o] + SumFunctionOnSet(f, s \ {o})
  BY <1>4, <1>5, SumStep
<1>8. x # o
  BY <1>3, <1>7
<1>9. SumFunctionOnSet(f, s \ {o}) = f[x] + SumFunctionOnSet(f, (s \ {o}) \ {x})
  <2>1. s \ {o} \in SUBSET S /\ s \ {o} # s /\ s \ {o} \subseteq s /\ x \in s \ {o}
    BY <1>4, <1>8
  <2>2. QED
    BY <1>2, <2>1
<1>10. SumFunctionOnSet(f, s \ {x}) = f[o] + SumFunctionOnSet(f, (s \ {x}) \ {o})
  <2>1. s \ {x} \in SUBSET S /\ s \ {x} # s /\ s \ {x} \subseteq s /\ o \in s \ {x}
    BY <1>4, <1>8
  <2>2. QED
    BY <1>2, <2>1
<1>11. (s \ {o}) \ {x} = (s \ {x}) \ {o}
  OBVIOUS
<1>12. PICK n \in Nat : n = SumFunctionOnSet(f, (s \ {x}) \ {o})
  BY <1>6
<1>13. f[x] \in Nat /\ f[o] \in Nat
  BY <1>4
<1>14. SumFunctionOnSet(f, s) = f[o] + (f[x] + n) /\ SumFunctionOnSet(f, s \ {x}) = f[o] + n
  BY <1>7, <1>9, <1>10, <1>11, <1>12
<1>15. QED
  BY <1>3, <1>13, <1>14

\* Sums of the same numbers are the same.
LEMMA SumSame ==
  ASSUME NEW S, IsFiniteSet(S), NEW f, NEW g, \A x \in S : f[x] = g[x]
  PROVE  SumFunctionOnSet(f, S) = SumFunctionOnSet(g, S)
<1> DEFINE B == {s \in SUBSET S : SumFunctionOnSet(f, s) # SumFunctionOnSet(g, s)}
<1>1. SUFFICES ASSUME B # {} PROVE FALSE
  OBVIOUS
<1>2. PICK s \in B : \A t \in B : ~(t \subseteq s /\ t # s)
  <2>1. B \subseteq SUBSET S
    OBVIOUS
  <2> HIDE DEF B
  <2>2. QED
    BY <1>1, <2>1, LeastSubset
<1>3. IsFiniteSet(s) /\ s \in SUBSET S
  BY FS_Subset
<1>4. s # {} => /\ SumFunctionOnSet(f, s \ {One(s)}) = SumFunctionOnSet(g, s \ {One(s)})
                /\ One(s) \in S
  BY <1>2, <1>3, OneLess
<1>5. /\ SumFunctionOnSet(f, s)
           = IF s = {} THEN 0 ELSE f[One(s)] + SumFunctionOnSet(f, s \ {One(s)})
      /\ SumFunctionOnSet(g, s)
           = IF s = {} THEN 0 ELSE g[One(s)] + SumFunctionOnSet(g, s \ {One(s)})
  BY <1>3, SumStep
<1>6. SumFunctionOnSet(f, s) = SumFunctionOnSet(g, s)
  BY <1>4, <1>5
<1>7. QED
  BY <1>6

\* A sum of smaller numbers is smaller.
LEMMA SumLeq ==
  ASSUME NEW S, IsFiniteSet(S), NEW f, NEW g,
         \A x \in S : f[x] \in Nat /\ g[x] \in Nat /\ f[x] <= g[x]
  PROVE  SumFunctionOnSet(f, S) <= SumFunctionOnSet(g, S)
<1> DEFINE B == {s \in SUBSET S : ~(SumFunctionOnSet(f, s) <= SumFunctionOnSet(g, s))}
<1>1. SUFFICES ASSUME B # {} PROVE FALSE
  OBVIOUS
<1>2. PICK s \in B : \A t \in B : ~(t \subseteq s /\ t # s)
  <2>1. B \subseteq SUBSET S
    OBVIOUS
  <2> HIDE DEF B
  <2>2. QED
    BY <1>1, <2>1, LeastSubset
<1>3. IsFiniteSet(s) /\ s \in SUBSET S
  BY FS_Subset
<1>4. s # {} => /\ SumFunctionOnSet(f, s \ {One(s)}) <= SumFunctionOnSet(g, s \ {One(s)})
                /\ One(s) \in S
  BY <1>2, <1>3, OneLess
<1>5. /\ SumFunctionOnSet(f, s)
           = IF s = {} THEN 0 ELSE f[One(s)] + SumFunctionOnSet(f, s \ {One(s)})
      /\ SumFunctionOnSet(g, s)
           = IF s = {} THEN 0 ELSE g[One(s)] + SumFunctionOnSet(g, s \ {One(s)})
  BY <1>3, SumStep
<1>6. /\ SumFunctionOnSet(f, s \ {One(s)}) \in Nat
      /\ SumFunctionOnSet(g, s \ {One(s)}) \in Nat
  <2>1. /\ IsFiniteSet(s \ {One(s)})
        /\ \A x \in s \ {One(s)} : f[x] \in Nat /\ g[x] \in Nat
    BY <1>3, FS_Subset
  <2>2. QED
    BY <2>1, SumNat
<1>7. SumFunctionOnSet(f, s) <= SumFunctionOnSet(g, s)
  BY <1>4, <1>5, <1>6
<1>8. QED
  BY <1>7

\* The sum of sums.
LEMMA SumPlus ==
  ASSUME NEW S, IsFiniteSet(S), NEW f, NEW g, NEW h,
         \A x \in S : f[x] \in Nat /\ g[x] \in Nat /\ h[x] = f[x] + g[x]
  PROVE  SumFunctionOnSet(h, S) = SumFunctionOnSet(f, S) + SumFunctionOnSet(g, S)
<1> DEFINE B == {s \in SUBSET S : SumFunctionOnSet(h, s)
                                   # SumFunctionOnSet(f, s) + SumFunctionOnSet(g, s)}
<1>1. SUFFICES ASSUME B # {} PROVE FALSE
  OBVIOUS
<1>2. PICK s \in B : \A t \in B : ~(t \subseteq s /\ t # s)
  <2>1. B \subseteq SUBSET S
    OBVIOUS
  <2> HIDE DEF B
  <2>2. QED
    BY <1>1, <2>1, LeastSubset
<1>3. IsFiniteSet(s) /\ s \in SUBSET S
  BY FS_Subset
<1>4. s # {} => /\ SumFunctionOnSet(h, s \ {One(s)})
                     = SumFunctionOnSet(f, s \ {One(s)}) + SumFunctionOnSet(g, s \ {One(s)})
                /\ One(s) \in S
  BY <1>2, <1>3, OneLess
<1>5. /\ SumFunctionOnSet(f, s)
           = IF s = {} THEN 0 ELSE f[One(s)] + SumFunctionOnSet(f, s \ {One(s)})
      /\ SumFunctionOnSet(g, s)
           = IF s = {} THEN 0 ELSE g[One(s)] + SumFunctionOnSet(g, s \ {One(s)})
      /\ SumFunctionOnSet(h, s)
           = IF s = {} THEN 0 ELSE h[One(s)] + SumFunctionOnSet(h, s \ {One(s)})
  BY <1>3, SumStep
<1>6. /\ SumFunctionOnSet(f, s \ {One(s)}) \in Nat
      /\ SumFunctionOnSet(g, s \ {One(s)}) \in Nat
  <2>1. /\ IsFiniteSet(s \ {One(s)})
        /\ \A x \in s \ {One(s)} : f[x] \in Nat /\ g[x] \in Nat
    BY <1>3, FS_Subset
  <2>2. QED
    BY <2>1, SumNat
<1>7. SumFunctionOnSet(h, s) = SumFunctionOnSet(f, s) + SumFunctionOnSet(g, s)
  <2>1. CASE s = {}
    BY <1>5, <2>1
  <2>2. CASE s # {}
    <3>1. PICK a \in Nat, b \in Nat, c \in Nat, d \in Nat :
            /\ a = f[One(s)] /\ b = g[One(s)] /\ h[One(s)] = a + b
            /\ c = SumFunctionOnSet(f, s \ {One(s)})
            /\ d = SumFunctionOnSet(g, s \ {One(s)})
      BY <1>4, <1>6, <2>2
    <3>2. /\ SumFunctionOnSet(h, s) = (a + b) + (c + d)
          /\ SumFunctionOnSet(f, s) = a + c /\ SumFunctionOnSet(g, s) = b + d
      BY <1>4, <1>5, <2>2, <3>1
    <3>3. QED
      BY <3>2
  <2>3. QED
    BY <2>1, <2>2
<1>8. QED
  BY <1>7

\* The sum of the numbers in a sequence that gets one more.
LEMMA SumAppend ==
  ASSUME NEW f \in Seq(Nat), NEW n \in Nat
  PROVE  /\ SumFunction(Append(f, n)) = SumFunction(f) + n
         /\ SumFunction(f) \in Nat
<1>1. /\ Len(f) \in Nat /\ DOMAIN f = 1 .. Len(f)
      /\ \A i \in 1 .. Len(f) : f[i] \in Nat
  OBVIOUS
<1>2. PICK more : more = Append(f, n)
  OBVIOUS
<1>3. /\ DOMAIN more = 1 .. Len(f) + 1 /\ more[Len(f) + 1] = n
      /\ \A i \in 1 .. Len(f) : more[i] = f[i]
  BY <1>1, <1>2
<1>4. IsFiniteSet(1 .. Len(f)) /\ IsFiniteSet(1 .. Len(f) + 1)
  BY <1>1, FS_Interval
<1>5. Len(f) + 1 \in 1 .. Len(f) + 1 /\ (1 .. Len(f) + 1) \ {Len(f) + 1} = 1 .. Len(f)
  BY <1>1
<1>6. \A i \in 1 .. Len(f) + 1 : more[i] \in Nat
  <2>1. \A i \in 1 .. Len(f) + 1 : i = Len(f) + 1 \/ i \in 1 .. Len(f)
    BY <1>1
  <2>2. QED
    BY <1>1, <1>3, <2>1
<1>7. SumFunctionOnSet(more, 1 .. Len(f) + 1) = n + SumFunctionOnSet(more, 1 .. Len(f))
  BY <1>3, <1>4, <1>5, <1>6, SumAny
<1>8. SumFunctionOnSet(more, 1 .. Len(f)) = SumFunctionOnSet(f, 1 .. Len(f))
  BY <1>3, <1>4, SumSame
<1>9. SumFunctionOnSet(f, 1 .. Len(f)) \in Nat
  BY <1>1, <1>4, SumNat
<1>10. QED
  BY <1>1, <1>2, <1>3, <1>7, <1>8, <1>9 DEF SumFunction

-----------------------------------------------------------------------------
(* A finite set of numbers in ascending order. *)

\* q lists the elements of S, the smallest first.
InOrder(q, S) ==
  /\ q \in [1 .. Cardinality(S) -> S]
  /\ \A i, j \in DOMAIN q : i < j => q[i] < q[j]

\* Every finite set of numbers can be listed.
LEMMA InOrderExists ==
  ASSUME NEW S, IsFiniteSet(S), \A n \in S : n \in Nat
  PROVE  \E q : InOrder(q, S)
<1> DEFINE B == {s \in SUBSET S : ~\E q : InOrder(q, s)}
<1>1. SUFFICES ASSUME B # {} PROVE FALSE
  OBVIOUS
<1>2. PICK s \in B : \A t \in B : ~(t \subseteq s /\ t # s)
  <2>1. B \subseteq SUBSET S
    OBVIOUS
  <2> HIDE DEF B
  <2>2. QED
    BY <1>1, <2>1, LeastSubset
<1>3. IsFiniteSet(s) /\ s \in SUBSET S
  BY FS_Subset
<1>4. CASE s = {}
  <2>1. Cardinality(s) = 0
    BY <1>4, FS_EmptySet
  <2>2. InOrder([i \in 1 .. 0 |-> 0], s)
    BY <2>1 DEF InOrder
  <2>3. QED
    BY <2>2
<1>5. CASE s # {}
  <2>1. PICK m \in s : \A y \in s : m <= y
    BY <1>3, <1>5, LeastExists
  <2>2. PICK t \in SUBSET S : t = s \ {m}
    OBVIOUS
  <2>3. IsFiniteSet(t) /\ Cardinality(t) \in Nat /\ Cardinality(s) = Cardinality(t) + 1
    <3>1. IsFiniteSet(t) /\ Cardinality(t) = Cardinality(s) - 1
      BY <1>3, <2>2, FS_RemoveElement
    <3>2. Cardinality(t) \in Nat /\ Cardinality(s) \in Nat
      BY <1>3, <3>1, FS_CardinalityType
    <3>3. QED
      BY <3>1, <3>2
  <2>4. PICK q : InOrder(q, t)
    BY <1>2, <2>2
  <2>5. PICK n \in Nat : n = Cardinality(t)
    BY <2>3
  <2>6. /\ DOMAIN q = 1 .. n
        /\ \A i \in 1 .. n : q[i] \in t
        /\ \A i, j \in 1 .. n : i < j => q[i] < q[j]
    BY <2>4, <2>5 DEF InOrder
  <2> DEFINE p == [i \in 1 .. n + 1 |-> IF i = 1 THEN m ELSE q[i - 1]]
  <2>7. \A x \in t : m < x /\ x \in s
    <3>1. \A x \in t : m <= x /\ m # x /\ x \in Nat /\ m \in Nat /\ x \in s
      BY <2>1, <2>2
    <3>2. QED
      BY <3>1
  <2>8. ASSUME NEW i \in 1 .. n + 1
        PROVE  p[i] \in s /\ (i # 1 => i - 1 \in 1 .. n /\ p[i] = q[i - 1])
    <3>1. i # 1 => i - 1 \in 1 .. n
      OBVIOUS
    <3>2. QED
      BY <2>1, <2>6, <2>7, <3>1
  <2>9. ASSUME NEW i \in 1 .. n + 1, NEW j \in 1 .. n + 1, i < j PROVE p[i] < p[j]
    <3>1. j # 1 /\ j - 1 \in 1 .. n /\ p[j] = q[j - 1] /\ q[j - 1] \in t
      BY <2>6, <2>8, <2>9
    <3>2. CASE i = 1
      BY <2>7, <3>1, <3>2
    <3>3. CASE i # 1
      <4>1. i - 1 \in 1 .. n /\ p[i] = q[i - 1]
        BY <2>8, <3>3
      <4>2. i - 1 < j - 1
        BY <2>9
      <4>3. QED
        BY <2>6, <3>1, <4>1, <4>2
    <3>4. QED
      BY <3>2, <3>3
  <2>10. DOMAIN p = 1 .. n + 1 /\ p \in [1 .. n + 1 -> s] /\ Cardinality(s) = n + 1
    BY <2>3, <2>5, <2>8
  <2> HIDE DEF p
  <2>11. InOrder(p, s)
    BY <2>9, <2>10 DEF InOrder
  <2>12. QED
    BY <2>11
<1>6. QED
  BY <1>4, <1>5

\* A list of a set has every element of it, once.
LEMMA InOrderOnto ==
  ASSUME NEW S, IsFiniteSet(S), \A n \in S : n \in Nat, NEW q, InOrder(q, S)
  PROVE  /\ Cardinality(S) \in Nat /\ DOMAIN q = 1 .. Cardinality(S)
         /\ q \in Seq(S) /\ Len(q) = Cardinality(S)
         /\ \A i \in DOMAIN q : q[i] \in S
         /\ \A x \in S : \E i \in DOMAIN q : q[i] = x
<1>1. PICK n \in Nat : n = Cardinality(S)
  BY FS_CardinalityType
<1>2. /\ q \in [1 .. n -> S] /\ DOMAIN q = 1 .. n
      /\ \A i, j \in 1 .. n : i < j => q[i] < q[j]
  BY <1>1 DEF InOrder
<1>3. ASSUME NEW i \in 1 .. n, NEW j \in 1 .. n, q[i] = q[j] PROVE i = j
  <2>1. q[i] \in Nat /\ q[j] \in Nat
    BY <1>2
  <2>2. ~(i < j) /\ ~(j < i)
    BY <1>2, <1>3, <2>1
  <2>3. QED
    BY <2>2
<1>4. q \in Injection(1 .. n, S)
  BY <1>2, <1>3 DEF Injection, IsInjective
<1>5. IsFiniteSet(1 .. n) /\ Cardinality(1 .. n) = n
  BY FS_Interval
<1>6. q \in Surjection(1 .. n, S)
  BY <1>1, <1>4, <1>5, FS_Injection
<1>7. \A x \in S : \E i \in 1 .. n : q[i] = x
  BY <1>6 DEF Surjection
<1>8. q \in Seq(S) /\ Len(q) = n
  BY <1>2
<1>9. QED
  BY <1>1, <1>2, <1>7, <1>8

-----------------------------------------------------------------------------
(* FlattenSeq, which SequencesExt defines with a recursive function. *)

\* A function that joins the first sequences of p.
Joins(g, p, n) == g = [i \in 1 .. n |-> IF i = 1 THEN p[i] ELSE g[i - 1] \o p[i]]

\* The partial joins of the first n sequences of p exist, for every n.
LEMMA JoinsExist ==
  ASSUME NEW p, NEW n \in Nat
  PROVE  \E g : Joins(g, p, n)
<1> DEFINE K == {k \in Nat : ~\E g : Joins(g, p, k)}
<1>1. SUFFICES ASSUME K # {} PROVE FALSE
  OBVIOUS
<1>2. PICK m \in K : \A k \in K : m <= k
  <2>1. K \subseteq Nat
    OBVIOUS
  <2> HIDE DEF K
  <2>2. QED
    BY <1>1, <2>1, LeastExists
<1>3. m \in Nat /\ ~\E g : Joins(g, p, m)
  OBVIOUS
<1>4. m # 0
  <2>1. SUFFICES ASSUME m = 0 PROVE FALSE
    OBVIOUS
  <2>2. Joins([i \in 1 .. 0 |-> 0], p, m)
    BY <2>1 DEF Joins
  <2>3. QED
    BY <1>3, <2>2
<1>5. PICK h : Joins(h, p, m - 1)
  <2>1. m - 1 \in Nat /\ ~(m <= m - 1)
    BY <1>3, <1>4
  <2>2. m - 1 \notin K
    BY <1>2, <2>1
  <2>3. QED
    BY <2>1, <2>2
<1>6. /\ DOMAIN h = 1 .. m - 1
      /\ \A i \in 1 .. m - 1 : h[i] = IF i = 1 THEN p[i] ELSE h[i - 1] \o p[i]
  BY <1>5 DEF Joins
<1> DEFINE g == [i \in 1 .. m |-> IF i = 1 THEN p[i] ELSE h[i - 1] \o p[i]]
<1>7. \A i \in 1 .. m - 1 : g[i] = h[i]
  <2>1. \A i \in 1 .. m - 1 : i \in 1 .. m
    BY <1>3
  <2>2. \A i \in 1 .. m - 1 : g[i] = IF i = 1 THEN p[i] ELSE h[i - 1] \o p[i]
    BY <2>1
  <2> HIDE DEF g
  <2>3. QED
    BY <1>6, <2>2
<1>8. \A i \in 1 .. m : i # 1 => g[i - 1] = h[i - 1]
  <2>1. \A i \in 1 .. m : i # 1 => i - 1 \in 1 .. m - 1
    BY <1>3
  <2> HIDE DEF g
  <2>2. QED
    BY <1>7, <2>1
<1>9. Joins(g, p, m)
  <2>1. \A i \in 1 .. m : (IF i = 1 THEN p[i] ELSE h[i - 1] \o p[i])
                            = (IF i = 1 THEN p[i] ELSE g[i - 1] \o p[i])
    BY <1>8
  <2>2. g = [i \in 1 .. m |-> IF i = 1 THEN p[i] ELSE g[i - 1] \o p[i]]
    BY <2>1
  <2>3. QED
    BY <2>2 DEF Joins
<1>10. QED
  BY <1>3, <1>9

\* Two of them agree where both are defined, on sequences that agree there.
LEMMA JoinsAgree ==
  ASSUME NEW p, NEW q, NEW g, NEW h, NEW m \in Nat, NEW n \in Nat, m <= n,
         Joins(g, p, n), Joins(h, q, m), \A i \in 1 .. m : p[i] = q[i]
  PROVE  \A i \in 1 .. m : g[i] = h[i]
<1> DEFINE K == {i \in 1 .. m : g[i] # h[i]}
<1>1. SUFFICES ASSUME K # {} PROVE FALSE
  OBVIOUS
<1>2. PICK k \in K : \A i \in K : k <= i
  <2>1. K \subseteq Nat
    OBVIOUS
  <2> HIDE DEF K
  <2>2. QED
    BY <1>1, <2>1, LeastExists
<1>3. k \in 1 .. m /\ k \in 1 .. n
  OBVIOUS
<1>4. k # 1 => g[k - 1] = h[k - 1]
  <2>1. SUFFICES ASSUME k # 1 PROVE g[k - 1] = h[k - 1]
    OBVIOUS
  <2>2. k - 1 \in 1 .. m /\ ~(k <= k - 1)
    BY <1>3, <2>1
  <2>3. QED
    BY <1>2, <2>2
<1>5. /\ g[k] = IF k = 1 THEN p[k] ELSE g[k - 1] \o p[k]
      /\ h[k] = IF k = 1 THEN q[k] ELSE h[k - 1] \o q[k]
  BY <1>3 DEF Joins
<1>6. QED
  BY <1>3, <1>4, <1>5

\* One more sequence does not change what is joined before it.
LEMMA JoinsMore ==
  ASSUME NEW p, NEW q, NEW g, NEW h, NEW n \in Nat, NEW m \in Nat, m = n + 1,
         Joins(g, p, n), Joins(h, q, m), \A i \in 1 .. n : q[i] = p[i]
  PROVE  \A i \in 1 .. n : h[i] = g[i]
<1>1. n <= m
  OBVIOUS
<1>2. QED
  BY <1>1, JoinsAgree

\* The joined sequences are sequences.
LEMMA JoinsTyped ==
  ASSUME NEW S, NEW p, NEW g, NEW n \in Nat, Joins(g, p, n), \A i \in 1 .. n : p[i] \in Seq(S)
  PROVE  \A i \in 1 .. n : g[i] \in Seq(S)
<1> DEFINE K == {i \in 1 .. n : g[i] \notin Seq(S)}
<1>1. SUFFICES ASSUME K # {} PROVE FALSE
  OBVIOUS
<1>2. PICK k \in K : \A i \in K : k <= i
  <2>1. K \subseteq Nat
    OBVIOUS
  <2> HIDE DEF K
  <2>2. QED
    BY <1>1, <2>1, LeastExists
<1>3. k \in 1 .. n
  OBVIOUS
<1>4. k # 1 => g[k - 1] \in Seq(S)
  <2>1. SUFFICES ASSUME k # 1 PROVE g[k - 1] \in Seq(S)
    OBVIOUS
  <2>2. k - 1 \in 1 .. n /\ ~(k <= k - 1)
    BY <1>3, <2>1
  <2>3. QED
    BY <1>2, <2>2
<1>5. g[k] = IF k = 1 THEN p[k] ELSE g[k - 1] \o p[k]
  BY <1>3 DEF Joins
<1>6. g[k] \in Seq(S)
  <2>1. p[k] \in Seq(S)
    BY <1>3
  <2>2. k # 1 => g[k - 1] \o p[k] \in Seq(S)
    BY <1>4, <2>1
  <2>3. QED
    BY <1>5, <2>1, <2>2
<1>7. QED
  BY <1>6

\* The partial joins of p up to n, one for each number of sequences.
Joined(p, n) == CHOOSE g : Joins(g, p, n)

\* What Joined names is what Joins describes.
LEMMA JoinedIs ==
  ASSUME NEW p, NEW n \in Nat
  PROVE  Joins(Joined(p, n), p, n)
BY JoinsExist DEF Joined

\* q begins with the n sequences of p.
SameTo(p, q, n) == \A i \in 1 .. n : q[i] = p[i]

\* The first n of p are sequences over S.
EachIn(p, n, S) == \A i \in 1 .. n : p[i] \in Seq(S)

\* One sequence more leaves the joins of those before it as they were.
LEMMA JoinedMore ==
  ASSUME NEW p, NEW q, NEW n \in Nat, NEW m \in Nat, m = n + 1, SameTo(p, q, n), n # 0
  PROVE  Joined(q, m)[n] = Joined(p, n)[n]
<1>1. Joins(Joined(p, n), p, n) /\ Joins(Joined(q, m), q, m)
  BY JoinedIs
<1>2. \A i \in 1 .. n : q[i] = p[i]
  BY DEF SameTo
<1>3. \A i \in 1 .. n : Joined(q, m)[i] = Joined(p, n)[i]
  BY <1>1, <1>2, JoinsMore
<1>4. QED
  BY <1>3

\* Joins of sequences over S are sequences over S.
LEMMA JoinedTyped ==
  ASSUME NEW S, NEW p, NEW n \in Nat, \A i \in 1 .. n : p[i] \in Seq(S)
  PROVE  \A i \in 1 .. n : Joined(p, n)[i] \in Seq(S)
<1>1. Joins(Joined(p, n), p, n)
  BY JoinedIs
<1>2. QED
  BY <1>1, JoinsTyped

\* The last join adds the last sequence to the join before it.
LEMMA JoinedLast ==
  ASSUME NEW p, NEW n \in Nat, NEW m \in Nat, m = n + 1
  PROVE  Joined(p, m)[m] = IF n = 0 THEN p[m] ELSE Joined(p, m)[n] \o p[m]
<1>1. Joins(Joined(p, m), p, m)
  BY JoinedIs
<1>2. m \in 1 .. m /\ m - 1 = n /\ (m = 1 <=> n = 0)
  OBVIOUS
<1>3. Joined(p, m)[m] = IF m = 1 THEN p[m] ELSE Joined(p, m)[m - 1] \o p[m]
  BY <1>1, <1>2 DEF Joins
<1>4. QED
  BY <1>2, <1>3

\* FlattenSeq joins all of them.
LEMMA FlattenIs ==
  ASSUME NEW p
  PROVE  FlattenSeq(p) = IF Len(p) = 0 THEN p ELSE Joined(p, Len(p))[Len(p)]
BY DEF FlattenSeq, Joins, Joined

\* One more sequence for FlattenSeq to join.
LEMMA FlattenMore ==
  ASSUME NEW S, NEW n \in Nat, NEW m \in Nat, m = n + 1, NEW p, NEW q,
         Len(p) = n, Len(q) = m, EachIn(p, n, S),
         SameTo(p, q, n), q[m] \in Seq(S), n = 0 => p = <<>>
  PROVE  FlattenSeq(p) \in Seq(S) /\ FlattenSeq(q) = FlattenSeq(p) \o q[m]
<1>1. /\ FlattenSeq(p) = IF n = 0 THEN p ELSE Joined(p, n)[n]
      /\ FlattenSeq(q) = Joined(q, m)[m]
  BY FlattenIs
<1>2. Joined(q, m)[m] = IF n = 0 THEN q[m] ELSE Joined(q, m)[n] \o q[m]
  BY JoinedLast
<1>3. n # 0 => Joined(q, m)[n] = Joined(p, n)[n] /\ Joined(p, n)[n] \in Seq(S)
  <2>1. n # 0 => n \in 1 .. n
    OBVIOUS
  <2>2. n # 0 => Joined(q, m)[n] = Joined(p, n)[n]
    BY JoinedMore
  <2>3. \A i \in 1 .. n : Joined(p, n)[i] \in Seq(S)
    BY JoinedTyped DEF EachIn
  <2>4. QED
    BY <2>1, <2>2, <2>3
<1>4. <<>> \o q[m] = q[m] /\ <<>> \in Seq(S)
  OBVIOUS
<1>5. QED
  BY <1>1, <1>2, <1>3, <1>4

\* q is p and one more sequence.
Grown(p, q, n, m, S) ==
  /\ m = n + 1 /\ Len(p) = n /\ Len(q) = m /\ EachIn(p, n, S)
  /\ SameTo(p, q, n) /\ q[m] \in Seq(S) /\ (n = 0 => p = <<>>)

\* r is a followed by b.
Continues(r, a, b) == r = a \o b

\* Continued by nothing, a sequence is what it was.
LEMMA ContinuesNothing ==
  ASSUME NEW S, NEW a, a \in Seq(S), NEW r, Continues(r, a, <<>>)
  PROVE  r = a
BY DEF Continues

\* Continued by one element, a sequence is appended to.
LEMMA ContinuesOne ==
  ASSUME NEW S, NEW a, a \in Seq(S), NEW x, NEW r, Continues(r, a, <<x>>)
  PROVE  r = Append(a, x)
<1>1. r = a \o <<x>>
  BY DEF Continues
<1>2. QED
  BY <1>1

\* FlattenSeq of one sequence more continues FlattenSeq of those before it.
LEMMA FlattenGrown ==
  ASSUME NEW S, NEW n \in Nat, NEW m \in Nat, NEW p, NEW q, Grown(p, q, n, m, S)
  PROVE  FlattenSeq(p) \in Seq(S) /\ Continues(FlattenSeq(q), FlattenSeq(p), q[m])
<1>1. /\ m = n + 1 /\ Len(p) = n /\ Len(q) = m /\ EachIn(p, n, S)
      /\ SameTo(p, q, n) /\ q[m] \in Seq(S) /\ (n = 0 => p = <<>>)
  BY DEF Grown
<1>2. FlattenSeq(p) \in Seq(S) /\ FlattenSeq(q) = FlattenSeq(p) \o q[m]
  BY <1>1, FlattenMore
<1>3. QED
  BY <1>2 DEF Continues

-----------------------------------------------------------------------------
(* Families of sets, and the first elements of a sequence. *)

\* The sets a family gives to the elements of S, taken together.
Together(fam, s) == UNION {fam[c] : c \in s}

\* What is in it.
LEMMA TogetherIs ==
  ASSUME NEW fam, NEW s, NEW x
  PROVE  x \in Together(fam, s) <=> \E c \in s : x \in fam[c]
BY DEF Together

\* Sets that have nothing in common have as many elements together as one by one.
LEMMA UnionCount ==
  ASSUME NEW S, IsFiniteSet(S), NEW fam, NEW size,
         \A c \in S : IsFiniteSet(fam[c]) /\ size[c] = Cardinality(fam[c]),
         \A b, c \in S : \A x : (x \in fam[b] /\ x \in fam[c]) => b = c
  PROVE  /\ IsFiniteSet(Together(fam, S))
         /\ Cardinality(Together(fam, S)) = SumFunctionOnSet(size, S)
<1> DEFINE Right(s) == /\ IsFiniteSet(Together(fam, s))
                       /\ Cardinality(Together(fam, s)) = SumFunctionOnSet(size, s)
           B == {s \in SUBSET S : ~Right(s)}
<1>1. SUFFICES ASSUME B # {} PROVE FALSE
  OBVIOUS
<1>2. PICK s \in B : \A t \in B : ~(t \subseteq s /\ t # s)
  <2>1. B \subseteq SUBSET S
    OBVIOUS
  <2> HIDE DEF B
  <2>2. QED
    BY <1>1, <2>1, LeastSubset
<1>3. s \in SUBSET S /\ IsFiniteSet(s) /\ \A c \in s : size[c] \in Nat
  BY FS_Subset, FS_CardinalityType
<1>4. s # {}
  <2>1. Together(fam, {}) = {}
    <3>1. \A x : x \notin Together(fam, {})
      BY TogetherIs
    <3>2. QED
      BY <3>1
  <2>2. SumFunctionOnSet(size, {}) = 0
    BY FS_EmptySet, SumStep
  <2>3. Right({})
    BY <2>1, <2>2, FS_EmptySet
  <2>4. QED
    BY <2>3
<1>5. PICK c \in s : TRUE
  BY <1>4
<1>6. PICK t \in SUBSET S : t = s \ {c}
  BY <1>3
<1>7. Right(t)
  <2>1. t \notin B
    BY <1>2, <1>5, <1>6
  <2>2. QED
    BY <2>1
<1>8. Together(fam, s) = Together(fam, t) \cup fam[c]
  <2>1. \A x : x \in Together(fam, s) <=> \E b \in s : x \in fam[b]
    BY TogetherIs
  <2>2. \A x : x \in Together(fam, t) <=> \E b \in t : x \in fam[b]
    BY TogetherIs
  <2>3. \A x : x \in Together(fam, s) <=> (x \in Together(fam, t) \/ x \in fam[c])
    BY <1>5, <1>6, <2>1, <2>2
  <2>4. QED
    BY <2>3
<1>9. Together(fam, t) \cap fam[c] = {}
  <2>1. ASSUME NEW x, x \in Together(fam, t), x \in fam[c] PROVE FALSE
    <3>1. PICK b \in t : x \in fam[b]
      BY <2>1, TogetherIs
    <3>2. b \in S /\ c \in S /\ b # c
      BY <1>3, <1>5, <1>6
    <3>3. QED
      BY <2>1, <3>1, <3>2
  <2>2. QED
    BY <2>1
<1>10. /\ IsFiniteSet(Together(fam, s))
       /\ Cardinality(Together(fam, s)) = Cardinality(Together(fam, t)) + Cardinality(fam[c])
  <2>1. IsFiniteSet(fam[c]) /\ IsFiniteSet(Together(fam, t))
    BY <1>3, <1>5, <1>7
  <2>2. /\ IsFiniteSet(Together(fam, t) \cup fam[c])
        /\ Cardinality(Together(fam, t) \cup fam[c])
             = Cardinality(Together(fam, t)) + Cardinality(fam[c]) - Cardinality({})
    BY <1>9, <2>1, FS_Union
  <2>3. Cardinality(Together(fam, t)) \in Nat /\ Cardinality(fam[c]) \in Nat /\ Cardinality({}) = 0
    BY <2>1, FS_CardinalityType, FS_EmptySet
  <2>4. QED
    BY <1>8, <2>2, <2>3
<1>11. SumFunctionOnSet(size, s) = size[c] + SumFunctionOnSet(size, t)
  BY <1>3, <1>5, <1>6, SumAny
<1>12. Cardinality(Together(fam, t)) \in Nat /\ size[c] \in Nat /\ size[c] = Cardinality(fam[c])
  BY <1>3, <1>5, <1>7, FS_CardinalityType
<1>13. Right(s)
  BY <1>7, <1>10, <1>11, <1>12
<1>14. QED
  BY <1>13

\* The first n of a sequence.
LEMMA CutFacts ==
  ASSUME NEW S, NEW s \in Seq(S), NEW n \in 0 .. Len(s)
  PROVE  /\ SubSeq(s, 1, n) \in Seq(S) /\ Len(SubSeq(s, 1, n)) = n
         /\ SubSeq(s, 1, Len(s)) = s
         /\ \A m \in 0 .. n : SubSeq(SubSeq(s, 1, n), 1, m) = SubSeq(s, 1, m)
         /\ \A i \in 1 .. n : SubSeq(s, 1, n)[i] = s[i]
<1>1. SubSeq(s, 1, n) \in Seq(S) /\ Len(SubSeq(s, 1, n)) = n /\ SubSeq(s, 1, Len(s)) = s
  OBVIOUS
<1>2. ASSUME NEW m \in 0 .. n PROVE SubSeq(SubSeq(s, 1, n), 1, m) = SubSeq(s, 1, m)
  OBVIOUS
<1>3. ASSUME NEW i \in 1 .. n PROVE SubSeq(s, 1, n)[i] = s[i]
  OBVIOUS
<1>4. QED
  BY <1>1, <1>2, <1>3

\* Division with a remainder.
LEMMA DivMod ==
  ASSUME NEW n \in Nat, NEW w \in Nat \ {0}
  PROVE  /\ n \div w \in Nat /\ (n % w) \in Nat /\ (n % w) < w
         /\ n = (n \div w) * w + (n % w)
OBVIOUS

\* Quotient and remainder are unique.
LEMMA DivModUnique ==
  ASSUME NEW w \in Nat \ {0}, NEW p \in Nat, NEW q \in Nat, NEW a \in Nat, NEW b \in Nat,
         a < w, b < w, p * w + a = q * w + b
  PROVE  p = q /\ a = b
OBVIOUS

-----------------------------------------------------------------------------
(* Sequences that lie in another one, which may end before they do. *)

\* From position p on, t is s, as far as it goes.
LiesIn(s, p, t) == \A i \in 1 .. Len(s) : p + i <= Len(t) => t[p + i] = s[i]

\* A sequence lies in itself.
LEMMA AtSelf ==
  ASSUME NEW S, NEW t \in Seq(S)
  PROVE  LiesIn(t, 0, t)
BY DEF LiesIn

\* Both parts of what lies in t lie in it.
LEMMA AtJoin ==
  ASSUME NEW S, NEW a \in Seq(S), NEW b \in Seq(S), NEW p \in Nat, NEW t \in Seq(S),
         LiesIn(a \o b, p, t)
  PROVE  LiesIn(a, p, t) /\ LiesIn(b, p + Len(a), t)
<1>1. PICK m \in Nat, n \in Nat : m = Len(a) /\ n = Len(b)
  OBVIOUS
<1>2. PICK c : c = a \o b
  OBVIOUS
<1>3. /\ Len(c) = m + n /\ \A i \in 1 .. m : c[i] = a[i]
      /\ \A i \in 1 .. n : c[m + i] = b[i]
  BY <1>1, <1>2
<1>4. \A i \in 1 .. Len(c) : p + i <= Len(t) => t[p + i] = c[i]
  BY <1>2 DEF LiesIn
<1>5. PICK l \in Nat : l = Len(t)
  OBVIOUS
<1>6. ASSUME NEW i \in 1 .. m, p + i <= l PROVE t[p + i] = a[i]
  <2>1. i \in 1 .. Len(c) /\ c[i] = a[i]
    BY <1>3
  <2>2. QED
    BY <1>4, <1>5, <1>6, <2>1
<1>7. ASSUME NEW i \in 1 .. n, (p + m) + i <= l PROVE t[(p + m) + i] = b[i]
  <2>1. m + i \in 1 .. Len(c) /\ c[m + i] = b[i] /\ p + (m + i) = (p + m) + i
    BY <1>3
  <2>2. p + (m + i) <= l
    BY <1>7, <2>1
  <2>3. t[p + (m + i)] = c[m + i]
    BY <1>4, <1>5, <2>1, <2>2
  <2>4. QED
    BY <2>1, <2>3
<1>8. QED
  BY <1>1, <1>5, <1>6, <1>7 DEF LiesIn

\* What lies in t lies in its beginning.
LEMMA AtCut ==
  ASSUME NEW S, NEW s \in Seq(S), NEW p \in Nat, NEW t \in Seq(S), NEW n \in 0 .. Len(t),
         LiesIn(s, p, t)
  PROVE  LiesIn(s, p, SubSeq(t, 1, n))
<1>1. PICK u : u = SubSeq(t, 1, n)
  OBVIOUS
<1>2. Len(u) = n /\ \A i \in 1 .. n : u[i] = t[i]
  BY <1>1, CutFacts
<1>3. PICK l \in Nat : l = Len(s)
  OBVIOUS
<1>4. PICK w \in Nat : w = Len(t) /\ n <= w /\ n \in Nat
  OBVIOUS
<1>5. ASSUME NEW i \in 1 .. l, p + i <= n PROVE u[p + i] = s[i]
  <2>1. p + i \in 1 .. n /\ p + i <= w
    BY <1>4, <1>5
  <2>2. t[p + i] = s[i]
    BY <1>3, <1>4, <2>1 DEF LiesIn
  <2>3. QED
    BY <1>2, <2>1, <2>2
<1>6. QED
  BY <1>1, <1>2, <1>3, <1>5 DEF LiesIn

-----------------------------------------------------------------------------
(* The beginnings of what FlattenSeq joins. *)

\* The first k of ss, joined.
JoinedUpTo(ss, k) == FlattenSeq(SubSeq(ss, 1, k))

\* Nothing joined.
LEMMA FlatNone ==
  ASSUME NEW S, NEW ss \in Seq(Seq(S))
  PROVE  JoinedUpTo(ss, 0) = <<>>
<1>1. SubSeq(ss, 1, 0) = <<>>
  OBVIOUS
<1>2. Len(<<>>) = 0
  OBVIOUS
<1>3. QED
  BY <1>1, <1>2, FlattenIs DEF JoinedUpTo

\* All joined.
LEMMA FlatAll ==
  ASSUME NEW S, NEW ss \in Seq(Seq(S))
  PROVE  JoinedUpTo(ss, Len(ss)) = FlattenSeq(ss)
<1>1. SubSeq(ss, 1, Len(ss)) = ss
  OBVIOUS
<1>2. QED
  BY <1>1 DEF JoinedUpTo

\* One more joined.
LEMMA FlatMore ==
  ASSUME NEW S, NEW ss \in Seq(Seq(S)), NEW k \in Nat, k < Len(ss)
  PROVE  JoinedUpTo(ss, k) \in Seq(S) /\ JoinedUpTo(ss, k + 1) = JoinedUpTo(ss, k) \o ss[k + 1]
<1>1. PICK p, q : p = SubSeq(ss, 1, k) /\ q = SubSeq(ss, 1, k + 1)
  OBVIOUS
<1>2. PICK l \in Nat, m \in Nat : l = Len(ss) /\ m = k + 1
  OBVIOUS
<1>3. Len(p) = k /\ Len(q) = m
  BY <1>1, <1>2
<1>4. \A i \in 1 .. l : ss[i] \in Seq(S)
  BY <1>2
<1>5. (\A i \in 1 .. k : p[i] = ss[i]) /\ (\A i \in 1 .. m : q[i] = ss[i])
  <2>1. k \in 0 .. Len(ss) /\ m \in 0 .. Len(ss)
    BY <1>2
  <2>2. QED
    BY <1>1, <1>2, <2>1, CutFacts
<1>6. EachIn(p, k, S)
  BY <1>2, <1>4, <1>5 DEF EachIn
<1>7. SameTo(p, q, k)
  BY <1>2, <1>5 DEF SameTo
<1>8. q[m] = ss[k + 1] /\ q[m] \in Seq(S)
  BY <1>2, <1>4, <1>5
<1>9. k = 0 => p = <<>>
  BY <1>1
<1>10. FlattenSeq(p) \in Seq(S) /\ FlattenSeq(q) = FlattenSeq(p) \o q[m]
  <2>1. Grown(p, q, k, m, S)
    BY <1>2, <1>3, <1>6, <1>7, <1>8, <1>9 DEF Grown
  <2>2. FlattenSeq(p) \in Seq(S) /\ Continues(FlattenSeq(q), FlattenSeq(p), q[m])
    BY <2>1, FlattenGrown
  <2>3. QED
    BY <2>2 DEF Continues
<1>11. QED
  BY <1>1, <1>8, <1>10 DEF JoinedUpTo

\* What is joined is a sequence.
LEMMA FlatTyped ==
  ASSUME NEW S, NEW ss \in Seq(Seq(S)), NEW k \in 0 .. Len(ss)
  PROVE  JoinedUpTo(ss, k) \in Seq(S)
<1>1. PICK n \in Nat : n = Len(ss)
  OBVIOUS
<1>2. CASE k = 0
  <2>1. JoinedUpTo(ss, k) = <<>>
    BY <1>2, FlatNone
  <2>2. QED
    BY <2>1
<1>3. CASE k # 0
  <2>1. PICK j \in Nat : j + 1 = k /\ j < n
    BY <1>1, <1>3
  <2>2. JoinedUpTo(ss, j) \in Seq(S) /\ JoinedUpTo(ss, j + 1) = JoinedUpTo(ss, j) \o ss[j + 1]
    BY <1>1, <2>1, FlatMore
  <2>3. ss[k] \in Seq(S)
    BY <1>1, <1>3
  <2>4. PICK a, b : a = JoinedUpTo(ss, j) /\ b = ss[k]
    OBVIOUS
  <2>5. a \in Seq(S) /\ b \in Seq(S) /\ JoinedUpTo(ss, k) = a \o b
    BY <2>1, <2>2, <2>3, <2>4
  <2>6. QED
    BY <2>5
<1>4. QED
  BY <1>2, <1>3

\* Where more are joined, the result is as long or longer.
LEMMA FlatLonger ==
  ASSUME NEW S, NEW ss \in Seq(Seq(S)), NEW j \in 0 .. Len(ss), NEW k \in 0 .. Len(ss), j <= k
  PROVE  Len(JoinedUpTo(ss, j)) <= Len(JoinedUpTo(ss, k))
<1>1. PICK n \in Nat : n = Len(ss)
  OBVIOUS
<1> DEFINE K == {i \in Nat : i <= n /\ j <= i /\ ~(Len(JoinedUpTo(ss, j)) <= Len(JoinedUpTo(ss, i)))}
<1>2. SUFFICES ASSUME K # {} PROVE FALSE
  <2>1. k \in Nat /\ k <= n
    BY <1>1
  <2>2. QED
    BY <2>1
<1>3. PICK m \in K : \A i \in K : m <= i
  <2>1. K \subseteq Nat
    OBVIOUS
  <2> HIDE DEF K
  <2>2. QED
    BY <1>2, <2>1, LeastExists
<1>4. m \in Nat /\ m <= n /\ j <= m /\ ~(Len(JoinedUpTo(ss, j)) <= Len(JoinedUpTo(ss, m))) /\ j \in Nat
  OBVIOUS
<1>5. JoinedUpTo(ss, j) \in Seq(S) /\ Len(JoinedUpTo(ss, j)) \in Nat
  <2>1. JoinedUpTo(ss, j) \in Seq(S)
    BY FlatTyped
  <2>2. QED
    BY <2>1
<1>6. m # j
  <2>1. Len(JoinedUpTo(ss, j)) <= Len(JoinedUpTo(ss, j))
    BY <1>5
  <2>2. QED
    BY <1>4, <2>1
<1>7. PICK i \in Nat : i + 1 = m /\ i < n /\ j <= i
  <2>1. m - 1 \in Nat /\ (m - 1) + 1 = m /\ m - 1 < n /\ j <= m - 1
    BY <1>4, <1>6
  <2>2. QED
    BY <2>1
<1>8. Len(JoinedUpTo(ss, j)) <= Len(JoinedUpTo(ss, i))
  <2>1. i \notin K
    BY <1>3, <1>7
  <2>2. QED
    BY <1>7, <2>1
<1>9. JoinedUpTo(ss, i) \in Seq(S) /\ JoinedUpTo(ss, m) = JoinedUpTo(ss, i) \o ss[m]
  BY <1>1, <1>7, FlatMore
<1>10. ss[m] \in Seq(S)
  BY <1>1, <1>4, <1>7
<1>11. PICK a, b : a = JoinedUpTo(ss, i) /\ b = ss[m]
  OBVIOUS
<1>12. a \in Seq(S) /\ b \in Seq(S) /\ JoinedUpTo(ss, m) = a \o b
  BY <1>9, <1>10, <1>11
<1>13. Len(a \o b) = Len(a) + Len(b) /\ Len(a) \in Nat /\ Len(b) \in Nat
  BY <1>12
<1>14. Len(JoinedUpTo(ss, i)) <= Len(JoinedUpTo(ss, m)) /\ Len(JoinedUpTo(ss, i)) \in Nat /\ Len(JoinedUpTo(ss, m)) \in Nat
  BY <1>11, <1>12, <1>13
<1>15. PICK x \in Nat, y \in Nat, z \in Nat :
         x = Len(JoinedUpTo(ss, j)) /\ y = Len(JoinedUpTo(ss, i)) /\ z = Len(JoinedUpTo(ss, m))
  BY <1>5, <1>14
<1>16. x <= y /\ y <= z /\ ~(x <= z)
  BY <1>4, <1>8, <1>14, <1>15
<1>17. QED
  BY <1>16

\* Each of the sequences that are joined lies where those before it end.
LEMMA FlatAt ==
  ASSUME NEW S, NEW ss \in Seq(Seq(S)), NEW n \in 0 .. Len(ss), NEW p \in Nat, NEW t \in Seq(S),
         LiesIn(JoinedUpTo(ss, n), p, t)
  PROVE  \A k \in 0 .. n :
           /\ LiesIn(JoinedUpTo(ss, k), p, t)
           /\ k # 0 => LiesIn(ss[k], p + Len(JoinedUpTo(ss, k - 1)), t)
<1>1. PICK l \in Nat : l = Len(ss) /\ n \in Nat /\ n <= l
  OBVIOUS
<1> DEFINE K == {i \in Nat : i <= n /\ ~LiesIn(JoinedUpTo(ss, n - i), p, t)}
<1>2. K = {}
  <2>1. SUFFICES ASSUME K # {} PROVE FALSE
    OBVIOUS
  <2>2. PICK m \in K : \A i \in K : m <= i
    <3>1. K \subseteq Nat
      OBVIOUS
    <3> HIDE DEF K
    <3>2. QED
      BY <2>1, <3>1, LeastExists
  <2>3. m \in Nat /\ m <= n /\ ~LiesIn(JoinedUpTo(ss, n - m), p, t)
    OBVIOUS
  <2>4. m # 0
    BY <1>1, <2>3
  <2>5. PICK k \in Nat : k = n - m /\ k + 1 = n - (m - 1) /\ k < l /\ m - 1 \in Nat
    <3>1. n - m \in Nat /\ (n - m) + 1 = n - (m - 1) /\ n - m < l /\ m - 1 \in Nat
      BY <1>1, <2>3, <2>4
    <3>2. QED
      BY <3>1
  <2>6. LiesIn(JoinedUpTo(ss, k + 1), p, t)
    <3>1. m - 1 \notin K
      <4> HIDE DEF K
      <4>1. ~(m <= m - 1)
        BY <2>3
      <4>2. QED
        BY <2>2, <4>1
    <3>2. QED
      BY <1>1, <2>3, <2>5, <3>1
  <2>7. JoinedUpTo(ss, k) \in Seq(S) /\ JoinedUpTo(ss, k + 1) = JoinedUpTo(ss, k) \o ss[k + 1]
    BY <1>1, <2>5, FlatMore
  <2>8. ss[k + 1] \in Seq(S)
    BY <1>1, <2>5
  <2>9. PICK a, b : a = JoinedUpTo(ss, k) /\ b = ss[k + 1]
    OBVIOUS
  <2>10. a \in Seq(S) /\ b \in Seq(S) /\ LiesIn(a \o b, p, t)
    BY <2>6, <2>7, <2>8, <2>9
  <2>11. LiesIn(a, p, t)
    BY <2>10, AtJoin
  <2>12. QED
    BY <2>3, <2>5, <2>9, <2>11
<1>3. ASSUME NEW k \in 0 .. n PROVE LiesIn(JoinedUpTo(ss, k), p, t)
  <2>1. PICK i \in Nat : i = n - k /\ n - i = k /\ i <= n
    <3>1. n - k \in Nat /\ n - (n - k) = k /\ n - k <= n
      BY <1>1
    <3>2. QED
      BY <3>1
  <2>2. i \notin K
    BY <1>2
  <2>3. QED
    BY <2>1, <2>2
<1>4. ASSUME NEW k \in 0 .. n, k # 0 PROVE LiesIn(ss[k], p + Len(JoinedUpTo(ss, k - 1)), t)
  <2>1. PICK j \in Nat : j = k - 1 /\ j + 1 = k /\ j < l
    <3>1. k - 1 \in Nat /\ (k - 1) + 1 = k /\ k - 1 < l
      BY <1>1, <1>4
    <3>2. QED
      BY <3>1
  <2>2. JoinedUpTo(ss, j) \in Seq(S) /\ JoinedUpTo(ss, j + 1) = JoinedUpTo(ss, j) \o ss[j + 1]
    BY <1>1, <2>1, FlatMore
  <2>3. ss[k] \in Seq(S)
    BY <1>1, <1>4
  <2>4. PICK a, b : a = JoinedUpTo(ss, j) /\ b = ss[k]
    OBVIOUS
  <2>5. a \in Seq(S) /\ b \in Seq(S) /\ LiesIn(a \o b, p, t)
    BY <1>3, <2>1, <2>2, <2>3, <2>4
  <2>6. LiesIn(b, p + Len(a), t)
    BY <2>5, AtJoin
  <2>7. QED
    BY <2>1, <2>4, <2>6
<1>5. QED
  BY <1>3, <1>4

\* What is joined from one on, with one more.
LEMMA FlatFromMore ==
  ASSUME NEW S, NEW ss \in Seq(Seq(S)), NEW h \in Nat, NEW k \in Nat, h <= k, k < Len(ss)
  PROVE  /\ FlattenSeq(SubSeq(ss, h + 1, k)) \in Seq(S)
         /\ FlattenSeq(SubSeq(ss, h + 1, k + 1))
              = FlattenSeq(SubSeq(ss, h + 1, k)) \o ss[k + 1]
<1>1. PICK p, q : p = SubSeq(ss, h + 1, k) /\ q = SubSeq(ss, h + 1, k + 1)
  OBVIOUS
<1>2. PICK l \in Nat, n \in Nat, m \in Nat : l = Len(ss) /\ n = k - h /\ m = n + 1
  <2>1. k - h \in Nat /\ (k - h) + 1 \in Nat /\ Len(ss) \in Nat
    OBVIOUS
  <2>2. QED
    BY <2>1
<1>3. Len(p) = n /\ Len(q) = m
  BY <1>1, <1>2
<1>4. \A i \in 1 .. l : ss[i] \in Seq(S)
  BY <1>2
<1>5. (\A i \in 1 .. n : p[i] = ss[h + i]) /\ (\A i \in 1 .. m : q[i] = ss[h + i])
  BY <1>1, <1>2
<1>6. \A i \in 1 .. m : h + i \in 1 .. l /\ h + m = k + 1
  BY <1>2
<1>7. EachIn(p, n, S)
  <2>1. \A i \in 1 .. n : i \in 1 .. m
    BY <1>2
  <2>2. QED
    BY <1>4, <1>5, <1>6, <2>1 DEF EachIn
<1>8. SameTo(p, q, n)
  <2>1. \A i \in 1 .. n : i \in 1 .. m
    BY <1>2
  <2>2. QED
    BY <1>5, <2>1 DEF SameTo
<1>9. q[m] = ss[k + 1] /\ q[m] \in Seq(S)
  <2>1. m \in 1 .. m
    BY <1>2
  <2>2. QED
    BY <1>4, <1>5, <1>6, <2>1
<1>10. n = 0 => p = <<>>
  BY <1>1, <1>2
<1>11. Grown(p, q, n, m, S)
  BY <1>2, <1>3, <1>7, <1>8, <1>9, <1>10 DEF Grown
<1>12. FlattenSeq(p) \in Seq(S) /\ Continues(FlattenSeq(q), FlattenSeq(p), q[m])
  BY <1>11, FlattenGrown
<1>13. QED
  BY <1>1, <1>9, <1>12 DEF Continues

\* What is joined is what the first make and what the others make.
LEMMA FlatSplit ==
  ASSUME NEW S, NEW ss \in Seq(Seq(S)), NEW h \in Nat, NEW k \in 0 .. Len(ss), h <= k
  PROVE  /\ FlattenSeq(SubSeq(ss, h + 1, k)) \in Seq(S)
         /\ JoinedUpTo(ss, k) = JoinedUpTo(ss, h) \o FlattenSeq(SubSeq(ss, h + 1, k))
<1> DEFINE Right(i) == /\ FlattenSeq(SubSeq(ss, h + 1, i)) \in Seq(S)
                       /\ JoinedUpTo(ss, i) = JoinedUpTo(ss, h) \o FlattenSeq(SubSeq(ss, h + 1, i))
           K == {i \in Nat : h <= i /\ i <= k /\ ~Right(i)}
<1>1. PICK l \in Nat : l = Len(ss) /\ k \in Nat /\ k <= l
  OBVIOUS
<1> HIDE DEF Right
<1>2. SUFFICES ASSUME K # {} PROVE FALSE
  <2>1. k \notin K
    BY <1>2
  <2>2. Right(k)
    BY <1>1, <2>1
  <2>3. QED
    BY <2>2 DEF Right
<1>3. PICK m \in K : \A i \in K : m <= i
  <2>1. K \subseteq Nat
    OBVIOUS
  <2> HIDE DEF K
  <2>2. QED
    BY <1>2, <2>1, LeastExists
<1>4. m \in Nat /\ h <= m /\ m <= k /\ ~Right(m)
  OBVIOUS
<1>5. JoinedUpTo(ss, h) \in Seq(S)
  <2>1. h \in 0 .. Len(ss)
    BY <1>1
  <2>2. QED
    BY <2>1, FlatTyped
<1>6. m # h
  <2>1. SubSeq(ss, h + 1, h) = <<>>
    OBVIOUS
  <2>2. Len(<<>>) = 0
    OBVIOUS
  <2>3. FlattenSeq(<<>>) = <<>>
    BY <2>2, FlattenIs
  <2>4. PICK a : a = JoinedUpTo(ss, h)
    OBVIOUS
  <2>5. a \o <<>> = a
    BY <1>5, <2>4
  <2>6. PICK e : e = FlattenSeq(SubSeq(ss, h + 1, h))
    OBVIOUS
  <2>7. e = <<>>
    BY <2>1, <2>3, <2>6
  <2>8. e \in Seq(S) /\ a = a \o e
    BY <2>5, <2>7
  <2>9. Right(h)
    BY <2>4, <2>6, <2>8 DEF Right
  <2>10. QED
    BY <1>4, <2>9
<1>7. PICK i \in Nat : i + 1 = m /\ h <= i /\ i <= k /\ i < l
  <2>1. m - 1 \in Nat /\ (m - 1) + 1 = m /\ h <= m - 1 /\ m - 1 <= k /\ m - 1 < l
    BY <1>1, <1>4, <1>6
  <2>2. QED
    BY <2>1
<1>8. Right(i)
  <2>1. i \notin K
    <3> HIDE DEF K
    <3>1. ~(m <= i)
      BY <1>7
    <3>2. QED
      BY <1>3, <3>1
  <2>2. QED
    BY <1>7, <2>1
<1>9. PICK a, b, c : /\ a = JoinedUpTo(ss, h) /\ b = FlattenSeq(SubSeq(ss, h + 1, i))
                     /\ c = ss[m]
  OBVIOUS
<1>10. a \in Seq(S) /\ b \in Seq(S) /\ JoinedUpTo(ss, i) = a \o b
  BY <1>5, <1>8, <1>9 DEF Right
<1>11. c \in Seq(S)
  BY <1>1, <1>4, <1>7, <1>9
<1>12. JoinedUpTo(ss, m) = (a \o b) \o c
  <2>1. JoinedUpTo(ss, i + 1) = JoinedUpTo(ss, i) \o ss[i + 1]
    BY <1>1, <1>7, FlatMore
  <2>2. QED
    BY <1>7, <1>9, <1>10, <2>1
<1>13. FlattenSeq(SubSeq(ss, h + 1, m)) = b \o c
  <2>1. FlattenSeq(SubSeq(ss, h + 1, i + 1)) = FlattenSeq(SubSeq(ss, h + 1, i)) \o ss[i + 1]
    BY ZenonT(40), <1>1, <1>7, FlatFromMore
  <2>2. QED
    BY <1>7, <1>9, <2>1
<1>14. (a \o b) \o c = a \o (b \o c) /\ b \o c \in Seq(S)
  BY <1>10, <1>11
<1>15. Right(m)
  BY <1>9, <1>12, <1>13, <1>14 DEF Right
<1>16. QED
  BY <1>4, <1>15
-----------------------------------------------------------------------------
(* Steps taken one after another. *)

\* The states g[0] .. g[n] of a machine: the i-th step is F[i].
Iterates(g, F, a, n, S) ==
  /\ g \in [0 .. n -> S]
  /\ g[0] = a
  /\ \A i \in 1 .. n : g[i] = F[i][g[i - 1]]

\* A machine runs.
LEMMA IteratesExist ==
  ASSUME NEW S, NEW a \in S, NEW N \in Nat, NEW F \in [1 .. N -> [S -> S]]
  PROVE  \E g : Iterates(g, F, a, N, S)
<1> DEFINE K == {n \in Nat : n <= N /\ ~\E g : Iterates(g, F, a, n, S)}
<1>1. SUFFICES ASSUME K # {} PROVE FALSE
  OBVIOUS
<1>2. PICK m \in K : \A n \in K : m <= n
  <2>1. K \subseteq Nat
    OBVIOUS
  <2> HIDE DEF K
  <2>2. QED
    BY <1>1, <2>1, LeastExists
<1>3. m \in Nat /\ m <= N /\ ~\E g : Iterates(g, F, a, m, S)
  OBVIOUS
<1>4. m # 0
  <2>1. Iterates([i \in 0 .. 0 |-> a], F, a, 0, S)
    BY DEF Iterates
  <2>2. QED
    BY <1>3, <2>1
<1>5. PICK k \in Nat : k + 1 = m /\ k < N
  <2>1. m - 1 \in Nat /\ (m - 1) + 1 = m /\ m - 1 < N
    BY <1>3, <1>4
  <2>2. QED
    BY <2>1
<1>6. PICK h : Iterates(h, F, a, k, S)
  <2>1. k \notin K
    <3> HIDE DEF K
    <3>1. ~(m <= k)
      BY <1>5
    <3>2. QED
      BY <1>2, <3>1
  <2>2. QED
    BY <1>5, <2>1
<1> DEFINE g == [i \in 0 .. m |-> IF i = m THEN F[m][h[k]] ELSE h[i]]
<1>7. h[k] \in S /\ m \in 1 .. N
  BY <1>3, <1>4, <1>5, <1>6 DEF Iterates
<1>8. F[m][h[k]] \in S
  BY <1>7
<1>9. g \in [0 .. m -> S]
  <2>1. \A i \in 0 .. m : i # m => i \in 0 .. k
    BY <1>5
  <2>2. QED
    BY <1>6, <1>8, <2>1 DEF Iterates
<1>10. g[0] = a
  BY <1>3, <1>4, <1>6 DEF Iterates
<1>11. ASSUME NEW i \in 1 .. m PROVE g[i] = F[i][g[i - 1]]
  <2>1. i - 1 \in 0 .. k /\ i \in 0 .. m /\ i - 1 \in 0 .. m /\ i - 1 # m
    BY <1>5
  <2>2. g[i - 1] = h[i - 1]
    BY <2>1
  <2>3. CASE i = m
    <3>1. i - 1 = k /\ g[i] = F[m][h[k]]
      BY <1>5, <2>1, <2>3
    <3>2. QED
      BY <2>2, <2>3, <3>1
  <2>4. CASE i # m
    <3>1. i \in 1 .. k
      BY <1>5, <2>4
    <3>2. g[i] = h[i] /\ h[i] = F[i][h[i - 1]]
      BY <1>6, <2>1, <2>4, <3>1 DEF Iterates
    <3>3. QED
      BY <2>2, <3>2
  <2>5. QED
    BY <2>3, <2>4
<1>12. Iterates(g, F, a, m, S)
  <2> HIDE DEF g
  <2>1. QED
    BY <1>9, <1>10, <1>11 DEF Iterates
<1>13. QED
  BY <1>3, <1>12
=============================================================================
