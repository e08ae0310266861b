---------------------------- MODULE AccountProofs ----------------------------
(***************************************************************************)
(* Facts about the operators that the specifications are built from: sums  *)
(* over finite sets, as the folds of the community modules compute them,   *)
(* and the operations on one account.                                      *)
(*                                                                         *)
(* The induction theorems of the library take the induction hypothesis as  *)
(* an operator. Here an induction over sets is an argument by a smallest   *)
(* counterexample (SmallestSet), and what is summed is a function F.       *)
(***************************************************************************)
EXTENDS Account, FiniteSetTheorems, WellFoundedInduction, TLAPS

-----------------------------------------------------------------------------
(* Sums over finite sets                                                   *)

Pick(s) == CHOOSE x \in s : TRUE

(* g is the recursive function that sums F over the subsets of S *)
IsSum(g, F, S) ==
  g = [s \in SUBSET S |-> IF s = {} THEN 0 ELSE F[Pick(s)] + g[s \ {Pick(s)}]]

Sum(F, S) == (CHOOSE g : IsSum(g, F, S))[S]

(* Every nonempty set of numbers has a least one.                          *)
LEMMA LeastNat ==
  ASSUME NEW T \in SUBSET Nat, T # {}
  PROVE  \E n \in T : \A m \in T : n <= m
<1> DEFINE less == OpToRel(<, Nat)
<1>1. PICK n \in T : \A m \in T : <<m, n>> \notin less
  BY NatLessThanWellFounded, WFMin
<1>2. \A m \in T : n <= m
  <2> SUFFICES ASSUME NEW m \in T, ~(n <= m) PROVE FALSE
    OBVIOUS
  <2>1. <<m, n>> \in less
    BY DEF OpToRel
  <2> QED BY <1>1, <2>1
<1> QED BY <1>2

(* If some subsets of a finite set are bad, one of them is bad and none is *)
(* that has one element less: induction over finite sets.                  *)
LEMMA SmallestSet ==
  ASSUME NEW S, IsFiniteSet(S), NEW Bad \in SUBSET SUBSET S, Bad # {}
  PROVE  \E s \in Bad : /\ IsFiniteSet(s)
                        /\ \A x \in s : s \ {x} \notin Bad
<1> DEFINE T == {Cardinality(s) : s \in Bad}
<1>1. \A s \in Bad : IsFiniteSet(s) /\ Cardinality(s) \in Nat
  BY FS_Subset, FS_CardinalityType
<1>2. T \in SUBSET Nat /\ T # {}
  BY <1>1
<1>3. PICK n \in T : \A m \in T : n <= m
  BY <1>2, LeastNat
<1>4. PICK s \in Bad : n = Cardinality(s)
  OBVIOUS
<1>5. ASSUME NEW x \in s, s \ {x} \in Bad PROVE FALSE
  <2>1. Cardinality(s \ {x}) = Cardinality(s) - 1
    BY <1>1, FS_RemoveElement
  <2>2. n <= Cardinality(s \ {x})
    BY <1>3, <1>5
  <2> QED BY <1>1, <1>4, <2>1, <2>2
<1> QED BY <1>1, <1>5

(* Two functions that sum up F on the subsets of S agree there.            *)
LEMMA SumUnique ==
  ASSUME NEW F, NEW S, IsFiniteSet(S), NEW T, NEW g, NEW h,
         IsSum(g, F, S), IsSum(h, F, T), S \subseteq T
  PROVE  \A s \in SUBSET S : g[s] = h[s]
<1> DEFINE Bad == {s \in SUBSET S : g[s] # h[s]}
<1> SUFFICES ASSUME Bad # {} PROVE FALSE
  OBVIOUS
<1>1. PICK s \in Bad : \A x \in s : s \ {x} \notin Bad
  BY SmallestSet
<1>2. g[s] = IF s = {} THEN 0 ELSE F[Pick(s)] + g[s \ {Pick(s)}]
  BY DEF IsSum
<1>3. h[s] = IF s = {} THEN 0 ELSE F[Pick(s)] + h[s \ {Pick(s)}]
  BY DEF IsSum
<1>4. CASE s = {}
  BY <1>2, <1>3, <1>4
<1>5. CASE s # {}
  <2>1. Pick(s) \in s
    BY <1>5 DEF Pick
  <2>2. g[s \ {Pick(s)}] = h[s \ {Pick(s)}]
    BY <1>1, <2>1
  <2> QED BY <1>2, <1>3, <2>2
<1> QED BY <1>4, <1>5

(* There is a function that sums up F on the subsets of S.                 *)
LEMMA SumExists ==
  ASSUME NEW F, NEW S, IsFiniteSet(S)
  PROVE  \E g : IsSum(g, F, S)
<1> DEFINE Upto(n) == {s \in SUBSET S : Cardinality(s) <= n}
           Body(g, s) == IF s = {} THEN 0 ELSE F[Pick(s)] + g[s \ {Pick(s)}]
           Good(g, n) == \A s \in Upto(n) : g[s] = Body(g, s)
           Bad == {n \in Nat : \A g : ~Good(g, n)}
<1>1. \A s \in SUBSET S : IsFiniteSet(s) /\ Cardinality(s) \in Nat /\ Cardinality(s) <= Cardinality(S)
  BY FS_Subset, FS_CardinalityType
<1>2. Bad = {}
  <2> SUFFICES ASSUME Bad # {} PROVE FALSE
    OBVIOUS
  <2>1. PICK n \in Bad : \A m \in Bad : n <= m
    BY LeastNat
  <2>2. \E g : \A s \in Upto(n) : s # {} => g[s \ {Pick(s)}] = Body(g, s \ {Pick(s)})
    <3>1. CASE n = 0
      <4>1. \A s \in Upto(n) : s = {}
        BY <1>1, <3>1, FS_EmptySet
      <4> QED BY <4>1
    <3>2. CASE n # 0
      <4>0. n \in Nat
        OBVIOUS
      <4>1. n - 1 \in Nat /\ n - 1 \notin Bad
        <5> HIDE DEF Bad
        <5> QED BY <2>1, <3>2, <4>0
      <4>2. PICK g : Good(g, n - 1)
        BY <4>1
      <4>3. ASSUME NEW s \in Upto(n), s # {} PROVE s \ {Pick(s)} \in Upto(n - 1)
        <5>1. Pick(s) \in s
          BY <4>3 DEF Pick
        <5>2. Cardinality(s \ {Pick(s)}) = Cardinality(s) - 1
          BY <1>1, <5>1, FS_RemoveElement
        <5> QED BY <1>1, <2>1, <5>2
      <4> HIDE DEF Body, Upto
      <4> QED BY <4>2, <4>3
    <3> QED BY <3>1, <3>2
  <2>3. PICK g : \A s \in Upto(n) : s # {} => g[s \ {Pick(s)}] = Body(g, s \ {Pick(s)})
    BY <2>2
  <2> DEFINE h == [s \in SUBSET S |-> Body(g, s)]
  <2>4. ASSUME NEW s \in Upto(n) PROVE h[s] = Body(h, s)
    <3>1. CASE s = {}
      BY <3>1
    <3>2. CASE s # {}
      <4>1. h[s \ {Pick(s)}] = Body(g, s \ {Pick(s)})
        OBVIOUS
      <4>2. g[s \ {Pick(s)}] = Body(g, s \ {Pick(s)})
        BY <2>3, <3>2
      <4>3. h[s] = F[Pick(s)] + g[s \ {Pick(s)}]
        BY <3>2
      <4> HIDE DEF h
      <4> QED BY <3>2, <4>1, <4>2, <4>3
    <3> QED BY <3>1, <3>2
  <2>5. Good(h, n)
    <3> HIDE DEF h, Body, Upto
    <3> QED BY <2>4
  <2> QED BY <2>1, <2>5
<1>3. Cardinality(S) \notin Bad /\ Cardinality(S) \in Nat
  BY <1>2, FS_CardinalityType
<1>4. PICK g : Good(g, Cardinality(S))
  BY <1>3
<1>5. Upto(Cardinality(S)) = SUBSET S
  BY <1>1
<1> DEFINE h == [s \in SUBSET S |-> g[s]]
<1>6. h = [s \in SUBSET S |-> Body(h, s)]
  BY <1>4, <1>5
<1> QED BY <1>6 DEF IsSum

(* The function that Sum chooses sums up F.                                *)
LEMMA SumIsSum ==
  ASSUME NEW F, NEW S, IsFiniteSet(S)
  PROVE  IsSum(CHOOSE g : IsSum(g, F, S), F, S)
BY SumExists

(* Whatever function sums F over the subsets of S agrees with Sum. *)
LEMMA SumOfAny ==
  ASSUME NEW F, NEW S, IsFiniteSet(S), NEW g, IsSum(g, F, S)
  PROVE  \A s \in SUBSET S : g[s] = Sum(F, s)
<1> SUFFICES ASSUME NEW s \in SUBSET S PROVE g[s] = Sum(F, s)
  OBVIOUS
<1> DEFINE h == CHOOSE f : IsSum(f, F, s)
<1>1. IsFiniteSet(s)
  BY FS_Subset
<1>2. IsSum(h, F, s)
  BY <1>1, SumIsSum
<1> HIDE DEF h
<1>3. h[s] = g[s]
  BY <1>1, <1>2, SumUnique
<1> QED BY <1>3 DEF Sum, h

(* A sum is the value of the element taken first and the sum of the rest.  *)
LEMMA SumStep ==
  ASSUME NEW F, NEW S, IsFiniteSet(S)
  PROVE  Sum(F, S) = IF S = {} THEN 0 ELSE F[Pick(S)] + Sum(F, S \ {Pick(S)})
<1>1. PICK g : IsSum(g, F, S)
  BY SumExists
<1>2. \A s \in SUBSET S : g[s] = Sum(F, s)
  BY <1>1, SumOfAny
<1>3. g[S] = IF S = {} THEN 0 ELSE F[Pick(S)] + g[S \ {Pick(S)}]
  BY <1>1 DEF IsSum
<1> QED BY <1>2, <1>3

(* A sum of numbers is a number.                                           *)
LEMMA SumType ==
  ASSUME NEW F, NEW S, IsFiniteSet(S), \A x \in S : F[x] \in Nat
  PROVE  Sum(F, S) \in Nat
<1> DEFINE Bad == {s \in SUBSET S : Sum(F, s) \notin Nat}
<1> SUFFICES ASSUME Bad # {} PROVE FALSE
  OBVIOUS
<1>1. PICK s \in Bad : IsFiniteSet(s) /\ \A x \in s : s \ {x} \notin Bad
  BY SmallestSet
<1>2. Sum(F, s) = IF s = {} THEN 0 ELSE F[Pick(s)] + Sum(F, s \ {Pick(s)})
  BY <1>1, SumStep
<1>3. CASE s = {}
  BY <1>2, <1>3
<1>4. CASE s # {}
  <2>1. Pick(s) \in s
    BY <1>4 DEF Pick
  <2>2. Sum(F, s \ {Pick(s)}) \in Nat /\ F[Pick(s)] \in Nat
    BY <1>1, <2>1
  <2> QED BY <1>2, <1>4, <2>2
<1> QED BY <1>3, <1>4

(* The order in which elements are taken does not matter. *)
LEMMA SumRemove ==
  ASSUME NEW F, NEW S, IsFiniteSet(S), \A x \in S : F[x] \in Nat, NEW x \in S
  PROVE  Sum(F, S) = F[x] + Sum(F, S \ {x})
<1> DEFINE Bad == {s \in SUBSET S : \E y \in s : Sum(F, s) # F[y] + Sum(F, s \ {y})}
<1> SUFFICES ASSUME Bad # {} PROVE FALSE
  OBVIOUS
<1>1. PICK s \in Bad : IsFiniteSet(s) /\ \A y \in s : s \ {y} \notin Bad
  BY SmallestSet
<1>2. PICK y \in s : Sum(F, s) # F[y] + Sum(F, s \ {y})
  OBVIOUS
<1> DEFINE z == Pick(s)
<1>3. z \in s
  BY <1>2 DEF Pick
<1>4. Sum(F, s) = F[z] + Sum(F, s \ {z})
  BY <1>1, <1>2, SumStep
<1>5. y # z
  BY <1>2, <1>4
<1> HIDE DEF z
<1>6. Sum(F, s \ {z}) = F[y] + Sum(F, (s \ {z}) \ {y})
  BY <1>1, <1>3, <1>5
<1>7. Sum(F, s \ {y}) = F[z] + Sum(F, (s \ {y}) \ {z})
  BY <1>1, <1>3, <1>5
<1>8. (s \ {z}) \ {y} = (s \ {y}) \ {z}
  OBVIOUS
<1>9. IsFiniteSet((s \ {z}) \ {y})
  BY <1>1, FS_RemoveElement
<1>10. F[y] \in Nat /\ F[z] \in Nat /\ Sum(F, (s \ {z}) \ {y}) \in Nat
  BY <1>3, <1>9, SumType
<1> QED BY <1>2, <1>4, <1>6, <1>7, <1>8, <1>10

(* A new element adds its value.                                           *)
LEMMA SumAdd ==
  ASSUME NEW F, NEW S, IsFiniteSet(S), NEW x, x \notin S,
         \A y \in S \cup {x} : F[y] \in Nat
  PROVE  Sum(F, S \cup {x}) = F[x] + Sum(F, S)
<1>1. IsFiniteSet(S \cup {x}) /\ (S \cup {x}) \ {x} = S
  BY FS_AddElement
<1> QED BY <1>1, SumRemove

(* A sum is that of a part and that of the rest.                           *)
LEMMA SumSplit ==
  ASSUME NEW F, NEW S, IsFiniteSet(S), \A x \in S : F[x] \in Nat, NEW T \in SUBSET S
  PROVE  Sum(F, S) = Sum(F, T) + Sum(F, S \ T)
<1> DEFINE Bad == {s \in SUBSET T : Sum(F, S) # Sum(F, s) + Sum(F, S \ s)}
<1> SUFFICES ASSUME Bad # {} PROVE FALSE
  OBVIOUS
<1>0. IsFiniteSet(T)
  BY FS_Subset
<1>1. PICK s \in Bad : IsFiniteSet(s) /\ \A x \in s : s \ {x} \notin Bad
  BY <1>0, SmallestSet
<1>2. CASE s = {}
  <2>1. Sum(F, s) = 0 /\ S \ s = S
    BY <1>2, <1>1, SumStep
  <2>2. Sum(F, S) \in Nat
    BY SumType
  <2> QED BY <2>1, <2>2
<1>3. CASE s # {}
  <2>1. PICK x \in s : TRUE
    BY <1>3
  <2>2. Sum(F, S) = Sum(F, s \ {x}) + Sum(F, S \ (s \ {x}))
    BY <1>1
  <2>3. Sum(F, s) = F[x] + Sum(F, s \ {x})
    BY <1>1, SumRemove
  <2>4. S \ (s \ {x}) = (S \ s) \cup {x} /\ x \notin S \ s
    OBVIOUS
  <2>5. IsFiniteSet(S \ s) /\ IsFiniteSet(s \ {x})
    BY FS_Subset
  <2>6. Sum(F, S \ (s \ {x})) = F[x] + Sum(F, S \ s)
    BY <2>4, <2>5, SumAdd
  <2>7. F[x] \in Nat /\ Sum(F, s \ {x}) \in Nat /\ Sum(F, S \ s) \in Nat
    BY <2>5, SumType
  <2> QED BY <2>2, <2>3, <2>6, <2>7
<1> QED BY <1>2, <1>3

(* A sum depends on the values of its elements only.                       *)
LEMMA SumSame ==
  ASSUME NEW F, NEW G, NEW S, IsFiniteSet(S), \A x \in S : F[x] = G[x]
  PROVE  Sum(F, S) = Sum(G, S)
<1> DEFINE Bad == {s \in SUBSET S : Sum(F, s) # Sum(G, s)}
<1> SUFFICES ASSUME Bad # {} PROVE FALSE
  OBVIOUS
<1>1. PICK s \in Bad : IsFiniteSet(s) /\ \A x \in s : s \ {x} \notin Bad
  BY SmallestSet
<1>2. /\ Sum(F, s) = IF s = {} THEN 0 ELSE F[Pick(s)] + Sum(F, s \ {Pick(s)})
      /\ Sum(G, s) = IF s = {} THEN 0 ELSE G[Pick(s)] + Sum(G, s \ {Pick(s)})
  BY <1>1, SumStep
<1>3. s # {} => Pick(s) \in s
  BY DEF Pick
<1> QED BY <1>1, <1>2, <1>3

(* When one term changes, the sum changes by as much. *)
LEMMA SumUpdate ==
  ASSUME NEW F, NEW G, NEW S, IsFiniteSet(S), NEW x \in S,
         \A y \in S : F[y] \in Nat, G[x] \in Nat, \A y \in S \ {x} : G[y] = F[y]
  PROVE  /\ Sum(F, S) \in Nat /\ Sum(G, S) \in Nat
         /\ Sum(G, S) + F[x] = Sum(F, S) + G[x]
<1>1. IsFiniteSet(S \ {x})
  BY FS_RemoveElement
<1>2. Sum(F, S \ {x}) = Sum(G, S \ {x})
  BY <1>1, SumSame
<1>3. Sum(F, S) = F[x] + Sum(F, S \ {x})
  BY SumRemove
<1>4. \A y \in S : G[y] \in Nat
  OBVIOUS
<1>5. Sum(G, S) = G[x] + Sum(G, S \ {x})
  BY <1>4, SumRemove
<1>6. Sum(F, S \ {x}) \in Nat
  BY <1>1, SumType
<1> QED BY <1>2, <1>3, <1>5, <1>6

(* Zeros sum up to zero.                                                   *)
LEMMA SumOfZeros ==
  ASSUME NEW F, NEW S, IsFiniteSet(S), \A x \in S : F[x] = 0
  PROVE  Sum(F, S) = 0
<1> DEFINE Bad == {s \in SUBSET S : Sum(F, s) # 0}
<1> SUFFICES ASSUME Bad # {} PROVE FALSE
  OBVIOUS
<1>1. PICK s \in Bad : IsFiniteSet(s) /\ \A x \in s : s \ {x} \notin Bad
  BY SmallestSet
<1>2. Sum(F, s) = IF s = {} THEN 0 ELSE F[Pick(s)] + Sum(F, s \ {Pick(s)})
  BY <1>1, SumStep
<1>3. s # {} => Pick(s) \in s
  BY DEF Pick
<1> QED BY <1>1, <1>2, <1>3

(* Terms are counted once if m maps no two of them to the same one.        *)
Image(m, S) == {m[x] : x \in S}

(* Summing over S through a map that is one to one is summing over its     *)
(* image.                                                                  *)
LEMMA SumImage ==
  ASSUME NEW F, NEW m, NEW S, IsFiniteSet(S), \A x \in S : F[m[x]] \in Nat,
         \A x, y \in S : m[x] = m[y] => x = y,
         NEW G, \A x \in S : G[x] = F[m[x]]
  PROVE  /\ IsFiniteSet(Image(m, S))
         /\ Sum(G, S) = Sum(F, Image(m, S))
<1> DEFINE Good(s) == IsFiniteSet(Image(m, s)) /\ Sum(G, s) = Sum(F, Image(m, s))
           Bad == {s \in SUBSET S : ~Good(s)}
<1> SUFFICES ASSUME Bad # {} PROVE FALSE
  OBVIOUS
<1>1. PICK s \in Bad : IsFiniteSet(s) /\ \A x \in s : s \ {x} \notin Bad
  BY SmallestSet
<1>2. CASE s = {}
  <2>1. Image(m, s) = {}
    BY <1>2 DEF Image
  <2> QED BY <1>1, <1>2, <2>1, SumStep, FS_EmptySet
<1>3. CASE s # {}
  <2>1. PICK x \in s : TRUE
    BY <1>3
  <2>2. IsFiniteSet(Image(m, s \ {x})) /\ Sum(G, s \ {x}) = Sum(F, Image(m, s \ {x}))
    BY <1>1
  <2>3. Sum(G, s) = G[x] + Sum(G, s \ {x})
    BY <1>1, SumRemove
  <2>4. Image(m, s) = Image(m, s \ {x}) \cup {m[x]} /\ m[x] \notin Image(m, s \ {x})
    BY DEF Image
  <2>5. \A y \in Image(m, s) : F[y] \in Nat
    BY DEF Image
  <2>6. IsFiniteSet(Image(m, s))
    <3>1. IsFiniteSet(Image(m, s \ {x}) \cup {m[x]})
      BY <2>2, FS_AddElement
    <3> QED BY <2>4, <3>1
  <2>7. Sum(F, Image(m, s)) = F[m[x]] + Sum(F, Image(m, s \ {x}))
    BY <2>2, <2>4, <2>5, SumAdd
  <2>8. G[x] = F[m[x]]
    OBVIOUS
  <2> QED BY <2>2, <2>3, <2>6, <2>7, <2>8
<1> QED BY <1>2, <1>3

-----------------------------------------------------------------------------
(* The sums of Account                                                     *)

Values == [o \in OutputId |-> Value(o)]

(* MapThenSumSet over deposits is Sum.                                     *)
LEMMA ValueFold ==
  ASSUME NEW S, IsFiniteSet(S), S \subseteq OutputId
  PROVE  MapThenSumSet(Value, S) = Sum(Values, S)
<1> DEFINE Sums(g) == g = [s \in SUBSET S |->
                        IF s = {} THEN 0 ELSE Value(Pick(s)) + g[s \ {Pick(s)}]]
           chosen == CHOOSE g : Sums(g)
<1>1. MapThenSumSet(Value, S) = chosen[S]
  BY DEF MapThenSumSet, MapThenFoldSet, Pick
<1>2. ASSUME NEW s \in SUBSET S, s # {} PROVE Values[Pick(s)] = Value(Pick(s))
  BY <1>2 DEF Values, Pick
<1>3. PICK g : IsSum(g, Values, S)
  BY SumExists
<1>4. Sums(g)
  BY <1>2, <1>3 DEF IsSum
<1>5. Sums(chosen)
  <2> HIDE DEF Sums
  <2> QED BY <1>4
<1>6. IsSum(chosen, Values, S)
  <2> HIDE DEF chosen
  <2> QED BY <1>2, <1>5 DEF IsSum
<1> HIDE DEF chosen
<1> QED BY <1>1, <1>6, SumOfAny

InputValues(t) == [i \in DOMAIN Tx[t].ins |-> Value(Tx[t].ins[i].prev)]
InputsUpto(a, t, last) == {i \in DepositInputs(a, t) : i <= last}

(* The sum over the inputs of a transaction is Sum.                        *)
LEMMA InputFold ==
  ASSUME NEW a, NEW t \in TxId, NEW last
  PROVE  InputSum(a, t, last) = Sum(InputValues(t), InputsUpto(a, t, last))
<1> DEFINE S == InputsUpto(a, t, last)
           F == InputValues(t)
           value(i) == Value(Tx[t].ins[i].prev)
           Sums(g) == g = [s \in SUBSET S |->
                        IF s = {} THEN 0 ELSE value(Pick(s)) + g[s \ {Pick(s)}]]
           chosen == CHOOSE g : Sums(g)
<1>0. S \subseteq DOMAIN Tx[t].ins /\ IsFiniteSet(S)
  <2>1. S \in SUBSET DOMAIN Tx[t].ins
    BY DEF InputsUpto, DepositInputs
  <2>2. IsFiniteSet(1 .. Len(Tx[t].ins))
    BY DepositTxAssumption, FS_Interval
  <2> HIDE DEF S
  <2> QED BY <2>1, <2>2, DepositTxAssumption, FS_Subset
<1>1. InputSum(a, t, last) = chosen[S]
  BY DEF InputSum, MapThenSumSet, MapThenFoldSet, Pick, InputsUpto
<1> HIDE DEF S
<1>2. ASSUME NEW s \in SUBSET S, s # {} PROVE F[Pick(s)] = value(Pick(s))
  BY <1>0, <1>2 DEF InputValues, Pick
<1> HIDE DEF F, value
<1>3. PICK g : IsSum(g, F, S)
  BY <1>0, SumExists
<1>4. Sums(g)
  BY <1>2, <1>3 DEF IsSum
<1>5. Sums(chosen)
  <2> HIDE DEF Sums
  <2> QED BY <1>4
<1>6. IsSum(chosen, F, S)
  <2> HIDE DEF chosen
  <2> QED BY <1>2, <1>5 DEF IsSum
<1> HIDE DEF chosen
<1>7. \A s \in SUBSET S : chosen[s] = Sum(F, s)
  BY <1>0, <1>6, SumOfAny
<1>8. chosen[S] = Sum(F, S)
  BY <1>7
<1> QED BY <1>1, <1>8 DEF S, F

-----------------------------------------------------------------------------
(* Operators on transactions and accounts                                  *)

(* A set of input numbers has a largest one: the last solo input of        *)
(* QueueAfter exists.                                                      *)
LEMMA MaxOfInputs ==
  ASSUME NEW n \in Nat, NEW S \in SUBSET (1 .. n), S # {}
  PROVE  Max(S) \in S /\ \A y \in S : Max(S) >= y
<1> DEFINE R == {n - i : i \in S}
           less == OpToRel(<, Nat)
<1>1. R \subseteq Nat
  OBVIOUS
<1>2. R # {}
  OBVIOUS
<1>3. PICK r \in R : \A q \in R : <<q, r>> \notin less
  BY <1>1, <1>2, NatLessThanWellFounded, WFMin
<1>4. PICK x \in S : r = n - x
  OBVIOUS
<1>5. \A y \in S : x >= y
  <2> SUFFICES ASSUME NEW y \in S, ~(x >= y) PROVE FALSE
    OBVIOUS
  <2>1. n - y \in R /\ n - y < r /\ n - y \in Nat /\ r \in Nat
    BY <1>4
  <2>2. <<n - y, r>> \in less
    BY <2>1 DEF OpToRel
  <2> QED BY <2>1, <2>2, <1>3
<1> QED BY <1>5 DEF Max

(* A decoded message names an output that may be an id.                    *)
LEMMA DepositIdType ==
  ASSUME NEW t \in TxId, NEW embed, VerifyEmbedOutput(t, embed)
  PROVE  /\ DepositVout(t, embed) \in Vout
         /\ DepositId(t, embed) \in OutputId
BY DepositTxAssumption DEF VerifyEmbedOutput, HasOut, Out, DepositVout, DepositId, OutputId

(* The operations on an account leave an account.                          *)
LEMMA NewAccountType == NewAccount \in AccountType
BY AccountAssumption DEF NewAccount, AccountType, U64

(* An account stays well typed when a deposit is created.                  *)
LEMMA CreateDepositType ==
  ASSUME NEW a \in AccountType, NEW o \in OutputId, CanCreateDeposit(a, o)
  PROVE  CreateDeposit(a, o) \in AccountType
BY DEF CanCreateDeposit, CreateDeposit, AccountType

(* An account stays well typed when a withdrawal is queued.                *)
LEMMA QueueWithdrawalType ==
  ASSUME NEW a \in AccountType, NEW amount \in U64, NEW time \in U64,
         CanQueueWithdrawal(a, amount)
  PROVE  QueueWithdrawal(a, amount, time) \in AccountType
<1> DEFINE queue == a.queue + amount
           nonce == a.nonce + 1
<1>1. queue \in U64 /\ nonce \in U64
  BY DEF CanQueueWithdrawal, AccountType
<1>2. QueueWithdrawal(a, amount, time) =
        [a EXCEPT !.queue = queue, !.startTs = time, !.nonce = nonce, !.pending = None]
  BY DEF QueueWithdrawal
<1> HIDE DEF queue, nonce
<1> QED BY <1>1, <1>2 DEF AccountType

(* An account stays well typed when a PSBT is saved.                       *)
LEMMA SavePendingType ==
  ASSUME NEW a \in AccountType, NEW t \in TxId, NEW embed,
         embed # None => VerifyEmbedOutput(t, embed), NEW storage \in Nat
  PROVE  SavePending(a, t, embed, storage) \in AccountType
<1> DEFINE psbt ==
      [tx |-> t, reinvest |-> IF embed = None THEN None ELSE DepositVout(t, embed)]
           paid == a.storage + storage
           zero == 0
<1>1. psbt \in Psbt
  BY DepositIdType DEF Psbt
<1>2. zero \in U64 /\ zero \in Nat /\ paid \in Nat
  BY AccountAssumption DEF U64, AccountType
<1>3. SavePending(a, t, embed, storage) =
        [a EXCEPT !.pending = psbt, !.storage = paid, !.queue = zero, !.startTs = zero]
  BY DEF SavePending
<1> HIDE DEF psbt, paid, zero
<1> QED BY <1>1, <1>2, <1>3 DEF AccountType

(* A completed withdrawal lowers the queue at most, and leaves it alone if *)
(* every input is multisig.                                                *)
LEMMA QueueAfterType ==
  ASSUME NEW a \in AccountType, NEW t \in TxId, NEW multisig,
         CanCompleteWithdrawals(a, t)
  PROVE  /\ QueueAfter(a, t, multisig) \in U64
         /\ QueueAfter(a, t, multisig) <= a.queue
         /\ DepositInputs(a, t) \subseteq multisig => QueueAfter(a, t, multisig) = a.queue
<1> DEFINE n == Len(Tx[t].ins)
           solo == DepositInputs(a, t) \ multisig
<1>1. n \in Nat /\ DOMAIN Tx[t].ins = 1 .. n
  BY DepositTxAssumption
<1>2. DepositInputs(a, t) \in SUBSET (1 .. n)
  BY <1>1 DEF DepositInputs
<1>3. a.queue \in U64 /\ a.queue \in Nat
  BY AccountAssumption DEF AccountType, U64
<1>4. CASE solo = {}
  <2>1. QueueAfter(a, t, multisig) = a.queue
    BY <1>4 DEF QueueAfter
  <2> QED BY <1>3, <2>1
<1>5. CASE solo # {}
  <2>1. Max(solo) \in 1 .. n
    BY <1>1, <1>2, <1>5, MaxOfInputs
  <2> DEFINE left == a.total - InputSum(a, t, Max(solo))
  <2>2. left \in U64 /\ left \in Nat
    BY <1>1, <2>1, AccountAssumption DEF CanCompleteWithdrawals, U64
  <2>3. QueueAfter(a, t, multisig) = IF a.queue <= left THEN a.queue ELSE left
    BY <1>5 DEF QueueAfter
  <2>4. ~ DepositInputs(a, t) \subseteq multisig
    BY <1>5
  <2> HIDE DEF left
  <2> QED BY <1>3, <2>2, <2>3, <2>4
<1> QED BY <1>4, <1>5

(* An account stays well typed when withdrawals are completed.             *)
LEMMA CompleteWithdrawalsType ==
  ASSUME NEW a \in AccountType, NEW t \in TxId, NEW multisig,
         CanCompleteWithdrawals(a, t)
  PROVE  CompleteWithdrawals(a, t, multisig) \in AccountType
<1>1. a.total - DepositInputSum(a, t) \in U64
  BY DepositTxAssumption DEF CanCompleteWithdrawals, DepositInputs, DepositInputSum
<1>2. Spent(a, t) \in SUBSET OutputId
  BY DEF Spent, DepositInputs, AccountType
<1>3. {[id |-> o, by |-> t] : o \in Spent(a, t)} \in SUBSET Withdrawn
  BY <1>2 DEF Withdrawn
<1> QED BY <1>1, <1>2, <1>3, QueueAfterType DEF CompleteWithdrawals, AccountType

-----------------------------------------------------------------------------
(* Accounts whose total is the value of their active deposits              *)

Balanced(a) ==
  /\ IsFiniteSet(a.active)
  /\ \A o \in a.active : Value(o) \in Nat
  /\ a.total = MapThenSumSet(Value, a.active)

(* The total of a balanced account is the sum of its active deposits.      *)
LEMMA BalancedSum ==
  ASSUME NEW a \in AccountType, Balanced(a)
  PROVE  /\ \A o \in a.active : Values[o] = Value(o) /\ Values[o] \in Nat
         /\ a.total = Sum(Values, a.active)
<1>1. a.active \subseteq OutputId
  BY DEF AccountType
<1> QED BY <1>1, ValueFold DEF Balanced, Values

(* A new account is balanced.                                              *)
LEMMA NewAccountBalanced == Balanced(NewAccount)
<1>1. NewAccount.active = {} /\ NewAccount.total = 0
  BY DEF NewAccount
<1>2. IsFiniteSet({}) /\ Sum(Values, {}) = 0
  BY FS_EmptySet, SumStep
<1>3. MapThenSumSet(Value, {}) = 0
  BY <1>2, ValueFold
<1> QED BY <1>1, <1>2, <1>3 DEF Balanced

(* A deposit adds to the total what it is worth.                           *)
LEMMA CreateDepositBalanced ==
  ASSUME NEW a \in AccountType, Balanced(a), NEW o \in OutputId, Value(o) \in Nat,
         CanCreateDeposit(a, o)
  PROVE  Balanced(CreateDeposit(a, o))
<1> DEFINE b == CreateDeposit(a, o)
<1>1. b.active = a.active \cup {o} /\ b.total = a.total + Value(o) /\ o \notin a.active
  BY DEF CreateDeposit, CanCreateDeposit, AccountType
<1>2. IsFiniteSet(b.active) /\ b.active \subseteq OutputId
  BY <1>1, FS_AddElement DEF Balanced, AccountType
<1>3. \A p \in b.active : Value(p) \in Nat /\ Values[p] = Value(p)
  BY <1>1, <1>2 DEF Balanced, Values
<1>4. Sum(Values, b.active) = Value(o) + Sum(Values, a.active)
  <2>1. \A p \in a.active \cup {o} : Values[p] \in Nat
    BY <1>1, <1>3
  <2> HIDE DEF b
  <2> QED BY <1>1, <1>3, <2>1, SumAdd DEF Balanced
<1>5. a.total = Sum(Values, a.active) /\ a.total \in Nat
  BY BalancedSum, AccountAssumption DEF AccountType, U64
<1>6. b.total = Sum(Values, b.active)
  <2> HIDE DEF b
  <2> QED BY <1>1, <1>4, <1>5
<1> HIDE DEF b
<1>7. Balanced(b)
  BY <1>2, <1>3, <1>6, ValueFold DEF Balanced
<1> QED BY <1>7 DEF b

(* What the inputs of a transaction take out of an account, up to any of   *)
(* them, is no more than there is.                                         *)
LEMMA InputSums ==
  ASSUME NEW a \in AccountType, Balanced(a), NEW t \in TxId, DistinctInputs(t)
  PROVE  /\ \A last \in Nat : InputSum(a, t, last) \in Nat /\ InputSum(a, t, last) <= a.total
         /\ DepositInputSum(a, t) = Sum(Values, Spent(a, t))
<1> DEFINE m == [i \in DOMAIN Tx[t].ins |-> Tx[t].ins[i].prev]
           spentUpto(last) == Image(m, InputsUpto(a, t, last))
<1>1. \A last : InputsUpto(a, t, last) \in SUBSET DOMAIN Tx[t].ins
  BY DEF InputsUpto, DepositInputs
<1>2. IsFiniteSet(DOMAIN Tx[t].ins)
  <2>1. IsFiniteSet(1 .. Len(Tx[t].ins))
    BY DepositTxAssumption, FS_Interval
  <2> QED BY <2>1, DepositTxAssumption
<1>3. \A o \in a.active : Values[o] = Value(o) /\ Values[o] \in Nat
  BY BalancedSum
<1>4. ASSUME NEW last
      PROVE  /\ spentUpto(last) \subseteq a.active
             /\ InputSum(a, t, last) = Sum(Values, spentUpto(last))
  <2> DEFINE S == InputsUpto(a, t, last)
  <2>1. S \subseteq DOMAIN Tx[t].ins /\ IsFiniteSet(S)
    BY <1>1, <1>2, FS_Subset
  <2>2. \A i \in S : m[i] \in a.active /\ m[i] = Tx[t].ins[i].prev
    BY <2>1 DEF InputsUpto, DepositInputs
  <2>3. \A i \in S : Values[m[i]] \in Nat /\ InputValues(t)[i] = Values[m[i]]
    BY <1>3, <2>1, <2>2 DEF InputValues
  <2>4. \A i, j \in S : m[i] = m[j] => i = j
    BY <2>1, <2>2 DEF DistinctInputs
  <2> HIDE DEF S, m
  <2>5. Sum(InputValues(t), S) = Sum(Values, Image(m, S))
    <3>1. \A i \in S : Values[m[i]] \in Nat
      BY <2>3
    <3>2. \A i \in S : InputValues(t)[i] = Values[m[i]]
      BY <2>3
    <3> QED BY <2>1, <2>4, <3>1, <3>2, SumImage
  <2>6. Image(m, S) \subseteq a.active
    BY <2>2 DEF Image
  <2> QED BY <2>5, <2>6, InputFold DEF S
<1>5. ASSUME NEW T \in SUBSET a.active
      PROVE  Sum(Values, T) \in Nat /\ Sum(Values, T) <= a.total
  <2>0. IsFiniteSet(a.active)
    BY DEF Balanced
  <2>1. a.total = Sum(Values, T) + Sum(Values, a.active \ T)
    <3>1. Sum(Values, a.active) = Sum(Values, T) + Sum(Values, a.active \ T)
      BY <1>3, <2>0, SumSplit
    <3> QED BY <3>1, BalancedSum
  <2>2. Sum(Values, T) \in Nat /\ Sum(Values, a.active \ T) \in Nat
    <3>1. IsFiniteSet(T) /\ IsFiniteSet(a.active \ T)
      BY FS_Subset DEF Balanced
    <3> QED BY <1>3, <3>1, SumType
  <2> QED BY <2>1, <2>2
<1>6. spentUpto(Len(Tx[t].ins)) = Spent(a, t)
  <2>1. \A i \in DOMAIN Tx[t].ins : i <= Len(Tx[t].ins)
    BY DepositTxAssumption
  <2>2. InputsUpto(a, t, Len(Tx[t].ins)) = DepositInputs(a, t)
    BY <2>1 DEF InputsUpto, DepositInputs
  <2>3. \A i \in DepositInputs(a, t) : m[i] = Tx[t].ins[i].prev
    BY DEF DepositInputs
  <2> HIDE DEF m
  <2> QED BY <2>2, <2>3 DEF Spent, Image
<1> HIDE DEF spentUpto
<1>7. \A last \in Nat : InputSum(a, t, last) \in Nat /\ InputSum(a, t, last) <= a.total
  BY <1>4, <1>5
<1>8. DepositInputSum(a, t) = Sum(Values, Spent(a, t))
  BY <1>4, <1>6 DEF DepositInputSum
<1> QED BY <1>7, <1>8

(* A completed withdrawal takes from the total what the deposits it spends *)
(* are worth, each once.                                                   *)
LEMMA CompleteWithdrawalsBalanced ==
  ASSUME NEW a \in AccountType, Balanced(a), NEW t \in TxId, DistinctInputs(t),
         NEW multisig
  PROVE  Balanced(CompleteWithdrawals(a, t, multisig))
<1> DEFINE b == CompleteWithdrawals(a, t, multisig)
<1>1. b.active = a.active \ Spent(a, t) /\ b.total = a.total - DepositInputSum(a, t)
  BY DEF CompleteWithdrawals, AccountType
<1>2. Spent(a, t) \in SUBSET a.active
  BY DEF Spent, DepositInputs
<1>3. IsFiniteSet(b.active) /\ b.active \subseteq OutputId /\ \A o \in b.active : Value(o) \in Nat
  BY <1>1, FS_Subset DEF Balanced, AccountType
<1>4. /\ a.total = Sum(Values, a.active)
      /\ \A o \in a.active : Values[o] \in Nat
  BY BalancedSum
<1>5. a.total = Sum(Values, Spent(a, t)) + Sum(Values, b.active)
  <2> HIDE DEF b
  <2> QED BY <1>1, <1>2, <1>4, SumSplit DEF Balanced
<1>6. Sum(Values, b.active) \in Nat /\ Sum(Values, Spent(a, t)) \in Nat
  <2>1. IsFiniteSet(Spent(a, t))
    BY <1>2, FS_Subset DEF Balanced
  <2>2. b.active \subseteq a.active
    BY <1>1
  <2> HIDE DEF b
  <2> QED BY <1>2, <1>3, <1>4, <2>1, <2>2, SumType
<1>7. b.total = Sum(Values, b.active)
  <2>1. DepositInputSum(a, t) = Sum(Values, Spent(a, t))
    BY InputSums
  <2> HIDE DEF b
  <2> QED BY <1>1, <1>5, <1>6, <2>1
<1> HIDE DEF b
<1>8. Balanced(b)
  BY <1>3, <1>7, ValueFold DEF Balanced
<1> QED BY <1>8 DEF b

(* No check of complete_withdrawal fails for a balanced account.           *)
LEMMA CompletableIfBalanced ==
  ASSUME NEW a \in AccountType, Balanced(a), NEW t \in TxId, DistinctInputs(t),
         DepositInputs(a, t) # {}, a.active \cap WithdrawnIds(a) = {}
  PROVE  CanCompleteWithdrawals(a, t)
<1>1. ASSUME NEW i \in DOMAIN Tx[t].ins PROVE a.total - InputSum(a, t, i) \in U64
  <2>1. i \in Nat
    BY DepositTxAssumption
  <2>2. InputSum(a, t, i) \in Nat /\ InputSum(a, t, i) <= a.total
    BY <2>1, InputSums
  <2>3. a.total \in 0 .. U64Max
    BY DEF AccountType, U64
  <2> QED BY <2>2, <2>3, AccountAssumption DEF U64
<1>2. Spent(a, t) \subseteq a.active
  BY DEF Spent, DepositInputs
<1> QED BY <1>1, <1>2 DEF CanCompleteWithdrawals

=============================================================================
