--------------------------- MODULE ReadersProofs ---------------------------
(***************************************************************************)
(* Proofs about those who read the contract while it runs: the events tell *)
(* the books, and reading page after page lists nothing twice and skips no *)
(* more than was removed in the meantime.                                  *)
(***************************************************************************)
EXTENDS Readers, WithdrawalProofs

USE DEF contractVars, chainVars, adminVars, ownership, rootVars

-----------------------------------------------------------------------------
(* Vectors *)

(* What is stored behind the first offset values                           *)
After(values, offset) == {values[i] : i \in {j \in DOMAIN values : j > offset}}

(* A removal takes out one value and shortens the vector; behind any       *)
(* offset it adds nothing and loses, beside the value, the last at most.   *)
LEMMA SwapRemoveFacts ==
  ASSUME NEW values \in Seq(OutputId), IsInjective(values), NEW v \in ToSet(values)
  PROVE  /\ SwapRemove(values, v) \in Seq(OutputId)
         /\ IsInjective(SwapRemove(values, v))
         /\ ToSet(SwapRemove(values, v)) = ToSet(values) \ {v}
         /\ \A offset \in Nat :
              /\ After(SwapRemove(values, v), offset) \subseteq After(values, offset)
              /\ After(values, offset)
                   \subseteq After(SwapRemove(values, v), offset) \cup {v, values[Len(values)]}
<1> DEFINE at == CHOOSE i \in DOMAIN values : values[i] = v
           last == Len(values)
           moved == [values EXCEPT ![at] = values[last]]
           left == SwapRemove(values, v)
<1>1. at \in DOMAIN values /\ values[at] = v
  BY DEF ToSet
<1>2. last \in Nat /\ DOMAIN values = 1 .. last /\ last >= 1
  BY <1>1
<1> HIDE DEF at
<1>3. moved \in Seq(OutputId) /\ Len(moved) = last
  BY <1>1, <1>2
<1>4. left = SubSeq(moved, 1, last - 1)
  BY DEF SwapRemove, at
<1>5. left \in Seq(OutputId) /\ Len(left) = last - 1 /\ DOMAIN left = 1 .. last - 1
  <2> HIDE DEF moved, left
  <2> QED BY <1>2, <1>3, <1>4
<1>6. \A i \in 1 .. last - 1 : left[i] = IF i = at THEN values[last] ELSE values[i]
  <2>1. \A i \in 1 .. last - 1 : left[i] = moved[i]
    <3> HIDE DEF moved, left
    <3> QED BY <1>2, <1>3, <1>4
  <2>2. \A i \in 1 .. last - 1 : moved[i] = IF i = at THEN values[last] ELSE values[i]
    BY <1>2
  <2> QED BY <2>1, <2>2
<1>7. \A i, j \in 1 .. last : values[i] = values[j] => i = j
  BY <1>2 DEF IsInjective
<1> HIDE DEF left, moved, last
<1>8. IsInjective(left)
  BY <1>1, <1>2, <1>5, <1>6, <1>7 DEF IsInjective
<1>9. ToSet(left) = ToSet(values) \ {v}
  <2>1. ASSUME NEW x \in ToSet(left) PROVE x \in ToSet(values) \ {v}
    BY <1>1, <1>2, <1>5, <1>6, <1>7, <2>1 DEF ToSet
  <2>2. ASSUME NEW x \in ToSet(values) \ {v} PROVE x \in ToSet(left)
    <3>1. PICK i \in 1 .. last : x = values[i] /\ i # at
      BY <1>1, <1>2, <2>2 DEF ToSet
    <3>2. CASE i = last
      <4>1. left[at] = x /\ at \in 1 .. last - 1
        BY <1>1, <1>2, <1>6, <3>1, <3>2
      <4> QED BY <1>5, <4>1 DEF ToSet
    <3>3. CASE i # last
      <4>1. left[i] = x /\ i \in 1 .. last - 1
        BY <1>2, <1>6, <3>1, <3>3
      <4> QED BY <1>5, <4>1 DEF ToSet
    <3> QED BY <3>2, <3>3
  <2> QED BY <2>1, <2>2
<1>10. ASSUME NEW offset \in Nat
       PROVE  /\ After(left, offset) \subseteq After(values, offset)
              /\ After(values, offset) \subseteq After(left, offset) \cup {v, values[last]}
  <2>1. ASSUME NEW i \in DOMAIN left, i > offset PROVE left[i] \in After(values, offset)
    <3>1. i \in 1 .. last - 1 /\ last \in DOMAIN values /\ last > offset
      BY <1>2, <1>5, <2>1
    <3>2. left[i] = values[last] \/ left[i] = values[i]
      BY <1>6, <3>1
    <3> QED BY <1>2, <2>1, <3>1, <3>2 DEF After
  <2>2. ASSUME NEW i \in DOMAIN values, i > offset
        PROVE  values[i] \in After(left, offset) \cup {v, values[last]}
    <3>1. CASE i = at \/ i = last
      BY <1>1, <3>1
    <3>2. CASE i # at /\ i # last
      <4>1. i \in DOMAIN left /\ left[i] = values[i]
        BY <1>2, <1>5, <1>6, <3>2
      <4> QED BY <2>2, <4>1 DEF After
    <3> QED BY <3>1, <3>2
  <2> QED BY <2>1, <2>2 DEF After
<1> QED BY <1>5, <1>8, <1>9, <1>10 DEF left, last

(* Values that are put at the end come behind every offset.                *)
LEMMA AddedFacts ==
  ASSUME NEW values \in Seq(OutputId), IsInjective(values),
         NEW more \in Seq(OutputId), IsInjective(more),
         ToSet(values) \cap ToSet(more) = {}
  PROVE  /\ values \o more \in Seq(OutputId)
         /\ IsInjective(values \o more)
         /\ ToSet(values \o more) = ToSet(values) \cup ToSet(more)
         /\ \A offset \in Nat :
              /\ After(values, offset) \subseteq After(values \o more, offset)
              /\ After(values \o more, offset) \subseteq After(values, offset) \cup ToSet(more)
<1> DEFINE n == Len(values)
           m == Len(more)
           all == values \o more
<1>1. /\ n \in Nat /\ DOMAIN values = 1 .. n
      /\ m \in Nat /\ DOMAIN more = 1 .. m
  OBVIOUS
<1>2. /\ all \in Seq(OutputId) /\ DOMAIN all = 1 .. n + m
      /\ \A i \in 1 .. n + m : all[i] = IF i <= n THEN values[i] ELSE more[i - n]
  OBVIOUS
<1> HIDE DEF n, m, all
<1>3. ASSUME NEW i \in 1 .. n
      PROVE  i \in 1 .. n + m /\ all[i] = values[i] /\ all[i] \in ToSet(values)
  <2>1. i \in 1 .. n + m /\ all[i] = values[i]
    BY <1>1, <1>2
  <2> QED BY <1>1, <2>1 DEF ToSet
<1>4. ASSUME NEW i \in 1 .. n + m, i > n
      PROVE  i - n \in 1 .. m /\ all[i] = more[i - n] /\ all[i] \in ToSet(more)
  <2>1. i - n \in 1 .. m /\ all[i] = more[i - n]
    BY <1>1, <1>2, <1>4
  <2> QED BY <1>1, <2>1 DEF ToSet
<1>5. \A k \in 1 .. m : n + k \in 1 .. n + m /\ all[n + k] = more[k]
  BY <1>1, <1>2
<1>6. IsInjective(all)
  <2> SUFFICES ASSUME NEW i \in 1 .. n + m, NEW j \in 1 .. n + m, all[i] = all[j]
               PROVE  i = j
    BY <1>2 DEF IsInjective
  <2>1. CASE i <= n /\ j <= n
    <3>1. i \in DOMAIN values /\ j \in DOMAIN values /\ values[i] = values[j]
      BY <1>1, <1>3, <2>1
    <3> QED BY <3>1 DEF IsInjective
  <2>2. CASE i > n /\ j > n
    <3>1. /\ i - n \in DOMAIN more /\ j - n \in DOMAIN more
          /\ more[i - n] = more[j - n]
      BY <1>1, <1>4, <2>2
    <3>2. i - n = j - n
      BY <3>1 DEF IsInjective
    <3>3. i \in Int /\ j \in Int /\ n \in Int
      BY <1>1
    <3> QED BY <3>2, <3>3
  <2>3. CASE (i <= n /\ j > n) \/ (i > n /\ j <= n)
    BY <1>1, <1>3, <1>4, <2>3
  <2>4. (i <= n \/ i > n) /\ (j <= n \/ j > n)
    BY <1>1
  <2> QED BY <2>1, <2>2, <2>3, <2>4
<1>7. ToSet(all) = ToSet(values) \cup ToSet(more)
  <2>1. ToSet(all) \subseteq ToSet(values) \cup ToSet(more)
    <3> SUFFICES ASSUME NEW i \in 1 .. n + m PROVE all[i] \in ToSet(values) \cup ToSet(more)
      BY <1>2 DEF ToSet
    <3> QED BY <1>1, <1>3, <1>4
  <2>2. ToSet(values) \subseteq ToSet(all)
    BY <1>1, <1>2, <1>3 DEF ToSet
  <2>3. ToSet(more) \subseteq ToSet(all)
    BY <1>1, <1>2, <1>5 DEF ToSet
  <2> QED BY <2>1, <2>2, <2>3
<1>8. ASSUME NEW offset \in Nat
      PROVE  /\ After(values, offset) \subseteq After(all, offset)
             /\ After(all, offset) \subseteq After(values, offset) \cup ToSet(more)
  <2>1. \A i \in DOMAIN values : i > offset => values[i] \in After(all, offset)
    BY <1>1, <1>2, <1>3 DEF After
  <2>2. ASSUME NEW i \in DOMAIN all, i > offset
        PROVE  all[i] \in After(values, offset) \cup ToSet(more)
    <3>1. CASE i <= n
      BY <1>1, <1>2, <1>3, <2>2, <3>1 DEF After
    <3>2. CASE i > n
      BY <1>2, <1>4, <3>2
    <3> QED BY <1>1, <1>2, <3>1, <3>2
  <2> QED BY <2>1, <2>2 DEF After
<1> QED BY <1>2, <1>6, <1>7, <1>8 DEF all

(* One value that is put at the end                                        *)
LEMMA AppendFacts ==
  ASSUME NEW values \in Seq(OutputId), IsInjective(values), NEW o \in OutputId,
         o \notin ToSet(values)
  PROVE  /\ Append(values, o) \in Seq(OutputId)
         /\ IsInjective(Append(values, o))
         /\ ToSet(Append(values, o)) = ToSet(values) \cup {o}
         /\ \A offset \in Nat :
              /\ After(values, offset) \subseteq After(Append(values, o), offset)
              /\ After(Append(values, o), offset) \subseteq After(values, offset) \cup {o}
<1> DEFINE more == <<o>>
<1>1. more \in Seq(OutputId) /\ DOMAIN more = {1} /\ more[1] = o
  OBVIOUS
<1>2. Append(values, o) = values \o more
  OBVIOUS
<1> HIDE DEF more
<1>3. IsInjective(more) /\ ToSet(more) = {o}
  BY <1>1 DEF IsInjective, ToSet
<1>4. ToSet(values) \cap ToSet(more) = {}
  BY <1>3
<1> QED BY <1>1, <1>2, <1>3, <1>4, AddedFacts

(* A page is what comes next, and what comes after it is behind the new    *)
(* offset: nothing if the page is not full.                                *)
LEMMA PageFacts ==
  ASSUME NEW values \in Seq(OutputId), IsInjective(values), NEW offset \in Nat
  PROVE  LET page == Page(values, offset)
         IN  /\ page \in Seq(OutputId)
             /\ IsInjective(page)
             /\ After(values, offset) = ToSet(page) \cup After(values, offset + Limit)
             /\ ToSet(page) \cap After(values, offset + Limit) = {}
             /\ Len(page) < Limit => After(values, offset + Limit) = {}
<1> DEFINE page == Page(values, offset)
           n == Len(values)
           end == IF n <= offset + Limit THEN n ELSE offset + Limit
<1>0. Limit \in Nat /\ Limit > 0
  BY ReadersAssumption
<1>1. n \in Nat /\ DOMAIN values = 1 .. n
  OBVIOUS
<1>2. Min({n, offset + Limit}) = end
  <2>1. /\ end \in {n, offset + Limit}
        /\ \A y \in {n, offset + Limit} : end <= y
    BY <1>0, <1>1
  <2>2. \A x, y \in {n, offset + Limit} : x <= y /\ y <= x => x = y
    BY <1>0, <1>1
  <2> HIDE DEF end, n
  <2> QED BY <2>1, <2>2 DEF Min
<1>3. page = SubSeq(values, offset + 1, end) /\ end \in Nat /\ end <= n
  <2>1. page = SubSeq(values, offset + 1, end)
    BY <1>2 DEF Page
  <2>2. end \in Nat /\ end <= n
    BY <1>0, <1>1
  <2> QED BY <2>1, <2>2
<1> HIDE DEF page
<1>4. /\ page \in Seq(OutputId)
      /\ DOMAIN page = 1 .. end - offset
      /\ Len(page) = IF offset <= end THEN end - offset ELSE 0
      /\ \A i \in 1 .. end - offset :
           /\ offset + i \in 1 .. n /\ offset + i <= end
           /\ page[i] = values[offset + i]
  <2> HIDE DEF end
  <2> QED BY <1>1, <1>3
<1>5. \A i, j \in 1 .. n : values[i] = values[j] => i = j
  BY <1>1 DEF IsInjective
<1>6. IsInjective(page)
  <2> SUFFICES ASSUME NEW i \in 1 .. end - offset, NEW j \in 1 .. end - offset,
                      page[i] = page[j]
               PROVE  i = j
    BY <1>4 DEF IsInjective
  <2> HIDE DEF end, n
  <2>1. offset + i = offset + j
    BY <1>4, <1>5
  <2> QED BY <2>1, <1>3
<1>7. After(values, offset) = ToSet(page) \cup After(values, offset + Limit)
  <2>1. ASSUME NEW i \in 1 .. n, i > offset
        PROVE  values[i] \in ToSet(page) \cup After(values, offset + Limit)
    <3>1. CASE i <= end
      <4>1. i - offset \in 1 .. end - offset /\ offset + (i - offset) = i
        BY <1>1, <1>3, <2>1, <3>1
      <4>2. page[i - offset] = values[i]
        BY <1>4, <4>1
      <4> QED BY <1>4, <4>1, <4>2 DEF ToSet
    <3>2. CASE i > end
      <4>1. i > offset + Limit
        BY <1>0, <1>1, <2>1, <3>2
      <4> QED BY <1>1, <4>1 DEF After
    <3> QED BY <1>1, <1>3, <3>1, <3>2
  <2>2. ASSUME NEW i \in 1 .. end - offset PROVE page[i] \in After(values, offset)
    <3>1. offset + i \in 1 .. n /\ offset + i > offset /\ page[i] = values[offset + i]
      BY <1>3, <1>4
    <3> QED BY <1>1, <3>1 DEF After
  <2>3. \A i \in 1 .. n : i > offset + Limit => i > offset
    BY <1>0
  <2> HIDE DEF end, n
  <2> QED BY <1>1, <1>4, <2>1, <2>2, <2>3 DEF After, ToSet
<1>8. ToSet(page) \cap After(values, offset + Limit) = {}
  <2> SUFFICES ASSUME NEW i \in 1 .. end - offset, NEW j \in 1 .. n, j > offset + Limit,
                      page[i] = values[j]
               PROVE  FALSE
    BY <1>1, <1>4 DEF ToSet, After
  <2>1. offset + i \in 1 .. n /\ offset + i <= end /\ values[offset + i] = values[j]
    BY <1>4
  <2>2. offset + i = j
    BY <1>5, <2>1
  <2> QED BY <1>0, <1>1, <2>1, <2>2
<1>9. ASSUME Len(page) < Limit PROVE After(values, offset + Limit) = {}
  <2>1. n <= offset + Limit
    <3>1. CASE offset <= end
      <4>1. end < offset + Limit
        BY <1>0, <1>3, <1>4, <1>9, <3>1
      <4> QED BY <1>0, <1>1, <4>1
    <3>2. CASE ~(offset <= end)
      BY <1>0, <1>1, <3>2
    <3> QED BY <3>1, <3>2
  <2> QED BY <1>0, <1>1, <2>1 DEF After
<1> QED BY <1>4, <1>6, <1>7, <1>8, <1>9 DEF page

(* What was read and the next page together                                *)
LEMMA ReadFacts ==
  ASSUME NEW got \in Seq(OutputId), IsInjective(got), NEW page \in Seq(OutputId),
         IsInjective(page), ToSet(got) \cap ToSet(page) = {}
  PROVE  /\ got \o page \in Seq(OutputId)
         /\ IsInjective(got \o page)
         /\ ToSet(got \o page) = ToSet(got) \cup ToSet(page)
BY AddedFacts

-----------------------------------------------------------------------------
(* Removals one after the other                                            *)

(* g is the recursive function that FoldLeft applies SwapRemove with       *)
IsRemoval(g, values, done) ==
  g = [s \in SUBSET DOMAIN done |->
         IF s = {} THEN values ELSE SwapRemove(g[s \ {Max(s)}], done[Max(s)])]

(* A set of positions has a last one.                                      *)
LEMMA LastPosition ==
  ASSUME NEW done \in Seq(OutputId)
  PROVE  /\ IsFiniteSet(DOMAIN done)
         /\ \A s \in SUBSET DOMAIN done : s # {} => Max(s) \in s
         /\ \A k \in DOMAIN done :
              /\ Max(1 .. k) = k /\ 1 .. k \subseteq DOMAIN done
              /\ (1 .. k) \ {Max(1 .. k)} = 1 .. k - 1
<1>1. Len(done) \in Nat /\ DOMAIN done = 1 .. Len(done)
  OBVIOUS
<1>2. IsFiniteSet(1 .. Len(done))
  BY <1>1, FS_Interval
<1>3. ASSUME NEW s \in SUBSET DOMAIN done, s # {} PROVE Max(s) \in s
  BY <1>1, <1>3, MaxOfInputs
<1>4. ASSUME NEW k \in DOMAIN done
      PROVE  /\ Max(1 .. k) = k /\ 1 .. k \subseteq DOMAIN done
             /\ (1 .. k) \ {Max(1 .. k)} = 1 .. k - 1
  <2>1. k \in 1 .. k /\ 1 .. k \in SUBSET (1 .. Len(done)) /\ 1 .. k # {}
    BY <1>1
  <2>2. Max(1 .. k) \in 1 .. k /\ \A y \in 1 .. k : Max(1 .. k) >= y
    BY <1>1, <2>1, MaxOfInputs
  <2>3. Max(1 .. k) = k
    BY <1>1, <2>1, <2>2
  <2>4. (1 .. k) \ {k} = 1 .. k - 1
    BY <1>1
  <2> QED BY <1>1, <2>1, <2>3, <2>4
<1> QED BY <1>1, <1>2, <1>3, <1>4

(* There is such a function.                                               *)
LEMMA RemovalExists ==
  ASSUME NEW values, NEW done \in Seq(OutputId)
  PROVE  \E g : IsRemoval(g, values, done)
<1> DEFINE D == DOMAIN done
           Upto(n) == {s \in SUBSET D : Cardinality(s) <= n}
           Body(g, s) ==
             IF s = {} THEN values ELSE SwapRemove(g[s \ {Max(s)}], done[Max(s)])
           Good(g, n) == \A s \in Upto(n) : g[s] = Body(g, s)
           Bad == {n \in Nat : \A g : ~Good(g, n)}
<1>0. IsFiniteSet(D) /\ \A s \in SUBSET D : s # {} => Max(s) \in s
  BY LastPosition
<1> HIDE DEF D
<1>1. \A s \in SUBSET D :
        IsFiniteSet(s) /\ Cardinality(s) \in Nat /\ Cardinality(s) <= Cardinality(D)
  BY <1>0, FS_Subset, FS_CardinalityType
<1>2. Bad = {}
  <2> SUFFICES ASSUME Bad # {} PROVE FALSE
    OBVIOUS
  <2>1. PICK n \in Bad : \A m \in Bad : n <= m
    BY LeastNat
  <2>2. \E g : \A s \in Upto(n) : s # {} => g[s \ {Max(s)}] = Body(g, s \ {Max(s)})
    <3>1. CASE n = 0
      <4>1. \A s \in Upto(n) : s = {}
        BY <1>1, <3>1, FS_EmptySet
      <4> QED BY <4>1
    <3>2. CASE n # 0
      <4>0. n \in Nat
        OBVIOUS
      <4>1. n - 1 \in Nat /\ n - 1 \notin Bad
        <5> HIDE DEF Bad
        <5> QED BY <2>1, <3>2, <4>0
      <4>2. PICK g : Good(g, n - 1)
        BY <4>1
      <4>3. ASSUME NEW s \in Upto(n), s # {} PROVE s \ {Max(s)} \in Upto(n - 1)
        <5>1. Max(s) \in s
          BY <1>0, <4>3
        <5>2. Cardinality(s \ {Max(s)}) = Cardinality(s) - 1
          BY <1>1, <5>1, FS_RemoveElement
        <5> QED BY <1>1, <2>1, <5>2
      <4> HIDE DEF Body, Upto
      <4> QED BY <4>2, <4>3
    <3> QED BY <3>1, <3>2
  <2>3. PICK g : \A s \in Upto(n) : s # {} => g[s \ {Max(s)}] = Body(g, s \ {Max(s)})
    BY <2>2
  <2> DEFINE h == [s \in SUBSET D |-> Body(g, s)]
  <2>4. ASSUME NEW s \in Upto(n) PROVE h[s] = Body(h, s)
    <3>1. CASE s = {}
      BY <3>1
    <3>2. CASE s # {}
      <4>1. h[s \ {Max(s)}] = Body(g, s \ {Max(s)})
        OBVIOUS
      <4>2. g[s \ {Max(s)}] = Body(g, s \ {Max(s)})
        BY <2>3, <3>2
      <4>3. h[s] = SwapRemove(g[s \ {Max(s)}], done[Max(s)])
        BY <3>2
      <4> HIDE DEF h
      <4> QED BY <3>2, <4>1, <4>2, <4>3
    <3> QED BY <3>1, <3>2
  <2>5. Good(h, n)
    <3> HIDE DEF h, Body, Upto
    <3> QED BY <2>4
  <2> QED BY <2>1, <2>5
<1>3. Cardinality(D) \notin Bad /\ Cardinality(D) \in Nat
  BY <1>0, <1>2, FS_CardinalityType
<1>4. PICK g : Good(g, Cardinality(D))
  BY <1>3
<1>5. Upto(Cardinality(D)) = SUBSET D
  BY <1>1
<1> DEFINE h == [s \in SUBSET D |-> g[s]]
<1>6. h = [s \in SUBSET D |-> Body(h, s)]
  BY <1>4, <1>5
<1> QED BY <1>6 DEF IsRemoval, D

(* FoldLeft removes the values one after the other.                        *)
LEMMA RemovalFold ==
  ASSUME NEW values, NEW done \in Seq(OutputId)
  PROVE  \E g : /\ IsRemoval(g, values, done)
                /\ FoldLeft(SwapRemove, values, done) = g[DOMAIN done]
<1> DEFINE chosen == CHOOSE g : IsRemoval(g, values, done)
<1>1. FoldLeft(SwapRemove, values, done) = chosen[DOMAIN done]
  BY DEF FoldLeft, MapThenFoldSet, IsRemoval
<1>2. IsRemoval(chosen, values, done)
  BY RemovalExists
<1> QED BY <1>1, <1>2

(* Removals one after the other leave what they do not name, and behind an *)
(* offset they lose, beside what they name, one value each at most.        *)
Lost(values, offset, left, gone) == (After(values, offset) \ gone) \ After(left, offset)

LEMMA RemoveEach ==
  ASSUME NEW values \in Seq(OutputId), IsInjective(values),
         NEW done \in Seq(OutputId), IsInjective(done), ToSet(done) \subseteq ToSet(values),
         NEW offset \in Nat
  PROVE  LET left == FoldLeft(SwapRemove, values, done)
         IN  /\ left \in Seq(OutputId)
             /\ IsInjective(left)
             /\ ToSet(left) = ToSet(values) \ ToSet(done)
             /\ After(left, offset) \subseteq After(values, offset)
             /\ IsFiniteSet(Lost(values, offset, left, ToSet(done)))
             /\ Cardinality(Lost(values, offset, left, ToSet(done))) <= Len(done)
<1>1. PICK g : IsRemoval(g, values, done) /\ FoldLeft(SwapRemove, values, done) = g[DOMAIN done]
  BY RemovalFold
<1> DEFINE n == Len(done)
           first(k) == {done[i] : i \in 1 .. k}
           Good(k) ==
             /\ g[1 .. k] \in Seq(OutputId)
             /\ IsInjective(g[1 .. k])
             /\ ToSet(g[1 .. k]) = ToSet(values) \ first(k)
             /\ After(g[1 .. k], offset) \subseteq After(values, offset)
             /\ IsFiniteSet(Lost(values, offset, g[1 .. k], first(k)))
             /\ Cardinality(Lost(values, offset, g[1 .. k], first(k))) <= k
           Bad == {k \in 0 .. n : ~Good(k)}
<1>2. n \in Nat /\ DOMAIN done = 1 .. n
  OBVIOUS
<1>3. \A i, j \in 1 .. n : done[i] = done[j] => i = j
  BY <1>2 DEF IsInjective
<1>4. \A i \in 1 .. n : done[i] \in ToSet(values)
  BY <1>2 DEF ToSet
<1> HIDE DEF n
<1>5. Good(0)
  <2>1. 1 .. 0 = {} /\ first(0) = {}
    OBVIOUS
  <2>2. g[{}] = values
    BY <1>1 DEF IsRemoval
  <2>3. Lost(values, offset, values, {}) = {}
    BY DEF Lost
  <2>4. g[1 .. 0] = values
    BY <2>1, <2>2
  <2>5. IsFiniteSet({}) /\ Cardinality({}) <= 0
    BY FS_EmptySet
  <2> HIDE DEF first
  <2> QED BY <2>1, <2>3, <2>4, <2>5
<1>6. ASSUME NEW k \in 1 .. n, Good(k - 1) PROVE Good(k)
  <2> DEFINE old == g[1 .. k - 1]
             new == g[1 .. k]
             v == done[k]
             lost == Lost(values, offset, old, first(k - 1))
  <2>1. /\ Max(1 .. k) = k /\ 1 .. k \in SUBSET DOMAIN done
        /\ (1 .. k) \ {Max(1 .. k)} = 1 .. k - 1
        /\ 1 .. k # {}
    BY <1>2, LastPosition
  <2>2. new = SwapRemove(old, v)
    BY <1>1, <2>1 DEF IsRemoval
  <2>3. first(k) = first(k - 1) \cup {v}
    <3>1. 1 .. k = (1 .. k - 1) \cup {k}
      BY <1>2
    <3> QED BY <3>1
  <2>4. v \in ToSet(old)
    <3>1. v \notin first(k - 1)
      BY <1>2, <1>3
    <3>2. v \in ToSet(values)
      BY <1>4
    <3> QED BY <1>6, <3>1, <3>2
  <2>5. /\ old \in Seq(OutputId) /\ IsInjective(old)
        /\ ToSet(old) = ToSet(values) \ first(k - 1)
        /\ After(old, offset) \subseteq After(values, offset)
        /\ IsFiniteSet(lost) /\ Cardinality(lost) <= k - 1
    BY <1>6
  <2> HIDE DEF old, new, v, first, lost
  <2>6. /\ new \in Seq(OutputId) /\ IsInjective(new)
        /\ ToSet(new) = ToSet(old) \ {v}
        /\ After(new, offset) \subseteq After(old, offset)
        /\ After(old, offset) \subseteq After(new, offset) \cup {v, old[Len(old)]}
    BY <2>2, <2>4, <2>5, SwapRemoveFacts
  <2>7. Lost(values, offset, new, first(k)) \subseteq lost \cup {old[Len(old)]}
    BY <2>3, <2>6 DEF Lost, lost
  <2>8. /\ IsFiniteSet(lost \cup {old[Len(old)]})
        /\ Cardinality(lost \cup {old[Len(old)]}) <= k
    <3>1. Cardinality(lost) \in Nat /\ k \in Nat
      BY <1>2, <2>5, FS_CardinalityType
    <3>2. /\ IsFiniteSet(lost \cup {old[Len(old)]})
          /\ Cardinality(lost \cup {old[Len(old)]}) \in {Cardinality(lost), Cardinality(lost) + 1}
      BY <2>5, FS_AddElement
    <3> QED BY <2>5, <3>1, <3>2
  <2>9. /\ IsFiniteSet(Lost(values, offset, new, first(k)))
        /\ Cardinality(Lost(values, offset, new, first(k))) <= k
    <3> DEFINE S == lost \cup {old[Len(old)]}
               T == Lost(values, offset, new, first(k))
    <3>1. T \in SUBSET S /\ IsFiniteSet(S)
      BY <2>7, <2>8
    <3> HIDE DEF S, T
    <3>2. IsFiniteSet(T) /\ Cardinality(T) <= Cardinality(S)
      BY <3>1, FS_Subset
    <3>3. Cardinality(T) \in Nat /\ Cardinality(S) \in Nat /\ k \in Nat
      BY <1>2, <3>1, <3>2, FS_CardinalityType
    <3>4. Cardinality(S) <= k
      BY <2>8 DEF S
    <3>5. Cardinality(T) <= k
      BY <3>2, <3>3, <3>4
    <3> QED BY <3>2, <3>5 DEF T
  <2>10. ToSet(new) = ToSet(values) \ first(k)
    BY <2>3, <2>5, <2>6
  <2>11. After(new, offset) \subseteq After(values, offset)
    BY <2>5, <2>6
  <2> QED BY <2>6, <2>9, <2>10, <2>11 DEF new
<1> HIDE DEF Good
<1>7. Bad = {}
  <2> SUFFICES ASSUME Bad # {} PROVE FALSE
    OBVIOUS
  <2>1. Bad \in SUBSET Nat
    BY <1>2
  <2>2. PICK k \in Bad : \A m \in Bad : k <= m
    BY <2>1, LeastNat
  <2>3. k \in 1 .. n
    BY <1>2, <1>5
  <2>4. k - 1 \in 0 .. n /\ k - 1 \notin Bad
    BY <1>2, <2>2, <2>3
  <2> QED BY <1>6, <2>3, <2>4
<1>8. Good(n)
  BY <1>2, <1>7
<1>9. first(n) = ToSet(done)
  BY <1>2 DEF ToSet
<1> QED BY <1>1, <1>2, <1>8, <1>9 DEF Good, n

-----------------------------------------------------------------------------
(* What a transaction completes                                            *)

(* The deposits that a transaction completes are those it spends, each     *)
(* once.                                                                   *)
LEMMA CompletedInOrder ==
  ASSUME NEW a \in AccountType, NEW t \in TxId, DistinctInputs(t)
  PROVE  /\ Completed(a, t) \in Seq(OutputId)
         /\ IsInjective(Completed(a, t))
         /\ ToSet(Completed(a, t)) = Spent(a, t)
<1> DEFINE inputs == DepositInputs(a, t)
           n == Cardinality(inputs)
           upto(i) == {j \in inputs : j <= i}
           rank == [i \in inputs |-> Cardinality(upto(i))]
           nth(k) == CHOOSE i \in inputs : Cardinality(upto(i)) = k
           prev(i) == Tx[t].ins[i].prev
           done == Completed(a, t)
<1>1. inputs \subseteq Nat /\ IsFiniteSet(inputs) /\ n \in Nat
  <2>1. /\ inputs \in SUBSET (1 .. Len(Tx[t].ins)) /\ Len(Tx[t].ins) \in Nat
    BY DepositTxAssumption DEF DepositInputs
  <2>2. IsFiniteSet(1 .. Len(Tx[t].ins))
    BY <2>1, FS_Interval
  <2> HIDE DEF inputs
  <2>3. IsFiniteSet(inputs)
    BY <2>1, <2>2, FS_Subset
  <2> QED BY <2>1, <2>3, FS_CardinalityType
<1>2. \A i \in inputs : prev(i) \in OutputId
  BY DEF DepositInputs, AccountType
<1>3. \A i, j \in inputs : prev(i) = prev(j) => i = j
  BY DEF DepositInputs, DistinctInputs
<1>4. Spent(a, t) = {prev(i) : i \in inputs}
  BY DEF Spent
<1>5. done = [k \in 1 .. n |-> prev(nth(k))]
  BY DEF Completed
<1> HIDE DEF inputs, n, done, prev
<1>6. ASSUME NEW i \in inputs
      PROVE  IsFiniteSet(upto(i)) /\ Cardinality(upto(i)) \in 1 .. n
  <2>1. upto(i) \in SUBSET inputs /\ upto(i) # {}
    BY <1>1
  <2> HIDE DEF upto
  <2>2. IsFiniteSet(upto(i)) /\ Cardinality(upto(i)) <= n
    BY <1>1, <2>1, FS_Subset DEF n
  <2>3. Cardinality(upto(i)) \in Nat /\ Cardinality(upto(i)) # 0
    BY <2>1, <2>2, FS_CardinalityType, FS_EmptySet
  <2> QED BY <1>1, <2>2, <2>3
<1>7. ASSUME NEW i \in inputs, NEW j \in inputs, i < j
      PROVE  Cardinality(upto(i)) # Cardinality(upto(j))
  <2>1. upto(i) \in SUBSET (upto(j) \ {j}) /\ j \in upto(j)
    <3>1. i \in Nat /\ j \in Nat /\ \A x \in inputs : x \in Nat
      BY <1>1
    <3>2. \A x \in inputs : x <= i => x <= j /\ x # j
      BY <1>7, <3>1
    <3>3. j <= j
      BY <3>1
    <3> QED BY <3>2, <3>3
  <2>2. /\ IsFiniteSet(upto(j)) /\ Cardinality(upto(j)) \in Nat
        /\ Cardinality(upto(i)) \in Nat
    BY <1>6
  <2> HIDE DEF upto
  <2>3. /\ IsFiniteSet(upto(j) \ {j})
        /\ Cardinality(upto(j) \ {j}) = Cardinality(upto(j)) - 1
    BY <2>1, <2>2, FS_RemoveElement
  <2>4. Cardinality(upto(i)) <= Cardinality(upto(j) \ {j})
    BY <2>1, <2>3, FS_Subset
  <2> QED BY <2>2, <2>3, <2>4
<1>8. rank \in Injection(inputs, 1 .. n)
  <2>1. rank \in [inputs -> 1 .. n]
    BY <1>6
  <2>2. \A i, j \in inputs : rank[i] = rank[j] => i = j
    BY <1>1, <1>7
  <2> HIDE DEF rank
  <2> QED BY <2>1, <2>2 DEF Injection, IsInjective
<1>9. \A k \in 1 .. n : \E i \in inputs : Cardinality(upto(i)) = k
  <2>1. IsFiniteSet(1 .. n) /\ Cardinality(1 .. n) = n
    BY <1>1, FS_Interval
  <2>2. rank \in Surjection(inputs, 1 .. n)
    <3> HIDE DEF rank
    <3> QED BY <1>8, <2>1, FS_Injection DEF n
  <2> HIDE DEF upto
  <2> QED BY <2>2 DEF Surjection
<1>10. \A k \in 1 .. n : nth(k) \in inputs /\ Cardinality(upto(nth(k))) = k
  <2> HIDE DEF upto
  <2> QED BY <1>9
<1>11. \A i \in inputs : nth(Cardinality(upto(i))) = i
  <2> SUFFICES ASSUME NEW i \in inputs PROVE nth(Cardinality(upto(i))) = i
    OBVIOUS
  <2> DEFINE k == Cardinality(upto(i))
  <2>1. nth(k) \in inputs /\ Cardinality(upto(nth(k))) = k
    BY <1>6, <1>10
  <2> HIDE DEF nth
  <2>2. ~(nth(k) < i) /\ ~(i < nth(k))
    BY <1>7, <2>1
  <2> HIDE DEF k
  <2>3. nth(k) = i
    <3>1. nth(k) \in Nat /\ i \in Nat
      BY <1>1, <2>1
    <3> QED BY <2>2, <3>1
  <2> QED BY <2>3 DEF k
<1> HIDE DEF nth, rank
<1>12. done \in Seq(OutputId) /\ DOMAIN done = 1 .. n
  <2>1. \A k \in 1 .. n : prev(nth(k)) \in OutputId
    BY <1>2, <1>10
  <2>2. done \in [1 .. n -> OutputId]
    BY <1>5, <2>1
  <2> QED BY <1>1, <2>2
<1>13. IsInjective(done)
  <2> SUFFICES ASSUME NEW k \in 1 .. n, NEW m \in 1 .. n, done[k] = done[m] PROVE k = m
    BY <1>12 DEF IsInjective
  <2>1. nth(k) = nth(m)
    BY <1>3, <1>5, <1>10
  <2> QED BY <1>10, <2>1
<1>14. ToSet(done) = {prev(i) : i \in inputs}
  <2>1. \A k \in 1 .. n : done[k] = prev(nth(k)) /\ nth(k) \in inputs
    BY <1>5, <1>10
  <2>2. ASSUME NEW i \in inputs PROVE \E k \in 1 .. n : done[k] = prev(i)
    <3>1. Cardinality(upto(i)) \in 1 .. n
      BY <1>6
    <3> QED BY <1>5, <1>11, <3>1
  <2> QED BY <1>12, <2>1, <2>2 DEF ToSet
<1> QED BY <1>4, <1>12, <1>13, <1>14 DEF done

-----------------------------------------------------------------------------
(* The inductive invariant                                                 *)

(* The vectors hold what the account holds, each value once.               *)
StoredInv ==
  /\ stored \in [User -> [active : Seq(OutputId), withdrawn : Seq(OutputId)]]
  /\ \A u \in User :
       /\ IsInjective(stored[u].active)
       /\ IsInjective(stored[u].withdrawn)
       /\ ToSet(stored[u].active) = accounts[u].active
       /\ ToSet(stored[u].withdrawn) = WithdrawnIds(accounts[u])

Reader ==
  [phase : {"idle", "reading", "done"}, user : User \cup {None},
   list : {"none", "active", "withdrawn"}, offset : Nat, got : Seq(OutputId),
   first : SUBSET OutputId, removed : Nat]

(* What the reader has still to come to                                    *)
Ahead ==
  IF reader.phase = "reading"
  THEN After(stored[reader.user][reader.list], reader.offset) ELSE {}

(* What was read does not lie ahead; and what was there at first, and      *)
(* still is, was read or lies ahead, except for one deposit for each that  *)
(* was removed. Of the withdrawn list nothing is ever removed.             *)
ReadingOK(r, a, ahead) ==
  /\ IsInjective(r.got)
  /\ ToSet(r.got) \subseteq Recorded(a)
  /\ r.first \subseteq Recorded(a)
  /\ ToSet(r.got) \cap ahead = {}
  /\ r.list = "active" =>
       /\ IsFiniteSet(r.first)
       /\ Cardinality((r.first \cap a.active) \ (ToSet(r.got) \cup ahead)) <= r.removed
  /\ r.list = "withdrawn" =>
       /\ ToSet(r.got) \subseteq WithdrawnIds(a)
       /\ r.first \subseteq ToSet(r.got) \cup ahead

ReaderInv ==
  /\ reader \in Reader
  /\ reader.phase = "idle" => reader = Idle
  /\ reader.phase # "idle" =>
       /\ reader.user \in User
       /\ reader.list \in {"active", "withdrawn"}
       /\ ReadingOK(reader, accounts[reader.user], Ahead)

(* The indexer has heard of everything. *)
UserBooks == [active : SUBSET OutputId, withdrawn : SUBSET Withdrawn, total : Int,
              nonce : Nat, requested : Nat]
Index == [owner : AccountId, paused : BOOLEAN, users : [User -> UserBooks]]

IndexInv == index \in Index /\ EventsTellBooks

-----------------------------------------------------------------------------
(* What a completed withdrawal tells                                       *)

(* The books idx with b as the books of user u                             *)
WithBooks(idx, u, b) ==
  [owner |-> idx.owner, paused |-> idx.paused,
   users |-> [v \in User |-> IF v = u THEN b ELSE idx.users[v]]]

(* The books b without the deposits gone, which t withdrew, of value sum   *)
BooksAfter(b, gone, t, sum) ==
  [active |-> b.active \ gone,
   withdrawn |-> b.withdrawn \cup {[id |-> o, by |-> t] : o \in gone},
   total |-> b.total - sum, nonce |-> b.nonce, requested |-> b.requested]

(* One event takes one deposit out of the books.                           *)
LEMMA OneEvent ==
  ASSUME NEW idx \in Index, NEW u \in User, NEW o \in OutputId, NEW t
  PROVE  WithdrawnEvent(idx, u, o, t) =
           WithBooks(idx, u, BooksAfter(idx.users[u], {o}, t, Value(o)))
<1> DEFINE b == idx.users[u]
           b1 == [b EXCEPT !.active = b.active \ {o}]
           b2 == [b1 EXCEPT !.withdrawn = b1.withdrawn \cup {[id |-> o, by |-> t]}]
           b3 == [b2 EXCEPT !.total = b2.total - Value(o)]
           users3 == [idx.users EXCEPT ![u] = b3]
<1>1. b \in UserBooks
  BY DEF Index
<1>2. b3 = BooksAfter(b, {o}, t, Value(o))
  <2>1. {[id |-> p, by |-> t] : p \in {o}} = {[id |-> o, by |-> t]}
    OBVIOUS
  <2> HIDE DEF b
  <2>2. b1 = [active |-> b.active \ {o}, withdrawn |-> b.withdrawn, total |-> b.total,
              nonce |-> b.nonce, requested |-> b.requested]
    BY <1>1 DEF UserBooks
  <2>3. b2 = [active |-> b.active \ {o},
              withdrawn |-> b.withdrawn \cup {[id |-> o, by |-> t]},
              total |-> b.total, nonce |-> b.nonce, requested |-> b.requested]
    <3> HIDE DEF b1
    <3> QED BY <2>2
  <2>4. b3 = [active |-> b.active \ {o},
              withdrawn |-> b.withdrawn \cup {[id |-> o, by |-> t]},
              total |-> b.total - Value(o), nonce |-> b.nonce, requested |-> b.requested]
    <3> HIDE DEF b2
    <3> QED BY <2>3
  <2> QED BY <2>1, <2>4 DEF BooksAfter
<1>3. users3 = [v \in User |-> IF v = u THEN b3 ELSE idx.users[v]]
  <2> HIDE DEF b3
  <2> QED BY DEF Index
<1>4. [idx EXCEPT !.users = users3] = WithBooks(idx, u, b3)
  <2> HIDE DEF b3, users3
  <2> QED BY <1>3 DEF Index, WithBooks
<1>5. WithdrawnEvent(idx, u, o, t) = [idx EXCEPT !.users = users3]
  BY DEF WithdrawnEvent, Index, UserBooks
<1> HIDE DEF b3
<1> QED BY <1>2, <1>4, <1>5

(* The books after nothing was withdrawn, and after something was          *)
LEMMA BooksAfterType ==
  ASSUME NEW b \in UserBooks, NEW gone \in SUBSET OutputId, NEW t \in TxId, NEW sum \in Nat
  PROVE  /\ BooksAfter(b, {}, t, 0) = b
         /\ BooksAfter(b, gone, t, sum) \in UserBooks
<1>1. b.total \in Int /\ b.active \subseteq OutputId /\ b.withdrawn \subseteq Withdrawn
  BY DEF UserBooks
<1>2. BooksAfter(b, {}, t, 0) = b
  <2>1. /\ b.active \ {} = b.active
        /\ b.withdrawn \cup {[id |-> p, by |-> t] : p \in {}} = b.withdrawn
        /\ b.total - 0 = b.total
    BY <1>1
  <2> QED BY <2>1 DEF BooksAfter, UserBooks
<1>3. BooksAfter(b, gone, t, sum) \in UserBooks
  <2>1. b.withdrawn \cup {[id |-> p, by |-> t] : p \in gone} \subseteq Withdrawn
    BY <1>1 DEF Withdrawn
  <2>2. b.total - sum \in Int
    BY <1>1
  <2> QED BY <1>1, <2>1, <2>2 DEF BooksAfter, UserBooks
<1> QED BY <1>2, <1>3

(* The books of one user are changed twice.                                *)
LEMMA WithBooksTwice ==
  ASSUME NEW idx \in Index, NEW u \in User, NEW b \in UserBooks, NEW d
  PROVE  /\ WithBooks(idx, u, idx.users[u]) = idx
         /\ WithBooks(idx, u, b) \in Index
         /\ WithBooks(idx, u, b).users[u] = b
         /\ WithBooks(WithBooks(idx, u, b), u, d) = WithBooks(idx, u, d)
<1>1. WithBooks(idx, u, idx.users[u]) = idx
  <2>1. [v \in User |-> IF v = u THEN idx.users[u] ELSE idx.users[v]] = idx.users
    BY DEF Index
  <2>2. WithBooks(idx, u, idx.users[u]) =
          [owner |-> idx.owner, paused |-> idx.paused, users |-> idx.users]
    BY <2>1 DEF WithBooks
  <2> QED BY <2>2 DEF Index
<1>2. WithBooks(idx, u, b) \in Index /\ WithBooks(idx, u, b).users[u] = b
  BY DEF WithBooks, Index
<1>3. WithBooks(WithBooks(idx, u, b), u, d) = WithBooks(idx, u, d)
  <2>1. [v \in User |-> IF v = u THEN d ELSE WithBooks(idx, u, b).users[v]] =
          [v \in User |-> IF v = u THEN d ELSE idx.users[v]]
    BY DEF WithBooks
  <2>2. /\ WithBooks(idx, u, b).owner = idx.owner
        /\ WithBooks(idx, u, b).paused = idx.paused
    BY DEF WithBooks
  <2>3. WithBooks(WithBooks(idx, u, b), u, d) =
          [owner |-> WithBooks(idx, u, b).owner, paused |-> WithBooks(idx, u, b).paused,
           users |-> [v \in User |-> IF v = u THEN d ELSE WithBooks(idx, u, b).users[v]]]
    BY DEF WithBooks
  <2>4. WithBooks(idx, u, d) =
          [owner |-> idx.owner, paused |-> idx.paused,
           users |-> [v \in User |-> IF v = u THEN d ELSE idx.users[v]]]
    BY DEF WithBooks
  <2> QED BY <2>1, <2>2, <2>3, <2>4
<1> QED BY <1>1, <1>2, <1>3

(* The events of a withdrawal take out what it completes, and what that is *)
(* worth.                                                                  *)
LEMMA AllEvents ==
  ASSUME NEW idx \in Index, NEW u \in User, NEW t \in TxId,
         NEW done \in Seq(OutputId), IsInjective(done),
         \A i \in DOMAIN done : Value(done[i]) \in Nat
  PROVE  FoldLeft(LAMBDA x, o : WithdrawnEvent(x, u, o, t), idx, done) =
           WithBooks(idx, u, BooksAfter(idx.users[u], ToSet(done), t,
                                        Sum(Values, ToSet(done))))
<1> DEFINE D == DOMAIN done
           G == [i \in D |-> Value(done[i])]
           gone(s) == {done[i] : i \in s}
           b == idx.users[u]
           Told(s) == WithBooks(idx, u, BooksAfter(b, gone(s), t, Sum(G, s)))
           IsTelling(g) ==
             g = [s \in SUBSET D |->
                    IF s = {} THEN idx
                    ELSE WithdrawnEvent(g[s \ {Max(s)}], u, done[Max(s)], t)]
           chosen == CHOOSE g : IsTelling(g)
<1>1. FoldLeft(LAMBDA x, o : WithdrawnEvent(x, u, o, t), idx, done) = chosen[D]
  BY DEF FoldLeft, MapThenFoldSet
<1>2. /\ b \in UserBooks
      /\ IsFiniteSet(D) /\ \A s \in SUBSET D : s # {} => Max(s) \in s
      /\ \A i \in D : done[i] \in OutputId /\ G[i] \in Nat /\ G[i] = Value(done[i])
      /\ \A i \in D : Values[done[i]] = Value(done[i])
  <2>1. \A i \in D : done[i] \in OutputId
    OBVIOUS
  <2> QED BY <2>1, LastPosition DEF Index, Values
<1> HIDE DEF D, G, b
<1>3. ASSUME NEW s \in SUBSET D
      PROVE  /\ gone(s) \in SUBSET OutputId /\ Sum(G, s) \in Nat
             /\ Told(s) \in Index
             /\ Told(s).users[u] = BooksAfter(b, gone(s), t, Sum(G, s))
             /\ \A d : WithBooks(Told(s), u, d) = WithBooks(idx, u, d)
  <2>1. gone(s) \in SUBSET OutputId
    BY <1>2
  <2>2. IsFiniteSet(s) /\ \A i \in s : G[i] \in Nat
    BY <1>2, FS_Subset
  <2>3. Sum(G, s) \in Nat
    BY <2>2, SumType
  <2>4. BooksAfter(b, gone(s), t, Sum(G, s)) \in UserBooks
    <3> HIDE DEF gone
    <3> QED BY <1>2, <2>1, <2>3, BooksAfterType
  <2> HIDE DEF gone
  <2> QED BY <2>1, <2>3, <2>4, WithBooksTwice
<1>4. Told({}) = idx
  <2>1. gone({}) = {} /\ Sum(G, {}) = 0
    BY FS_EmptySet, SumStep
  <2>2. BooksAfter(b, {}, t, 0) = b
    BY <1>2, BooksAfterType
  <2>3. WithBooks(idx, u, b) = idx
    BY <1>2, WithBooksTwice DEF b
  <2> HIDE DEF gone
  <2> QED BY <2>1, <2>2, <2>3
<1>5. ASSUME NEW s \in SUBSET D, s # {}
      PROVE  Told(s) = WithdrawnEvent(Told(s \ {Max(s)}), u, done[Max(s)], t)
  <2> DEFINE m == Max(s)
             r == s \ {m}
  <2>1. m \in s /\ m \in D /\ r \in SUBSET D
    BY <1>2, <1>5
  <2>2. IsFiniteSet(s) /\ \A i \in s : G[i] \in Nat
    BY <1>2, FS_Subset
  <2> HIDE DEF m
  <2>3. Sum(G, s) = Sum(G, r) + Value(done[m])
    <3>1. Sum(G, s) = G[m] + Sum(G, r)
      BY <2>1, <2>2, SumRemove
    <3>2. G[m] = Value(done[m]) /\ G[m] \in Nat
      BY <1>2, <2>1
    <3>3. Sum(G, r) \in Nat
      <4> HIDE DEF r, Told, gone
      <4> QED BY <1>3, <2>1
    <3> HIDE DEF r
    <3> QED BY <3>1, <3>2, <3>3
  <2>4. gone(s) = gone(r) \cup {done[m]}
    BY <2>1
  <2>5. /\ gone(r) \in SUBSET OutputId /\ Sum(G, r) \in Nat
        /\ Told(r) \in Index
        /\ Told(r).users[u] = BooksAfter(b, gone(r), t, Sum(G, r))
        /\ \A d : WithBooks(Told(r), u, d) = WithBooks(idx, u, d)
    <3> HIDE DEF Told, gone, r
    <3> QED BY <1>3, <2>1
  <2>6. done[m] \in OutputId /\ Value(done[m]) \in Nat
    BY <1>2, <2>1
  <2>7. WithdrawnEvent(Told(r), u, done[m], t) =
          WithBooks(Told(r), u,
                    BooksAfter(Told(r).users[u], {done[m]}, t, Value(done[m])))
    <3> HIDE DEF Told
    <3> QED BY <2>5, <2>6, OneEvent
  <2>8. BooksAfter(BooksAfter(b, gone(r), t, Sum(G, r)), {done[m]}, t, Value(done[m])) =
          BooksAfter(b, gone(s), t, Sum(G, s))
    <3> DEFINE X == gone(r)
               y == Sum(G, r)
               v == Value(done[m])
    <3>1. X \in SUBSET OutputId /\ y \in Nat /\ v \in Nat
      BY <2>5, <2>6
    <3>2. gone(s) = X \cup {done[m]} /\ Sum(G, s) = y + v
      BY <2>3, <2>4
    <3> HIDE DEF gone, r, X, y, v
    <3>3. BooksAfter(BooksAfter(b, X, t, y), {done[m]}, t, v) =
            BooksAfter(b, gone(s), t, Sum(G, s))
      <4> DEFINE Z == gone(s)
                 z == Sum(G, s)
                 by(S) == {[id |-> o, by |-> t] : o \in S}
      <4>1. Z = X \cup {done[m]} /\ z = y + v /\ b.total \in Int
        BY <1>2, <3>2 DEF UserBooks
      <4> HIDE DEF Z, z
      <4>2. (b.total - y) - v = b.total - z
        BY <3>1, <4>1
      <4>3. (b.active \ X) \ {done[m]} = b.active \ Z
        BY <4>1
      <4>4. (b.withdrawn \cup by(X)) \cup by({done[m]}) = b.withdrawn \cup by(Z)
        BY <4>1
      <4>5. BooksAfter(BooksAfter(b, X, t, y), {done[m]}, t, v) = BooksAfter(b, Z, t, z)
        BY <4>2, <4>3, <4>4 DEF BooksAfter
      <4> QED BY <4>5 DEF Z, z
    <3> QED BY <3>3 DEF X, y, v
  <2>9. WithdrawnEvent(Told(r), u, done[m], t) =
          WithBooks(idx, u, BooksAfter(b, gone(s), t, Sum(G, s)))
    <3> DEFINE told == Told(r)
    <3> HIDE DEF told, gone, r
    <3>1. told.users[u] = BooksAfter(b, gone(r), t, Sum(G, r))
      BY <2>5 DEF told
    <3>2. \A d : WithBooks(told, u, d) = WithBooks(idx, u, d)
      BY <2>5 DEF told
    <3>3. WithdrawnEvent(told, u, done[m], t) =
            WithBooks(told, u, BooksAfter(told.users[u], {done[m]}, t, Value(done[m])))
      BY <2>7 DEF told
    <3>4. WithdrawnEvent(told, u, done[m], t) =
            WithBooks(idx, u, BooksAfter(b, gone(s), t, Sum(G, s)))
      BY <2>8, <3>1, <3>2, <3>3
    <3> QED BY <3>4 DEF told
  <2> QED BY <2>9 DEF m
<1> HIDE DEF Told
<1>6. \E g : IsTelling(g)
  <2> DEFINE h == [s \in SUBSET D |-> Told(s)]
  <2>1. h = [s \in SUBSET D |->
               IF s = {} THEN idx ELSE WithdrawnEvent(h[s \ {Max(s)}], u, done[Max(s)], t)]
    <3>1. ASSUME NEW s \in SUBSET D
          PROVE  Told(s) = IF s = {} THEN idx
                           ELSE WithdrawnEvent(h[s \ {Max(s)}], u, done[Max(s)], t)
      <4>1. h[s \ {Max(s)}] = Told(s \ {Max(s)})
        OBVIOUS
      <4> HIDE DEF h
      <4> QED BY <1>4, <1>5, <4>1
    <3> QED BY <3>1
  <2> QED BY <2>1
<1>7. IsTelling(chosen)
  <2> HIDE DEF IsTelling
  <2> QED BY <1>6
<1> HIDE DEF chosen
<1>8. \A s \in SUBSET D : chosen[s] = Told(s)
  <2> DEFINE Bad == {s \in SUBSET D : chosen[s] # Told(s)}
  <2> SUFFICES ASSUME Bad # {} PROVE FALSE
    OBVIOUS
  <2>1. PICK s \in Bad : \A x \in s : s \ {x} \notin Bad
    BY <1>2, SmallestSet
  <2>2. chosen[s] = IF s = {} THEN idx
                    ELSE WithdrawnEvent(chosen[s \ {Max(s)}], u, done[Max(s)], t)
    BY <1>7
  <2>3. CASE s = {}
    BY <1>4, <2>2, <2>3
  <2>4. CASE s # {}
    <3>1. chosen[s \ {Max(s)}] = Told(s \ {Max(s)})
      BY <1>2, <2>1, <2>4
    <3> QED BY <1>5, <2>2, <2>4, <3>1
  <2> QED BY <2>3, <2>4
<1>9. gone(D) = ToSet(done)
  BY DEF ToSet, D
<1>10. Sum(G, D) = Sum(Values, ToSet(done))
  <2>1. \A i, j \in D : done[i] = done[j] => i = j
    BY DEF IsInjective, D
  <2>2. Sum(G, D) = Sum(Values, Image(done, D))
    BY <1>2, <2>1, SumImage
  <2>3. Image(done, D) = ToSet(done)
    BY DEF Image, ToSet, D
  <2> QED BY <2>2, <2>3
<1>11. chosen[D] = WithBooks(idx, u, BooksAfter(b, ToSet(done), t, Sum(Values, ToSet(done))))
  <2>1. chosen[D] = Told(D)
    BY <1>8
  <2>2. Told(D) = WithBooks(idx, u, BooksAfter(b, gone(D), t, Sum(G, D)))
    BY DEF Told
  <2> HIDE DEF gone
  <2> QED BY <1>9, <1>10, <2>1, <2>2
<1> QED BY <1>1, <1>11 DEF b

-----------------------------------------------------------------------------
(* The steps *)

allVars == <<vars, readersVars>>

(* Whatever the readers do, the contract takes its own steps or stands     *)
(* still.                                                                  *)
LEMMA ContractPart ==
  ASSUME [ReadersNext]_allVars
  PROVE  [Next]_vars
<1>1. ASSUME NEW c \in CallId,
             DepositStored(c) \/ WithdrawalStored(c) \/ Untold(c) \/ Bip322Accepted(c)
      PROVE  Next
  <2>1. Handler(c) \/ Callback(c)
    BY <1>1 DEF DepositStored, WithdrawalStored, Untold, Callback, OnVerifyDepositTx,
                OnBip322Verify, OnVerifyWithdrawalTx
  <2> QED BY <2>1 DEF Next
<1>2. ASSUME NEW u \in User, NEW amount \in Amount, QueueWithdrawalEcdsa(u, amount)
      PROVE  Next
  BY <1>2 DEF Next
<1>3. CASE AdminStep
  <2>1. AdminNext
    BY <1>3 DEF AdminStep, AdminNext, OwnerTold, OwnerUntold, OwnerStep
  <2> QED BY <1>3, <2>1 DEF AdminStep, Next
<1>4. CASE Tick \/ \E t \in TxId : Mine(t)
  BY <1>4 DEF Next
<1>5. CASE UNCHANGED vars
  BY <1>5
<1>6. ASSUME ContractStep PROVE [Next]_vars
  BY <1>1, <1>2, <1>3, <1>4, <1>6 DEF ContractStep
<1>7. ASSUME NEW u, NEW list, StartReading(u, list) PROVE UNCHANGED vars
  BY <1>7 DEF StartReading
<1>8. CASE ReadPage \/ StopReading
  BY <1>5, <1>8 DEF ReadPage, StopReading
<1>9. CASE UNCHANGED allVars
  BY <1>5, <1>9 DEF allVars
<1> QED BY <1>5, <1>6, <1>7, <1>8, <1>9 DEF ReadersNext

(* A step that moves no deposit and tells nothing: the queue may fall.     *)
BooksKept(u) ==
  /\ accounts'[u].active = accounts[u].active
  /\ accounts'[u].withdrawn = accounts[u].withdrawn
  /\ accounts'[u].total = accounts[u].total
  /\ accounts'[u].nonce = accounts[u].nonce
  /\ accounts'[u].queue <= accounts[u].queue

Silent == (\A u \in User : BooksKept(u)) /\ UNCHANGED <<stored, reader>>

NothingTold == owner' = owner /\ config'.paused = config.paused /\ index' = index

Requested(u, amount) ==
  ApplyQueueWithdrawal(u, amount) /\ QueueTold(u, amount) /\ UNCHANGED adminVars

ReaderStep ==
  \/ \E u \in User, list \in {"active", "withdrawn"} : StartReading(u, list)
  \/ ReadPage
  \/ StopReading

(* Handlers move no deposit.                                               *)
LEMMA HandlerKeepsBooks ==
  ASSUME TypeOK, NEW c \in CallId, Handler(c)
  PROVE  \A u \in User : BooksKept(u)
<1> DEFINE Goal == \A u \in User : BooksKept(u)
<1>1. accounts \in [User -> AccountType] /\ \A u \in User : accounts[u].queue \in Nat
  BY AccountAssumption DEF TypeOK, AccountType, U64
<1>2. ASSUME UNCHANGED accounts PROVE Goal
  BY <1>1, <1>2 DEF BooksKept
<1>3. ASSUME NEW v \in User, NEW t, NEW vin, NEW partial, NEW embed, NEW attached,
             NEW storage, SignFirst(c, v, t, vin, partial, embed, attached, storage)
      PROVE  Goal
  <2> DEFINE charged == IF Len(Tx[t].ins) > 1 THEN storage ELSE 0
  <2>1. accounts' = [accounts EXCEPT ![v] = SavePending(accounts[v], t, embed, charged)]
    BY <1>3 DEF SignFirst
  <2> HIDE DEF charged
  <2>2. ASSUME NEW u \in User PROVE BooksKept(u)
    <3>1. CASE u = v
      <4>1. accounts'[u] = SavePending(accounts[u], t, embed, charged)
        BY <1>1, <2>1, <3>1
      <4>2. accounts[u] \in AccountType
        BY <1>1
      <4>3. /\ accounts'[u].active = accounts[u].active
            /\ accounts'[u].withdrawn = accounts[u].withdrawn
            /\ accounts'[u].total = accounts[u].total
            /\ accounts'[u].nonce = accounts[u].nonce
            /\ accounts'[u].queue = 0
        BY <4>1, <4>2 DEF SavePending, AccountType
      <4> QED BY <1>1, <4>3 DEF BooksKept
    <3>2. CASE u # v
      <4>1. accounts'[u] = accounts[u]
        BY <1>1, <2>1, <3>2
      <4> QED BY <1>1, <4>1 DEF BooksKept
    <3> QED BY <3>1, <3>2
  <2> QED BY <2>2
<1> HIDE DEF Goal
<1>4. ASSUME NEW t, NEW embed, NEW attached, SubmitDepositTx(c, t, embed, attached)
      PROVE  Goal
  BY <1>2, <1>4 DEF SubmitDepositTx
<1>5. ASSUME NEW u, NEW amount, QueueWithdrawalBip322(c, u, amount) PROVE Goal
  BY <1>2, <1>5 DEF QueueWithdrawalBip322
<1>6. ASSUME NEW u, NEW t, NEW vin, NEW partial, NEW attached,
             SignAgain(c, u, t, vin, partial, attached)
      PROVE  Goal
  BY <1>2, <1>6 DEF SignAgain
<1>7. ASSUME NEW u, NEW t, NEW multisig, SubmitWithdrawalTx(c, u, t, multisig) PROVE Goal
  BY <1>2, <1>7 DEF SubmitWithdrawalTx
<1>8. Goal
  BY <1>3, <1>4, <1>5, <1>6, <1>7 DEF Handler
<1> QED BY <1>8 DEF Goal

(* What one step may be.                                                   *)
LEMMA StepKinds ==
  ASSUME TypeOK, [ReadersNext]_allVars
  PROVE  \/ Silent /\ (NothingTold \/ \E caller \in AccountId : OwnerTold(caller))
         \/ \E u \in User, amount \in U64 : Requested(u, amount)
         \/ \E c \in CallId : DepositStored(c) \/ WithdrawalStored(c)
         \/ ReaderStep
<1> DEFINE Quiet == Silent /\ NothingTold
<1>1. /\ accounts \in [User -> AccountType] /\ \A u \in User : accounts[u].queue \in Nat
      /\ config \in Config
  BY AccountAssumption DEF TypeOK, AccountType, U64, AdminTypeOK
<1>2. ASSUME UNCHANGED accounts PROVE \A u \in User : BooksKept(u)
  BY <1>1, <1>2 DEF BooksKept
<1>3. ASSUME NEW c \in CallId, Untold(c) PROVE Quiet
  <2>1. UNCHANGED adminVars
    <3>1. Handler(c) \/ Callback(c)
      BY <1>3 DEF Untold
    <3> QED BY <3>1, HandlerLeaves, CallbackLeaves
  <2>2. \A u \in User : BooksKept(u)
    <3>1. CASE Handler(c)
      BY <3>1, HandlerKeepsBooks
    <3>2. CASE UNCHANGED accounts
      BY <1>2, <3>2
    <3> QED BY <1>3, <3>1, <3>2 DEF Untold
  <2> QED BY <1>3, <2>1, <2>2 DEF Untold, Silent, NothingTold, readersVars
<1>4. ASSUME NEW c \in CallId, Bip322Accepted(c), QueueTold(calls[c].user, calls[c].amount)
      PROVE  \E u \in User, amount \in U64 : Requested(u, amount)
  <2>1. calls[c].user \in User /\ calls[c].amount \in U64
    BY <1>4, CallKinds DEF Bip322Accepted, Answer, Bip322Call
  <2> QED BY <1>4, <2>1 DEF Bip322Accepted, Requested
<1>5. ASSUME NEW u \in User, NEW amount \in Amount, QueueWithdrawalEcdsa(u, amount),
             QueueTold(u, amount)
      PROVE  \E v \in User, x \in U64 : Requested(v, x)
  BY <1>5, BitHiveAssumption DEF QueueWithdrawalEcdsa, Requested
<1>6. ASSUME AdminStep
      PROVE  Silent /\ (NothingTold \/ \E caller \in AccountId : OwnerTold(caller))
  <2>1. Silent
    BY <1>2, <1>6 DEF AdminStep, Silent
  <2>2. ASSUME NEW caller \in AccountId, OwnerUntold(caller) PROVE NothingTold
    <3>1. owner' = owner /\ config'.paused = config.paused
      BY <1>1, <2>2
      DEF OwnerUntold, OwnerStep, Config, ProposeChangeOwner, SetLightClient, SetVerifier,
          SetChainSignatures, SetNConfirmation, SetWithdrawalWaitingTime, SetMinDeposit,
          SetEarliestHeight, SetSequenceHeights
    <3> QED BY <2>2, <3>1 DEF OwnerUntold, NothingTold
  <2>3. ASSUME NEW s \in SyncId, SyncRootPubkey(s) \/ OnSyncRootPubkey(s), index' = index
        PROVE  NothingTold
    BY <2>3 DEF SyncRootPubkey, OnSyncRootPubkey, RootPubkeySet, RootPubkeyDropped,
                NothingTold
  <2> QED BY <1>6, <2>1, <2>2, <2>3 DEF AdminStep
<1>7. ASSUME Tick \/ \E t \in TxId : Mine(t), UNCHANGED readersVars PROVE Quiet
  <2>1. UNCHANGED accounts /\ UNCHANGED adminVars
    BY <1>7 DEF Tick, Mine
  <2> QED BY <1>2, <1>7, <2>1 DEF Silent, NothingTold, readersVars
<1>8. ASSUME UNCHANGED allVars PROVE Quiet
  BY <1>2, <1>8 DEF allVars, vars, readersVars, Silent, NothingTold
<1> HIDE DEF Quiet
<1>9. ASSUME ContractStep
      PROVE  \/ Quiet
             \/ Silent /\ (NothingTold \/ \E caller \in AccountId : OwnerTold(caller))
             \/ \E u \in User, amount \in U64 : Requested(u, amount)
             \/ \E c \in CallId : DepositStored(c) \/ WithdrawalStored(c)
  BY <1>3, <1>4, <1>5, <1>6, <1>7, <1>9 DEF ContractStep
<1> QED BY <1>8, <1>9 DEF ReadersNext, ReaderStep, Quiet

Deposited(u, o) ==
  /\ CanCreateDeposit(accounts[u], o)
  /\ Value(o) \in Nat
  /\ accounts' = [accounts EXCEPT ![u] = CreateDeposit(accounts[u], o)]
  /\ stored' = [stored EXCEPT ![u] = [active |-> Append(stored[u].active, o),
                                      withdrawn |-> stored[u].withdrawn]]
  /\ index' = DepositEvent(u, o)
  /\ UNCHANGED <<reader, adminVars>>

(* What a stored deposit is                                                *)
LEMMA StoredDeposit ==
  ASSUME TypeOK, StoredInv, NEW c \in CallId, DepositStored(c)
  PROVE  \E u \in User, o \in OutputId : Deposited(u, o)
<1> DEFINE t == calls[c].tx
           embed == calls[c].embed
           u == DepositUser(t, embed)
           o == DepositId(t, embed)
<1>1. DepositSaved(c) /\ CanSaveDeposit(t, embed) /\ t \in TxId
  <2>1. DepositSaved(c)
    BY DEF DepositStored
  <2>2. calls[c].kind = "deposit"
    BY <2>1 DEF DepositSaved, Answer
  <2>3. calls[c] \in DepositCall
    BY <2>2, CallKinds
  <2> QED BY <2>1, <2>3 DEF DepositSaved, DepositCall
<1>2. /\ VerifyEmbedOutput(t, embed) /\ HasOut(t, DepositVout(t, embed)) /\ u \in User
      /\ CanCreateDeposit(accounts[u], o)
  BY <1>1 DEF CanSaveDeposit, VerifyDepositTxn
<1>3. o \in OutputId
  BY <1>1, <1>2, DepositIdType
<1>4. Value(o) \in Nat
  BY <1>1, <1>2, DepositTxAssumption DEF Value, Out, HasOut, DepositId
<1>5. /\ accounts' = [accounts EXCEPT ![u] = CreateDeposit(accounts[u], o)]
      /\ UNCHANGED adminVars
  BY <1>1 DEF DepositSaved
<1>6. /\ stored' = [stored EXCEPT ![u].active = Append(stored[u].active, o)]
      /\ index' = DepositEvent(u, o)
      /\ UNCHANGED reader
  BY DEF DepositStored, Unread
<1> HIDE DEF t, embed, u, o
<1>7. stored' = [stored EXCEPT ![u] = [active |-> Append(stored[u].active, o),
                                       withdrawn |-> stored[u].withdrawn]]
  <2> DEFINE b == stored[u]
             more == Append(stored[u].active, o)
  <2>1. b \in [active : Seq(OutputId), withdrawn : Seq(OutputId)]
    BY <1>2 DEF StoredInv
  <2>2. stored' = [stored EXCEPT ![u] = [b EXCEPT !.active = more]]
    BY <1>6
  <2> HIDE DEF b, more
  <2>3. [b EXCEPT !.active = more] = [active |-> more, withdrawn |-> b.withdrawn]
    BY <2>1
  <2>4. stored' = [stored EXCEPT ![u] = [active |-> more, withdrawn |-> b.withdrawn]]
    BY <2>2, <2>3
  <2> QED BY <2>4 DEF b, more
<1>8. Deposited(u, o)
  BY <1>2, <1>4, <1>5, <1>6, <1>7 DEF Deposited
<1> QED BY <1>2, <1>3, <1>8

(* What a step does to the account that t withdraws from                   *)
Withdrew(u, t) ==
  LET done == Completed(accounts[u], t)
      gone == ToSet(done)
  IN  /\ done \in Seq(OutputId) /\ IsInjective(done)
      /\ gone \subseteq accounts[u].active
      /\ gone \cap WithdrawnIds(accounts[u]) = {}
      /\ \A v \in User \ {u} : accounts'[v] = accounts[v]
      /\ accounts'[u].active = accounts[u].active \ gone
      /\ WithdrawnIds(accounts'[u]) = WithdrawnIds(accounts[u]) \cup gone
      /\ accounts'[u].withdrawn =
           accounts[u].withdrawn \cup {[id |-> o, by |-> t] : o \in gone}
      /\ accounts'[u].total = accounts[u].total - Sum(Values, gone)
      /\ accounts'[u].nonce = accounts[u].nonce
      /\ accounts'[u].queue <= accounts[u].queue
      /\ \A i \in DOMAIN done : Value(done[i]) \in Nat
      /\ stored' = [stored EXCEPT ![u] =
                      [active |-> FoldLeft(SwapRemove, stored[u].active, done),
                       withdrawn |-> stored[u].withdrawn \o done]]
      /\ index' = FoldLeft(LAMBDA idx, o : WithdrawnEvent(idx, u, o, t), index, done)
      /\ CountRemoved(u, done)
      /\ UNCHANGED adminVars

(* What a stored withdrawal is                                             *)
LEMMA StoredWithdrawal ==
  ASSUME TypeOK, BalanceInv, StoredInv, NEW c \in CallId, WithdrawalStored(c)
  PROVE  \E u \in User, t \in TxId : Withdrew(u, t)
<1> DEFINE u == calls[c].user
           t == calls[c].tx
           multisig == calls[c].multisig
           a == accounts[u]
           done == Completed(a, t)
           gone == ToSet(done)
<1>1. /\ WithdrawalCompleted(c)
      /\ stored' = [stored EXCEPT ![u].active = FoldLeft(SwapRemove, stored[u].active, done),
                                  ![u].withdrawn = stored[u].withdrawn \o done]
      /\ index' = FoldLeft(LAMBDA idx, o : WithdrawnEvent(idx, u, o, t), index, done)
      /\ CountRemoved(u, done)
  BY DEF WithdrawalStored
<1>2. u \in User /\ t \in TxId /\ t \in mined
  <2>1. calls[c].kind = "withdraw" /\ t \in mined
    BY <1>1 DEF WithdrawalCompleted, Answer
  <2>2. calls[c] \in WithdrawCall
    BY <2>1, CallKinds
  <2> QED BY <2>1, <2>2 DEF WithdrawCall
<1>3. /\ CanCompleteWithdrawals(a, t)
      /\ accounts' = [accounts EXCEPT ![u] = CompleteWithdrawals(a, t, multisig)]
      /\ UNCHANGED adminVars
  BY <1>1 DEF WithdrawalCompleted
<1>4. DistinctInputs(t) /\ Balanced(a)
  BY <1>2 DEF BalanceInv
<1>5. accounts \in [User -> AccountType] /\ a \in AccountType
  BY <1>2 DEF TypeOK
<1> HIDE DEF u, t, multisig, a
<1>6. done \in Seq(OutputId) /\ IsInjective(done) /\ gone = Spent(a, t)
  BY <1>2, <1>4, <1>5, CompletedInOrder
<1>7. /\ accounts'[u] = CompleteWithdrawals(a, t, multisig)
      /\ \A v \in User \ {u} : accounts'[v] = accounts[v]
  BY <1>2, <1>3, <1>5
<1>8. /\ Spent(a, t) \subseteq a.active
      /\ accounts'[u].active = a.active \ Spent(a, t)
      /\ accounts'[u].withdrawn = a.withdrawn \cup {[id |-> o, by |-> t] : o \in Spent(a, t)}
      /\ WithdrawnIds(accounts'[u]) = WithdrawnIds(a) \cup Spent(a, t)
      /\ Spent(a, t) \cap WithdrawnIds(a) = {}
  <2>1. Spent(a, t) \cap WithdrawnIds(a) = {}
    BY <1>3 DEF CanCompleteWithdrawals
  <2> QED BY <1>5, <1>7, <2>1, CompleteWithdrawalsRecords
<1>9. /\ accounts'[u].total = a.total - Sum(Values, Spent(a, t))
      /\ accounts'[u].nonce = a.nonce
      /\ accounts'[u].queue <= a.queue
  <2>1. /\ accounts'[u].total = a.total - DepositInputSum(a, t)
        /\ accounts'[u].nonce = a.nonce
        /\ accounts'[u].queue = QueueAfter(a, t, multisig)
    BY <1>5, <1>7 DEF CompleteWithdrawals, AccountType
  <2>2. DepositInputSum(a, t) = Sum(Values, Spent(a, t))
    BY <1>2, <1>4, <1>5, InputSums
  <2>3. QueueAfter(a, t, multisig) <= a.queue
    BY <1>2, <1>3, <1>5, QueueAfterType
  <2> QED BY <2>1, <2>2, <2>3
<1>10. \A i \in DOMAIN done : Value(done[i]) \in Nat
  <2>1. \A o \in a.active : Value(o) \in Nat
    BY <1>4 DEF Balanced
  <2>2. \A i \in DOMAIN done : done[i] \in ToSet(done)
    BY DEF ToSet
  <2> QED BY <1>6, <1>8, <2>1, <2>2
<1>11. stored' = [stored EXCEPT ![u] =
                    [active |-> FoldLeft(SwapRemove, stored[u].active, done),
                     withdrawn |-> stored[u].withdrawn \o done]]
  <2> DEFINE left == FoldLeft(SwapRemove, stored[u].active, done)
             more == stored[u].withdrawn \o done
             b == stored[u]
             b1 == [b EXCEPT !.active = left]
             b2 == [b1 EXCEPT !.withdrawn = more]
             one == [stored EXCEPT ![u] = b1]
             two == [one EXCEPT ![u] = [one[u] EXCEPT !.withdrawn = more]]
  <2>1. /\ stored \in [User -> [active : Seq(OutputId), withdrawn : Seq(OutputId)]]
        /\ b \in [active : Seq(OutputId), withdrawn : Seq(OutputId)]
    BY <1>2 DEF StoredInv
  <2>2. stored' = two
    BY <1>1
  <2> HIDE DEF left, more, b
  <2>3. b1 = [active |-> left, withdrawn |-> b.withdrawn]
    BY <2>1
  <2> HIDE DEF b1
  <2>4. b2 = [active |-> left, withdrawn |-> more]
    BY <2>3
  <2>5. one[u] = b1 /\ [one EXCEPT ![u] = b2] = [stored EXCEPT ![u] = b2]
    BY <1>2, <2>1
  <2>6. two = [one EXCEPT ![u] = b2]
    BY <2>5
  <2>7. stored' = [stored EXCEPT ![u] = [active |-> left, withdrawn |-> more]]
    BY <2>2, <2>5, <2>6, <2>4
  <2> QED BY <2>7 DEF left, more
<1>12. Withdrew(u, t)
  BY <1>1, <1>3, <1>6, <1>7, <1>8, <1>9, <1>10, <1>11 DEF Withdrew, a
<1> QED BY <1>2, <1>12

-----------------------------------------------------------------------------
(* The steps keep the invariants.                                          *)

RecordsKept ==
  \A u \in User : /\ accounts'[u].active = accounts[u].active
                  /\ accounts'[u].withdrawn = accounts[u].withdrawn

(* What a request changes                                                  *)
LEMMA RequestedFacts ==
  ASSUME TypeOK, NEW u \in User, NEW amount \in U64, Requested(u, amount)
  PROVE  /\ RecordsKept
         /\ \A v \in User : accounts'[v].total = accounts[v].total
         /\ \A v \in User \ {u} : accounts'[v] = accounts[v]
         /\ accounts'[u].nonce = accounts[u].nonce + 1
         /\ accounts'[u].queue = accounts[u].queue + amount
         /\ UNCHANGED <<stored, reader, adminVars>>
         /\ index' = QueueWithdrawalEvent(u, amount)
<1>1. accounts \in [User -> AccountType]
  BY DEF TypeOK
<1>2. accounts' = [accounts EXCEPT ![u] = QueueWithdrawal(accounts[u], amount, now)]
  BY DEF Requested, ApplyQueueWithdrawal
<1>3. /\ QueueWithdrawal(accounts[u], amount, now).active = accounts[u].active
      /\ QueueWithdrawal(accounts[u], amount, now).withdrawn = accounts[u].withdrawn
      /\ QueueWithdrawal(accounts[u], amount, now).total = accounts[u].total
      /\ QueueWithdrawal(accounts[u], amount, now).nonce = accounts[u].nonce + 1
      /\ QueueWithdrawal(accounts[u], amount, now).queue = accounts[u].queue + amount
  BY <1>1 DEF QueueWithdrawal, AccountType
<1>4. /\ accounts'[u] = QueueWithdrawal(accounts[u], amount, now)
      /\ \A v \in User \ {u} : accounts'[v] = accounts[v]
  BY <1>1, <1>2
<1> HIDE <1>2
<1> QED BY <1>3, <1>4 DEF RecordsKept, Requested, QueueTold

(* What a stored deposit changes in the accounts                           *)
LEMMA DepositedFacts ==
  ASSUME TypeOK, NEW u \in User, NEW o \in OutputId, Deposited(u, o)
  PROVE  /\ \A v \in User \ {u} : accounts'[v] = accounts[v]
         /\ accounts'[u].active = accounts[u].active \cup {o}
         /\ accounts'[u].withdrawn = accounts[u].withdrawn
         /\ WithdrawnIds(accounts'[u]) = WithdrawnIds(accounts[u])
         /\ accounts'[u].total = accounts[u].total + Value(o)
         /\ accounts'[u].nonce = accounts[u].nonce
         /\ accounts'[u].queue = accounts[u].queue
         /\ o \notin Recorded(accounts[u])
<1>1. accounts \in [User -> AccountType] /\ accounts[u] \in AccountType
  BY DEF TypeOK
<1>2. /\ accounts'[u] = CreateDeposit(accounts[u], o)
      /\ \A v \in User \ {u} : accounts'[v] = accounts[v]
  BY <1>1 DEF Deposited
<1>3. /\ CreateDeposit(accounts[u], o).active = accounts[u].active \cup {o}
      /\ CreateDeposit(accounts[u], o).withdrawn = accounts[u].withdrawn
      /\ WithdrawnIds(CreateDeposit(accounts[u], o)) = WithdrawnIds(accounts[u])
  BY <1>1, CreateDepositRecords
<1>4. /\ CreateDeposit(accounts[u], o).total = accounts[u].total + Value(o)
      /\ CreateDeposit(accounts[u], o).nonce = accounts[u].nonce
      /\ CreateDeposit(accounts[u], o).queue = accounts[u].queue
  BY <1>1 DEF CreateDeposit, AccountType
<1>5. o \notin Recorded(accounts[u])
  BY DEF Deposited, CanCreateDeposit, Recorded
<1> QED BY <1>2, <1>3, <1>4, <1>5

(* A step that moves no deposit leaves both lists as they are.             *)
LEMMA KeptLists ==
  ASSUME RecordsKept, UNCHANGED <<stored, reader>>, StoredInv, ReaderInv
  PROVE  StoredInv' /\ ReaderInv'
<1>1. \A u \in User : /\ WithdrawnIds(accounts'[u]) = WithdrawnIds(accounts[u])
                      /\ Recorded(accounts'[u]) = Recorded(accounts[u])
                      /\ accounts'[u].active = accounts[u].active
  BY DEF RecordsKept, WithdrawnIds, Recorded
<1>2. StoredInv'
  BY <1>1 DEF StoredInv
<1>3. Ahead' = Ahead
  BY DEF Ahead
<1>4. ReaderInv'
  BY <1>1, <1>3 DEF ReaderInv, ReadingOK
<1> QED BY <1>2, <1>4

(* A stored deposit is appended to the active list.                        *)
LEMMA DepositedList ==
  ASSUME TypeOK, StoredInv, NEW u \in User, NEW o \in OutputId, Deposited(u, o)
  PROVE  /\ StoredInv'
         /\ \A v \in User \ {u} : stored'[v] = stored[v]
         /\ stored'[u].withdrawn = stored[u].withdrawn
         /\ \A offset \in Nat :
              /\ After(stored[u].active, offset) \subseteq After(stored'[u].active, offset)
              /\ After(stored'[u].active, offset)
                   \subseteq After(stored[u].active, offset) \cup {o}
<1> DEFINE more == Append(stored[u].active, o)
<1>1. /\ stored[u] \in [active : Seq(OutputId), withdrawn : Seq(OutputId)]
      /\ stored \in [User -> [active : Seq(OutputId), withdrawn : Seq(OutputId)]]
      /\ IsInjective(stored[u].active)
      /\ ToSet(stored[u].active) = accounts[u].active
  BY DEF StoredInv
<1>2. /\ o \notin Recorded(accounts[u]) /\ o \notin ToSet(stored[u].active)
      /\ \A v \in User \ {u} : accounts'[v] = accounts[v]
      /\ accounts'[u].active = accounts[u].active \cup {o}
      /\ WithdrawnIds(accounts'[u]) = WithdrawnIds(accounts[u])
  BY <1>1, DepositedFacts DEF Recorded
<1>3. /\ more \in Seq(OutputId)
      /\ IsInjective(more)
      /\ ToSet(more) = ToSet(stored[u].active) \cup {o}
      /\ \A offset \in Nat :
           /\ After(stored[u].active, offset) \subseteq After(more, offset)
           /\ After(more, offset) \subseteq After(stored[u].active, offset) \cup {o}
  BY <1>1, <1>2, AppendFacts
<1>4. stored' = [stored EXCEPT ![u] = [active |-> more, withdrawn |-> stored[u].withdrawn]]
  BY DEF Deposited
<1> HIDE DEF more
<1>5. /\ \A v \in User \ {u} : stored'[v] = stored[v]
      /\ stored'[u] = [active |-> more, withdrawn |-> stored[u].withdrawn]
      /\ stored'[u].active = more
      /\ stored'[u].withdrawn = stored[u].withdrawn
      /\ stored' \in [User -> [active : Seq(OutputId), withdrawn : Seq(OutputId)]]
  BY <1>1, <1>3, <1>4
<1>6. StoredInv'
  <2>1. ASSUME NEW v \in User
        PROVE  /\ IsInjective(stored'[v].active)
               /\ IsInjective(stored'[v].withdrawn)
               /\ ToSet(stored'[v].active) = accounts'[v].active
               /\ ToSet(stored'[v].withdrawn) = WithdrawnIds(accounts'[v])
    <3>1. CASE v = u
      BY <1>1, <1>2, <1>3, <1>5, <3>1 DEF StoredInv
    <3>2. CASE v # u
      BY <1>2, <1>5, <3>2 DEF StoredInv
    <3> QED BY <3>1, <3>2
  <2> QED BY <1>5, <2>1 DEF StoredInv
<1> QED BY <1>3, <1>5, <1>6

(* Withdrawn deposits are removed from one list and appended to the other. *)
LEMMA WithdrewLists ==
  ASSUME StoredInv, NEW u \in User, NEW t \in TxId, Withdrew(u, t)
  PROVE  LET done == Completed(accounts[u], t)
             gone == ToSet(done)
         IN  /\ StoredInv'
             /\ \A v \in User \ {u} : stored'[v] = stored[v]
             /\ \A offset \in Nat :
                  /\ After(stored'[u].active, offset) \subseteq After(stored[u].active, offset)
                  /\ IsFiniteSet(Lost(stored[u].active, offset, stored'[u].active, gone))
                  /\ Cardinality(Lost(stored[u].active, offset, stored'[u].active, gone))
                       <= Len(done)
                  /\ After(stored[u].withdrawn, offset)
                       \subseteq After(stored'[u].withdrawn, offset)
                  /\ After(stored'[u].withdrawn, offset)
                       \subseteq After(stored[u].withdrawn, offset) \cup gone
<1> DEFINE done == Completed(accounts[u], t)
           gone == ToSet(done)
           left == FoldLeft(SwapRemove, stored[u].active, done)
           more == stored[u].withdrawn \o done
<1>1. /\ stored[u] \in [active : Seq(OutputId), withdrawn : Seq(OutputId)]
      /\ stored[u].active \in Seq(OutputId) /\ stored[u].withdrawn \in Seq(OutputId)
      /\ stored \in [User -> [active : Seq(OutputId), withdrawn : Seq(OutputId)]]
      /\ IsInjective(stored[u].active)
      /\ IsInjective(stored[u].withdrawn)
      /\ ToSet(stored[u].active) = accounts[u].active
      /\ ToSet(stored[u].withdrawn) = WithdrawnIds(accounts[u])
  BY DEF StoredInv
<1>2. /\ done \in Seq(OutputId) /\ IsInjective(done)
      /\ gone \subseteq accounts[u].active
      /\ gone \cap WithdrawnIds(accounts[u]) = {}
      /\ \A v \in User \ {u} : accounts'[v] = accounts[v]
      /\ accounts'[u].active = accounts[u].active \ gone
      /\ WithdrawnIds(accounts'[u]) = WithdrawnIds(accounts[u]) \cup gone
      /\ stored' = [stored EXCEPT ![u] = [active |-> left, withdrawn |-> more]]
  BY DEF Withdrew
<1> HIDE DEF done
<1>3. /\ left \in Seq(OutputId)
      /\ IsInjective(left)
      /\ ToSet(left) = ToSet(stored[u].active) \ gone
      /\ \A offset \in Nat :
           /\ After(left, offset) \subseteq After(stored[u].active, offset)
           /\ IsFiniteSet(Lost(stored[u].active, offset, left, gone))
           /\ Cardinality(Lost(stored[u].active, offset, left, gone)) <= Len(done)
  <2>1. gone \subseteq ToSet(stored[u].active)
    BY <1>1, <1>2
  <2> HIDE DEF left
  <2>2. ASSUME NEW offset \in Nat
        PROVE  /\ left \in Seq(OutputId)
               /\ IsInjective(left)
               /\ ToSet(left) = ToSet(stored[u].active) \ gone
               /\ After(left, offset) \subseteq After(stored[u].active, offset)
               /\ IsFiniteSet(Lost(stored[u].active, offset, left, gone))
               /\ Cardinality(Lost(stored[u].active, offset, left, gone)) <= Len(done)
    BY <1>1, <1>2, <2>1, RemoveEach DEF left
  <2> QED BY <2>2
<1>4. /\ more \in Seq(OutputId)
      /\ IsInjective(more)
      /\ ToSet(more) = ToSet(stored[u].withdrawn) \cup gone
      /\ \A offset \in Nat :
           /\ After(stored[u].withdrawn, offset) \subseteq After(more, offset)
           /\ After(more, offset) \subseteq After(stored[u].withdrawn, offset) \cup gone
  <2>1. ToSet(stored[u].withdrawn) \cap gone = {}
    BY <1>1, <1>2
  <2> QED BY <1>1, <1>2, <2>1, AddedFacts
<1> HIDE DEF left, more, gone
<1>5. /\ \A v \in User \ {u} : stored'[v] = stored[v]
      /\ stored'[u] = [active |-> left, withdrawn |-> more]
      /\ stored'[u].active = left
      /\ stored'[u].withdrawn = more
      /\ stored' \in [User -> [active : Seq(OutputId), withdrawn : Seq(OutputId)]]
  BY <1>1, <1>2, <1>3, <1>4
<1>6. StoredInv'
  <2>1. ASSUME NEW v \in User
        PROVE  /\ IsInjective(stored'[v].active)
               /\ IsInjective(stored'[v].withdrawn)
               /\ ToSet(stored'[v].active) = accounts'[v].active
               /\ ToSet(stored'[v].withdrawn) = WithdrawnIds(accounts'[v])
    <3>1. CASE v = u
      BY <1>1, <1>2, <1>3, <1>4, <1>5, <3>1
    <3>2. CASE v # u
      BY <1>2, <1>5, <3>2 DEF StoredInv
    <3> QED BY <3>1, <3>2
  <2> QED BY <1>5, <2>1 DEF StoredInv
<1> QED BY <1>3, <1>4, <1>5, <1>6 DEF gone, done

-----------------------------------------------------------------------------
(* The reading in progress                                                 *)

(* Nothing is lost to a reading when no deposit moves to the active list   *)
(* that was recorded before, and what lies ahead only grows, by deposits   *)
(* that were not read.                                                     *)
LEMMA ReadingKept ==
  ASSUME NEW r, NEW a, NEW b, NEW ahead, NEW next,
         ReadingOK(r, a, ahead),
         Recorded(a) \subseteq Recorded(b),
         WithdrawnIds(a) \subseteq WithdrawnIds(b),
         b.active \cap Recorded(a) \subseteq a.active,
         ahead \subseteq next,
         ToSet(r.got) \cap next = {},
         r.removed \in Nat
  PROVE  ReadingOK(r, b, next)
<1> DEFINE before == (r.first \cap a.active) \ (ToSet(r.got) \cup ahead)
           after == (r.first \cap b.active) \ (ToSet(r.got) \cup next)
<1>1. ASSUME r.list = "active"
      PROVE  IsFiniteSet(r.first) /\ Cardinality(after) <= r.removed
  <2>1. r.first \subseteq Recorded(a) /\ IsFiniteSet(r.first)
        /\ Cardinality(before) <= r.removed
    BY <1>1 DEF ReadingOK
  <2>2. after \subseteq before
    BY <2>1
  <2>3. before \subseteq r.first
    OBVIOUS
  <2> HIDE DEF before, after
  <2>4. /\ IsFiniteSet(before)
        /\ Cardinality(after) <= Cardinality(before)
        /\ Cardinality(before) \in Nat /\ Cardinality(after) \in Nat
    BY <2>1, <2>2, <2>3, FS_Subset, FS_CardinalityType
  <2> QED BY <2>1, <2>4
<1>2. ASSUME r.list = "withdrawn"
      PROVE  ToSet(r.got) \subseteq WithdrawnIds(b) /\ r.first \subseteq ToSet(r.got) \cup next
  BY <1>2 DEF ReadingOK
<1>3. /\ IsInjective(r.got)
      /\ ToSet(r.got) \subseteq Recorded(b)
      /\ r.first \subseteq Recorded(b)
  BY DEF ReadingOK
<1> QED BY <1>1, <1>2, <1>3 DEF ReadingOK

(* A reading of another user's list, or one that is over                   *)
LEMMA OtherReading ==
  ASSUME StoredInv, ReaderInv, NEW u \in User, UNCHANGED reader,
         \A v \in User \ {u} : accounts'[v] = accounts[v] /\ stored'[v] = stored[v],
         reader.user # u
  PROVE  ReaderInv'
<1>1. CASE reader.phase = "idle"
  BY <1>1 DEF ReaderInv, Idle
<1>2. CASE reader.phase # "idle"
  <2>1. reader.user \in User \ {u} /\ ReadingOK(reader, accounts[reader.user], Ahead)
    BY <1>2 DEF ReaderInv
  <2>2. Ahead' = Ahead /\ accounts'[reader.user] = accounts[reader.user]
    BY <2>1 DEF Ahead
  <2> QED BY <1>2, <2>1, <2>2 DEF ReaderInv
<1> QED BY <1>1, <1>2

(* A stored deposit                                                        *)
LEMMA DepositedReading ==
  ASSUME TypeOK, StoredInv, ReaderInv, NEW u \in User, NEW o \in OutputId, Deposited(u, o)
  PROVE  ReaderInv'
<1>1. reader' = reader /\ reader \in Reader
  BY DEF Deposited, ReaderInv
<1>2. /\ \A v \in User \ {u} : stored'[v] = stored[v]
      /\ stored'[u].withdrawn = stored[u].withdrawn
      /\ \A offset \in Nat :
           /\ After(stored[u].active, offset) \subseteq After(stored'[u].active, offset)
           /\ After(stored'[u].active, offset)
                \subseteq After(stored[u].active, offset) \cup {o}
  BY DepositedList
<1>3. /\ \A v \in User \ {u} : accounts'[v] = accounts[v]
      /\ accounts'[u].active = accounts[u].active \cup {o}
      /\ WithdrawnIds(accounts'[u]) = WithdrawnIds(accounts[u])
      /\ o \notin Recorded(accounts[u])
  BY DepositedFacts
<1>4. CASE reader.user # u
  BY <1>1, <1>2, <1>3, <1>4, OtherReading
<1>5. CASE reader.phase = "idle"
  BY <1>1, <1>5 DEF ReaderInv, Idle
<1>6. CASE reader.user = u /\ reader.phase # "idle"
  <2> DEFINE a == accounts[u]
             b == accounts'[u]
             ahead == Ahead
             next == Ahead'
  <2>1. ReadingOK(reader, a, ahead) /\ reader.list \in {"active", "withdrawn"}
    BY <1>6 DEF ReaderInv
  <2>2. ahead \subseteq next /\ next \subseteq ahead \cup {o}
    <3>1. CASE reader.phase # "reading"
      BY <1>1, <3>1 DEF Ahead
    <3>2. CASE reader.phase = "reading"
      <4>1. /\ ahead = After(stored[u][reader.list], reader.offset)
            /\ next = After(stored'[u][reader.list], reader.offset)
            /\ reader.offset \in Nat
        BY <1>1, <1>6, <3>2 DEF Ahead, Reader
      <4> HIDE DEF ahead, next
      <4>2. CASE reader.list = "active"
        BY <1>2, <4>1, <4>2
      <4>3. CASE reader.list = "withdrawn"
        BY <1>2, <4>1, <4>3
      <4> QED BY <2>1, <4>2, <4>3
    <3> QED BY <3>1, <3>2
  <2>3. ToSet(reader.got) \subseteq Recorded(a) /\ ToSet(reader.got) \cap ahead = {}
    BY <2>1 DEF ReadingOK
  <2>4. reader.removed \in Nat
    BY <1>1 DEF Reader
  <2> HIDE DEF ahead, next
  <2>5. ToSet(reader.got) \cap next = {}
    BY <1>3, <2>2, <2>3
  <2>6. /\ Recorded(a) \subseteq Recorded(b)
        /\ WithdrawnIds(a) \subseteq WithdrawnIds(b)
        /\ b.active \cap Recorded(a) \subseteq a.active
    BY <1>3 DEF Recorded
  <2> HIDE DEF a, b
  <2>7. ReadingOK(reader, b, next)
    BY <2>1, <2>2, <2>4, <2>5, <2>6, ReadingKept
  <2> QED BY <1>1, <1>6, <2>7 DEF ReaderInv, b, next
<1> QED BY <1>4, <1>5, <1>6

(* The active list loses what is removed, and skips as many at most.       *)
LEMMA RemovedReading ==
  ASSUME NEW r, NEW s, NEW a, NEW b, NEW ahead, NEW next, NEW gone, NEW n \in Nat,
         ReadingOK(r, a, ahead),
         r.list = "active", s.list = "active",
         s.got = r.got, s.first = r.first, r.removed \in Nat, s.removed = r.removed + n,
         Recorded(a) \subseteq Recorded(b),
         b.active = a.active \ gone,
         next \subseteq ahead,
         IsFiniteSet((ahead \ gone) \ next),
         Cardinality((ahead \ gone) \ next) <= n
  PROVE  ReadingOK(s, b, next)
<1> DEFINE before == (r.first \cap a.active) \ (ToSet(r.got) \cup ahead)
           after == (s.first \cap b.active) \ (ToSet(s.got) \cup next)
           lost == (ahead \ gone) \ next
<1>1. /\ IsFiniteSet(r.first) /\ Cardinality(before) <= r.removed
      /\ ToSet(r.got) \cap ahead = {}
      /\ IsInjective(r.got) /\ ToSet(r.got) \subseteq Recorded(a)
      /\ r.first \subseteq Recorded(a)
  BY DEF ReadingOK
<1>2. after \subseteq before \cup lost
  OBVIOUS
<1>3. before \subseteq r.first
  OBVIOUS
<1>4. IsFiniteSet(lost) /\ Cardinality(lost) <= n
  OBVIOUS
<1> HIDE DEF before, after, lost
<1>5. IsFiniteSet(before)
  BY <1>1, <1>3, FS_Subset
<1>6. /\ IsFiniteSet(before \cup lost) /\ IsFiniteSet(before \cap lost)
      /\ Cardinality(before \cup lost) =
           Cardinality(before) + Cardinality(lost) - Cardinality(before \cap lost)
  <2>1. IsFiniteSet(before \cap lost)
    BY <1>5, FS_Subset
  <2> QED BY <1>4, <1>5, <2>1, FS_Union
<1>7. /\ Cardinality(before) \in Nat /\ Cardinality(lost) \in Nat
      /\ Cardinality(before \cap lost) \in Nat
  BY <1>4, <1>5, <1>6, FS_CardinalityType
<1>8. Cardinality(after) <= Cardinality(before \cup lost) /\ Cardinality(after) \in Nat
  <2>1. IsFiniteSet(after) /\ Cardinality(after) <= Cardinality(before \cup lost)
    BY <1>2, <1>6, FS_Subset
  <2> QED BY <2>1, FS_CardinalityType
<1>9. Cardinality(after) <= s.removed
  BY <1>1, <1>4, <1>6, <1>7, <1>8
<1>10. /\ ToSet(s.got) \cap next = {}
       /\ IsInjective(s.got) /\ ToSet(s.got) \subseteq Recorded(b)
       /\ s.first \subseteq Recorded(b) /\ IsFiniteSet(s.first)
  BY <1>1
<1> QED BY <1>9, <1>10 DEF ReadingOK, after

(* Stored withdrawals                                                      *)
LEMMA WithdrewReading ==
  ASSUME StoredInv, ReaderInv, NEW u \in User, NEW t \in TxId, Withdrew(u, t)
  PROVE  ReaderInv'
<1> DEFINE done == Completed(accounts[u], t)
           gone == ToSet(done)
           a == accounts[u]
           b == accounts'[u]
           ahead == Ahead
           next == Ahead'
<1>1. reader \in Reader
  BY DEF ReaderInv
<1>2. /\ \A v \in User \ {u} : stored'[v] = stored[v]
      /\ \A offset \in Nat :
           /\ After(stored'[u].active, offset) \subseteq After(stored[u].active, offset)
           /\ IsFiniteSet(Lost(stored[u].active, offset, stored'[u].active, gone))
           /\ Cardinality(Lost(stored[u].active, offset, stored'[u].active, gone))
                <= Len(done)
           /\ After(stored[u].withdrawn, offset) \subseteq After(stored'[u].withdrawn, offset)
           /\ After(stored'[u].withdrawn, offset)
                \subseteq After(stored[u].withdrawn, offset) \cup gone
  BY WithdrewLists
<1>3. /\ \A v \in User \ {u} : accounts'[v] = accounts[v]
      /\ b.active = a.active \ gone
      /\ WithdrawnIds(b) = WithdrawnIds(a) \cup gone
      /\ gone \subseteq a.active
      /\ gone \cap WithdrawnIds(a) = {}
      /\ done \in Seq(OutputId)
  BY DEF Withdrew
<1>4. /\ Recorded(a) \subseteq Recorded(b)
      /\ WithdrawnIds(a) \subseteq WithdrawnIds(b)
      /\ b.active \cap Recorded(a) \subseteq a.active
  BY <1>3 DEF Recorded
<1>5. reader' = [reader EXCEPT
                   !.removed = IF reader.phase = "reading" /\ reader.user = u
                               THEN reader.removed + Len(done) ELSE reader.removed]
  BY DEF Withdrew, CountRemoved
<1>6. Len(done) \in Nat
  BY <1>3
<1> HIDE DEF done, gone, a, b
<1>7. CASE ~(reader.phase = "reading" /\ reader.user = u)
  <2>1. reader' = reader
    BY <1>1, <1>5, <1>7 DEF Reader
  <2>2. CASE reader.user # u
    BY <1>2, <1>3, <2>1, <2>2, OtherReading
  <2>3. CASE reader.phase = "idle"
    BY <2>1, <2>3 DEF ReaderInv, Idle
  <2>4. CASE reader.user = u /\ reader.phase # "idle"
    <3>1. ahead = {} /\ next = {}
      BY <1>7, <2>1, <2>4 DEF Ahead
    <3>2. ReadingOK(reader, a, ahead) /\ reader.list \in {"active", "withdrawn"}
      BY <2>4 DEF ReaderInv, a
    <3>3. reader.removed \in Nat
      BY <1>1 DEF Reader
    <3> HIDE DEF ahead, next
    <3>4. ReadingOK(reader, b, next)
      BY <1>4, <3>1, <3>2, <3>3, ReadingKept
    <3> QED BY <1>1, <2>1, <2>4, <3>2, <3>4 DEF ReaderInv, b, next
  <2> QED BY <2>2, <2>3, <2>4
<1>8. CASE reader.phase = "reading" /\ reader.user = u
  <2> DEFINE sum == reader.removed + Len(done)
  <2>1. reader' = [reader EXCEPT !.removed = sum] /\ sum \in Nat /\ reader.removed \in Nat
    BY <1>1, <1>5, <1>6, <1>8 DEF Reader
  <2>2. ReadingOK(reader, a, ahead) /\ reader.list \in {"active", "withdrawn"}
    BY <1>8 DEF ReaderInv, a
  <2> HIDE DEF sum
  <2>3. /\ reader' \in Reader
        /\ reader'.phase = reader.phase /\ reader'.user = u
        /\ reader'.list = reader.list /\ reader'.offset = reader.offset
        /\ reader'.got = reader.got /\ reader'.first = reader.first
        /\ reader'.removed = sum
    BY <1>1, <1>8, <2>1 DEF Reader
  <2>4. /\ ahead = After(stored[u][reader.list], reader.offset)
        /\ next = After(stored'[u][reader.list], reader.offset)
        /\ reader.offset \in Nat
    BY <1>1, <1>8, <2>3 DEF Ahead, Reader
  <2> HIDE DEF ahead, next
  <2>5. ASSUME reader.list = "active" PROVE ReadingOK(reader', b, next)
    <3>1. /\ next \subseteq ahead
          /\ IsFiniteSet((ahead \ gone) \ next)
          /\ Cardinality((ahead \ gone) \ next) <= Len(done)
      BY <1>2, <2>4, <2>5 DEF Lost
    <3>2. /\ reader'.list = "active" /\ reader'.got = reader.got
          /\ reader'.first = reader.first
          /\ reader'.removed = reader.removed + Len(done)
      BY <2>3, <2>5 DEF sum
    <3>3. b.active = a.active \ gone /\ Recorded(a) \subseteq Recorded(b)
      BY <1>3, <1>4
    <3> QED BY ONLY <1>6, <2>1, <2>2, <2>5, <3>1, <3>2, <3>3, RemovedReading
  <2>6. ASSUME reader.list = "withdrawn" PROVE ReadingOK(reader', b, next)
    <3>1. ahead \subseteq next /\ next \subseteq ahead \cup gone
      BY <1>2, <2>4, <2>6
    <3>2. ToSet(reader.got) \subseteq WithdrawnIds(a) /\ ToSet(reader.got) \cap ahead = {}
      BY <2>2, <2>6 DEF ReadingOK
    <3>3. ToSet(reader.got) \cap next = {}
      BY <1>3, <3>1, <3>2
    <3>4. ReadingOK(reader, b, next)
      BY <1>4, <2>1, <2>2, <3>1, <3>3, ReadingKept
    <3> QED BY <2>3, <2>6, <3>4 DEF ReadingOK
  <2>7. ReadingOK(reader', b, next)
    BY <2>2, <2>5, <2>6
  <2> QED BY <1>8, <2>2, <2>3, <2>7 DEF ReaderInv, b, next
<1> QED BY <1>7, <1>8

(* What lies behind an offset is in the list.                              *)
LEMMA AfterFacts ==
  ASSUME NEW values \in Seq(OutputId)
  PROVE  /\ After(values, 0) = ToSet(values)
         /\ \A offset \in Nat : After(values, offset) \subseteq ToSet(values)
         /\ IsFiniteSet(ToSet(values))
<1>1. DOMAIN values = 1 .. Len(values) /\ Len(values) \in Nat
  OBVIOUS
<1>2. IsFiniteSet(ToSet(values))
  <2>1. IsFiniteSet(DOMAIN values)
    BY LastPosition
  <2>2. values \in Surjection(DOMAIN values, ToSet(values))
    BY DEF Surjection, ToSet
  <2> QED BY <2>1, <2>2, FS_Surjection
<1> QED BY <1>1, <1>2 DEF After, ToSet

(* The reading starts, and everything lies ahead.                          *)
LEMMA StartedReading ==
  ASSUME StoredInv, ReaderInv, NEW u \in User, NEW list \in {"active", "withdrawn"},
         StartReading(u, list)
  PROVE  ReaderInv'
<1> DEFINE values == stored[u][list]
           first == ToSet(values)
           a == accounts[u]
           started == [phase |-> "reading", user |-> u, list |-> list, offset |-> 0,
                       got |-> <<>>, first |-> first, removed |-> 0]
<1>1. /\ values \in Seq(OutputId)
      /\ first \subseteq Recorded(a)
  <2>1. CASE list = "active"
    BY <2>1 DEF StoredInv, Recorded
  <2>2. CASE list = "withdrawn"
    BY <2>2 DEF StoredInv, Recorded
  <2> QED BY <2>1, <2>2
<1>2. /\ reader' = [Idle EXCEPT !.phase = "reading", !.user = u, !.list = list,
                                !.first = first]
      /\ UNCHANGED <<accounts, stored>>
  BY DEF StartReading, vars
<1> HIDE DEF values, first
<1>3. reader' = started
  BY <1>2 DEF Idle
<1>4. first \subseteq OutputId /\ IsFiniteSet(first) /\ After(values, 0) = first
  BY <1>1, AfterFacts DEF first, ToSet
<1>5. reader' \in Reader
  BY <1>3, <1>4 DEF Reader
<1>6. Ahead' = first
  <2>1. /\ reader'.phase = "reading" /\ reader'.user = u /\ reader'.list = list
        /\ reader'.offset = 0
    BY <1>3
  <2>2. Ahead' = After(stored[u][list], 0)
    BY <1>2, <2>1 DEF Ahead
  <2> QED BY <1>4, <2>2 DEF values
<1>7. ReadingOK(started, a, first)
  <2>1. IsInjective(started.got) /\ ToSet(started.got) = {}
    BY DEF IsInjective, ToSet
  <2>2. started.first = first /\ started.removed = 0
    OBVIOUS
  <2>3. (first \cap a.active) \ (ToSet(started.got) \cup first) = {}
    OBVIOUS
  <2>4. Cardinality((first \cap a.active) \ (ToSet(started.got) \cup first)) <= 0
    <3>1. Cardinality({}) = 0
      BY FS_EmptySet
    <3> DEFINE skipped == (first \cap a.active) \ (ToSet(started.got) \cup first)
    <3>2. skipped = {}
      BY <2>3
    <3> HIDE DEF skipped
    <3>3. Cardinality(skipped) <= 0
      BY <3>1, <3>2
    <3> QED BY <3>3 DEF skipped
  <2>5. started.list = list
    OBVIOUS
  <2> HIDE DEF started, a
  <2>6. started.list = "active" =>
          /\ IsFiniteSet(started.first)
          /\ Cardinality((started.first \cap a.active) \ (ToSet(started.got) \cup first))
               <= started.removed
    BY <1>4, <2>2, <2>4
  <2>7. /\ ToSet(started.got) \subseteq Recorded(a) /\ started.first \subseteq Recorded(a)
        /\ ToSet(started.got) \cap first = {}
        /\ ToSet(started.got) \subseteq WithdrawnIds(a)
        /\ started.first \subseteq ToSet(started.got) \cup first
    BY <1>1, <2>1, <2>2
  <2> QED BY <2>1, <2>6, <2>7 DEF ReadingOK
<1>8. reader'.phase = "reading" /\ reader'.user = u /\ reader'.list = list
  BY <1>3
<1> HIDE DEF started
<1> QED BY <1>2, <1>3, <1>5, <1>6, <1>7, <1>8 DEF ReaderInv, a

(* A page moves what it shows from ahead to what was read.                 *)
LEMMA ReadingPage ==
  ASSUME StoredInv, ReaderInv, ReadPage
  PROVE  ReaderInv'
<1> DEFINE u == reader.user
           list == reader.list
           values == stored[u][list]
           page == Page(values, reader.offset)
           rest == After(values, reader.offset + Limit)
           got == reader.got \o page
           phase == IF Len(page) < Limit THEN "done" ELSE "reading"
           a == accounts[u]
<1>1. /\ reader.phase = "reading"
      /\ reader' = [reader EXCEPT !.got = got, !.offset = reader.offset + Limit,
                                  !.phase = phase]
      /\ UNCHANGED <<accounts, stored>>
  BY DEF ReadPage, vars
<1>2. /\ reader \in Reader /\ u \in User /\ list \in {"active", "withdrawn"}
      /\ ReadingOK(reader, a, Ahead)
      /\ Ahead = After(values, reader.offset)
  BY <1>1 DEF ReaderInv, Ahead
<1>3. reader.offset \in Nat /\ reader.got \in Seq(OutputId) /\ reader.offset + Limit \in Nat
  BY <1>2, ReadersAssumption DEF Reader
<1>4. /\ values \in Seq(OutputId) /\ IsInjective(values)
      /\ ToSet(values) \subseteq Recorded(a)
      /\ list = "withdrawn" => ToSet(values) \subseteq WithdrawnIds(a)
  <2>1. CASE list = "active"
    BY <1>2, <2>1 DEF StoredInv, Recorded
  <2>2. CASE list = "withdrawn"
    BY <1>2, <2>2 DEF StoredInv, Recorded
  <2> QED BY <1>2, <2>1, <2>2
<1>5. /\ page \in Seq(OutputId) /\ IsInjective(page)
      /\ Ahead = ToSet(page) \cup rest
      /\ ToSet(page) \cap rest = {}
      /\ Len(page) < Limit => rest = {}
  BY <1>2, <1>3, <1>4, PageFacts
<1>6. Ahead \subseteq ToSet(values)
  BY <1>2, <1>3, <1>4, AfterFacts
<1> HIDE DEF values, page, rest, a
<1>7. /\ IsInjective(reader.got)
      /\ ToSet(reader.got) \subseteq Recorded(a)
      /\ ToSet(reader.got) \cap Ahead = {}
      /\ reader.first \subseteq Recorded(a)
  BY <1>2 DEF ReadingOK
<1>8. got \in Seq(OutputId) /\ IsInjective(got) /\ ToSet(got) = ToSet(reader.got) \cup ToSet(page)
  BY <1>3, <1>5, <1>7, ReadFacts
<1> HIDE DEF got
<1>9. /\ reader' \in Reader
      /\ reader'.phase = phase /\ reader'.user = u /\ reader'.list = list
      /\ reader'.offset = reader.offset + Limit
      /\ reader'.got = got /\ reader'.first = reader.first
      /\ reader'.removed = reader.removed
  BY <1>1, <1>2, <1>3, <1>8 DEF Reader
<1>10. Ahead' = rest
  <2>1. CASE Len(page) < Limit
    BY <1>5, <1>9, <2>1 DEF Ahead
  <2>2. CASE ~(Len(page) < Limit)
    BY <1>1, <1>9, <2>2 DEF Ahead, rest, values
  <2> QED BY <2>1, <2>2
<1>11. ReadingOK(reader', a, rest)
  <2>1. ToSet(got) \subseteq Recorded(a) /\ ToSet(got) \cap rest = {}
    BY <1>4, <1>5, <1>6, <1>7, <1>8
  <2>2. ToSet(got) \cup rest = ToSet(reader.got) \cup Ahead
    BY <1>5, <1>8
  <2>3. ASSUME list = "active"
        PROVE  /\ IsFiniteSet(reader.first)
               /\ Cardinality((reader.first \cap a.active) \ (ToSet(got) \cup rest))
                    <= reader.removed
    BY <1>2, <2>2, <2>3 DEF ReadingOK
  <2>4. ASSUME list = "withdrawn"
        PROVE  /\ ToSet(got) \subseteq WithdrawnIds(a)
               /\ reader.first \subseteq ToSet(got) \cup rest
    BY <1>2, <1>4, <1>5, <1>6, <1>8, <2>2, <2>4 DEF ReadingOK
  <2> QED BY <1>7, <1>8, <1>9, <2>1, <2>3, <2>4 DEF ReadingOK
<1> QED BY <1>1, <1>2, <1>9, <1>10, <1>11 DEF ReaderInv, a

-----------------------------------------------------------------------------
(* The books of the indexer                                                *)

Tells(told, a) ==
  /\ told.active = a.active /\ told.withdrawn = a.withdrawn
  /\ told.total = a.total /\ told.nonce = a.nonce
  /\ a.queue <= told.requested

(* An event about one user changes the books of that user only.            *)
LEMMA OneUserTold ==
  ASSUME IndexInv, NEW u \in User, NEW b \in UserBooks,
         index' = WithBooks(index, u, b),
         \A v \in User \ {u} : accounts'[v] = accounts[v],
         UNCHANGED adminVars,
         Tells(b, accounts'[u])
  PROVE  IndexInv'
<1>1. index' \in Index /\ index \in Index
  BY WithBooksTwice DEF IndexInv
<1>2. /\ index'.owner = index.owner /\ index'.paused = index.paused
      /\ index'.users[u] = b
      /\ \A v \in User \ {u} : index'.users[v] = index.users[v]
  BY DEF WithBooks
<1>3. owner' = owner /\ config' = config
  OBVIOUS
<1>4. \A v \in User : Tells(index'.users[v], accounts'[v])
  <2>1. ASSUME NEW v \in User \ {u} PROVE Tells(index'.users[v], accounts'[v])
    BY <1>2 DEF IndexInv, EventsTellBooks, Tells
  <2> QED BY <1>2, <2>1
<1>5. EventsTellBooks'
  BY <1>2, <1>3, <1>4 DEF IndexInv, EventsTellBooks, Tells
<1> QED BY <1>1, <1>5 DEF IndexInv

(* What the events of a deposit and of a request make of the books         *)
LEMMA EventBooks ==
  ASSUME index \in Index, NEW u \in User, NEW o, NEW amount
  PROVE  LET b == index.users[u]
         IN  /\ DepositEvent(u, o) =
                  WithBooks(index, u, [active |-> b.active \cup {o}, withdrawn |-> b.withdrawn,
                                       total |-> b.total + Value(o), nonce |-> b.nonce,
                                       requested |-> b.requested])
             /\ QueueWithdrawalEvent(u, amount) =
                  WithBooks(index, u, [active |-> b.active, withdrawn |-> b.withdrawn,
                                       total |-> b.total, nonce |-> b.nonce + 1,
                                       requested |-> b.requested + amount])
<1> DEFINE b == index.users[u]
           d1 == [b EXCEPT !.active = b.active \cup {o}]
           d2 == [d1 EXCEPT !.total = d1.total + Value(o)]
           q1 == [b EXCEPT !.nonce = b.nonce + 1]
           q2 == [q1 EXCEPT !.requested = q1.requested + amount]
           With(d) == [index.users EXCEPT ![u] = d]
<1>1. b \in UserBooks
  BY DEF Index
<1>2. d2 = [active |-> b.active \cup {o}, withdrawn |-> b.withdrawn,
            total |-> b.total + Value(o), nonce |-> b.nonce, requested |-> b.requested]
  <2> HIDE DEF b
  <2>1. d1 = [active |-> b.active \cup {o}, withdrawn |-> b.withdrawn,
              total |-> b.total, nonce |-> b.nonce, requested |-> b.requested]
    BY <1>1 DEF UserBooks
  <2> HIDE DEF d1
  <2> QED BY <2>1
<1>3. q2 = [active |-> b.active, withdrawn |-> b.withdrawn,
            total |-> b.total, nonce |-> b.nonce + 1, requested |-> b.requested + amount]
  <2> HIDE DEF b
  <2>1. q1 = [active |-> b.active, withdrawn |-> b.withdrawn,
              total |-> b.total, nonce |-> b.nonce + 1, requested |-> b.requested]
    BY <1>1 DEF UserBooks
  <2> HIDE DEF q1
  <2> QED BY <2>1
<1>4. \A d : [index EXCEPT !.users = With(d)] = WithBooks(index, u, d)
  <2> SUFFICES ASSUME NEW d PROVE [index EXCEPT !.users = With(d)] = WithBooks(index, u, d)
    OBVIOUS
  <2>1. With(d) = [v \in User |-> IF v = u THEN d ELSE index.users[v]]
    BY DEF Index
  <2> HIDE DEF With
  <2> QED BY <2>1 DEF Index, WithBooks
<1>5. DepositEvent(u, o) = [index EXCEPT !.users = With(d2)]
  BY DEF DepositEvent, Index, UserBooks
<1>6. QueueWithdrawalEvent(u, amount) = [index EXCEPT !.users = With(q2)]
  BY DEF QueueWithdrawalEvent, Index, UserBooks
<1> HIDE DEF d2, q2, With
<1> QED BY <1>2, <1>3, <1>4, <1>5, <1>6

(* The types of what an account tells, before and after a step             *)
LEMMA AccountFields ==
  ASSUME NEW books \in [User -> AccountType], NEW u \in User
  PROVE  /\ books[u].active \in SUBSET OutputId
         /\ books[u].withdrawn \in SUBSET Withdrawn
         /\ books[u].total \in Nat /\ books[u].nonce \in Nat
         /\ books[u].queue \in Nat
<1>1. books[u] \in AccountType
  OBVIOUS
<1> QED BY <1>1, AccountAssumption DEF AccountType, U64

(* A deposit is told.                                                      *)
LEMMA DepositedTold ==
  ASSUME TypeOK, TypeOK', IndexInv, NEW u \in User, NEW o \in OutputId, Deposited(u, o)
  PROVE  IndexInv'
<1> DEFINE told == index.users[u]
           b == [active |-> told.active \cup {o}, withdrawn |-> told.withdrawn,
                 total |-> told.total + Value(o), nonce |-> told.nonce,
                 requested |-> told.requested]
<1>1. index \in Index /\ told \in UserBooks /\ Tells(told, accounts[u])
  BY DEF IndexInv, Index, EventsTellBooks, Tells
<1>2. /\ \A v \in User \ {u} : accounts'[v] = accounts[v]
      /\ accounts'[u].active = accounts[u].active \cup {o}
      /\ accounts'[u].withdrawn = accounts[u].withdrawn
      /\ accounts'[u].total = accounts[u].total + Value(o)
      /\ accounts'[u].nonce = accounts[u].nonce
      /\ accounts'[u].queue = accounts[u].queue
  BY DepositedFacts
<1>3. index' = WithBooks(index, u, b) /\ UNCHANGED adminVars
  BY <1>1, EventBooks DEF Deposited
<1> HIDE DEF told
<1>4. b \in UserBooks
  <2>1. told.active \cup {o} \in SUBSET OutputId /\ told.total + Value(o) \in Int
    BY <1>1 DEF UserBooks, Deposited
  <2> QED BY <1>1, <2>1 DEF UserBooks
<1>5. Tells(b, accounts'[u])
  BY <1>1, <1>2 DEF Tells
<1> HIDE DEF b
<1> QED BY <1>2, <1>3, <1>4, <1>5, OneUserTold

(* A request is told.                                                      *)
LEMMA RequestedTold ==
  ASSUME TypeOK, IndexInv, NEW u \in User, NEW amount \in U64, Requested(u, amount)
  PROVE  IndexInv'
<1> DEFINE told == index.users[u]
           b == [active |-> told.active, withdrawn |-> told.withdrawn,
                 total |-> told.total, nonce |-> told.nonce + 1,
                 requested |-> told.requested + amount]
<1>1. index \in Index /\ told \in UserBooks /\ Tells(told, accounts[u])
  BY DEF IndexInv, Index, EventsTellBooks, Tells
<1>2. /\ \A v \in User \ {u} : accounts'[v] = accounts[v]
      /\ accounts'[u].active = accounts[u].active
      /\ accounts'[u].withdrawn = accounts[u].withdrawn
      /\ accounts'[u].total = accounts[u].total
      /\ accounts'[u].nonce = accounts[u].nonce + 1
      /\ accounts'[u].queue = accounts[u].queue + amount
      /\ UNCHANGED adminVars
      /\ index' = QueueWithdrawalEvent(u, amount)
  BY RequestedFacts DEF RecordsKept
<1>3. index' = WithBooks(index, u, b)
  BY <1>1, <1>2, EventBooks
<1>4. amount \in Nat /\ accounts[u].queue \in Nat
  BY AccountFields, AccountAssumption DEF U64, TypeOK
<1> HIDE DEF told
<1>5. b \in UserBooks
  <2>1. told.nonce + 1 \in Nat /\ told.requested + amount \in Nat
    BY <1>1, <1>4 DEF UserBooks
  <2> QED BY <1>1, <2>1 DEF UserBooks
<1>6. Tells(b, accounts'[u])
  <2>1. told.requested \in Nat /\ accounts[u].queue <= told.requested
    BY <1>1 DEF UserBooks, Tells
  <2>2. accounts'[u].queue <= told.requested + amount
    BY <1>2, <1>4, <2>1
  <2> QED BY <1>1, <1>2, <2>2 DEF Tells
<1> HIDE DEF b
<1> QED BY <1>2, <1>3, <1>5, <1>6, OneUserTold

(* A withdrawal is told.                                                   *)
LEMMA WithdrewTold ==
  ASSUME TypeOK, TypeOK', IndexInv, NEW u \in User, NEW t \in TxId, Withdrew(u, t)
  PROVE  IndexInv'
<1> DEFINE done == Completed(accounts[u], t)
           gone == ToSet(done)
           told == index.users[u]
           b == BooksAfter(told, gone, t, Sum(Values, gone))
<1>1. index \in Index /\ told \in UserBooks /\ Tells(told, accounts[u])
  BY DEF IndexInv, Index, EventsTellBooks, Tells
<1>2. /\ done \in Seq(OutputId) /\ IsInjective(done)
      /\ \A i \in DOMAIN done : Value(done[i]) \in Nat
      /\ \A v \in User \ {u} : accounts'[v] = accounts[v]
      /\ accounts'[u].active = accounts[u].active \ gone
      /\ accounts'[u].withdrawn =
           accounts[u].withdrawn \cup {[id |-> o, by |-> t] : o \in gone}
      /\ accounts'[u].total = accounts[u].total - Sum(Values, gone)
      /\ accounts'[u].nonce = accounts[u].nonce
      /\ accounts'[u].queue <= accounts[u].queue
      /\ index' = FoldLeft(LAMBDA idx, o : WithdrawnEvent(idx, u, o, t), index, done)
      /\ UNCHANGED adminVars
  BY DEF Withdrew
<1> HIDE DEF done
<1>3. index' = WithBooks(index, u, b)
  BY <1>1, <1>2, AllEvents
<1> HIDE DEF told, gone
<1>4. /\ b.active = accounts'[u].active /\ b.withdrawn = accounts'[u].withdrawn
      /\ b.total = accounts'[u].total /\ b.nonce = accounts'[u].nonce
      /\ b.requested = told.requested
  BY <1>1, <1>2 DEF BooksAfter, Tells
<1>5. accounts'[u].queue <= told.requested
  <2>1. accounts[u].queue \in Nat
    BY AccountFields DEF TypeOK
  <2>2. accounts'[u].queue \in Nat
    BY AccountFields DEF TypeOK
  <2>3. told.requested \in Nat /\ accounts[u].queue <= told.requested
    BY <1>1 DEF UserBooks, Tells
  <2>4. accounts'[u].queue <= accounts[u].queue
    BY <1>2
  <2> QED BY <2>1, <2>2, <2>3, <2>4
<1>6. b \in UserBooks
  <2>1. /\ accounts'[u].active \in SUBSET OutputId
        /\ accounts'[u].withdrawn \in SUBSET Withdrawn
        /\ accounts'[u].total \in Int /\ accounts'[u].nonce \in Nat
    BY AccountFields DEF TypeOK
  <2>2. b = [active |-> b.active, withdrawn |-> b.withdrawn, total |-> b.total,
             nonce |-> b.nonce, requested |-> b.requested]
    BY DEF BooksAfter
  <2>3. told.requested \in Nat
    BY <1>1 DEF UserBooks
  <2> HIDE DEF b
  <2> QED BY <1>4, <2>1, <2>2, <2>3 DEF UserBooks
<1>7. Tells(b, accounts'[u])
  BY <1>4, <1>5 DEF Tells
<1> HIDE DEF b
<1> QED BY <1>2, <1>3, <1>6, <1>7, OneUserTold

(* The calls of the owner are told, or change nothing of the books.        *)
LEMMA SilentTold ==
  ASSUME TypeOK, TypeOK', IndexInv, Silent,
         NothingTold \/ \E caller \in AccountId : OwnerTold(caller)
  PROVE  IndexInv'
<1>1. index \in Index
  BY DEF IndexInv
<1>2. ASSUME NEW i, i.users = index.users, NEW u \in User
      PROVE  Tells(i.users[u], accounts'[u])
  <2>1. Tells(index.users[u], accounts[u]) /\ index.users[u] \in UserBooks
    BY DEF IndexInv, Index, EventsTellBooks, Tells
  <2>2. accounts[u].queue \in Nat /\ accounts'[u].queue \in Nat
    BY AccountFields DEF TypeOK
  <2>3. index.users[u].requested \in Nat
    BY <2>1 DEF UserBooks
  <2> QED BY <1>2, <2>1, <2>2, <2>3 DEF Tells, Silent, BooksKept
<1>3. CASE NothingTold
  BY <1>1, <1>2, <1>3 DEF NothingTold, IndexInv, EventsTellBooks, Tells
<1>4. ASSUME NEW caller \in AccountId, OwnerTold(caller) PROVE IndexInv'
  <2>1. CASE AcceptChangeOwner(caller) /\ index' = OwnerChangedEvent(caller)
    <3>1. /\ index' \in Index /\ index'.users = index.users
          /\ index'.owner = caller /\ index'.paused = index.paused
      BY <1>1, <2>1 DEF OwnerChangedEvent, Index
    <3>2. owner' = caller /\ config' = config
      BY <2>1 DEF AcceptChangeOwner
    <3> QED BY <1>2, <3>1, <3>2 DEF IndexInv, EventsTellBooks, Tells
  <2>2. CASE SetPaused(caller) /\ index' = PausedEvent(config'.paused)
    <3>1. config'.paused \in BOOLEAN
      BY DEF TypeOK, AdminTypeOK, Config
    <3>2. /\ index' \in Index /\ index'.users = index.users
          /\ index'.owner = index.owner /\ index'.paused = config'.paused
      BY <1>1, <2>2, <3>1 DEF PausedEvent, Index
    <3>3. owner' = owner
      BY <2>2 DEF SetPaused
    <3> QED BY <1>2, <3>2, <3>3 DEF IndexInv, EventsTellBooks, Tells
  <2> QED BY <1>4, <2>1, <2>2 DEF OwnerTold
<1> QED BY <1>3, <1>4

-----------------------------------------------------------------------------
(* The invariant                                                           *)

(* The lists are stored as the accounts say, so that what the reader has   *)
(* seen and what lies ahead of it can be told from the books; the indexer  *)
(* needs the balance only to know that a withdrawal has distinct inputs.   *)
ReadersInv == TypeOK /\ BalanceInv /\ StoredInv /\ ReaderInv /\ IndexInv

(* Every step keeps the invariant.                                         *)
LEMMA ReadersInvStep ==
  ASSUME ReadersInv, [ReadersNext]_allVars
  PROVE  ReadersInv'
<1>1. TypeOK /\ BalanceInv /\ StoredInv /\ ReaderInv /\ IndexInv
  BY DEF ReadersInv
<1>2. TypeOK' /\ BalanceInv'
  BY <1>1, ContractPart, TypeStep, BalanceInvStep
<1>3. ASSUME Silent /\ (NothingTold \/ \E caller \in AccountId : OwnerTold(caller))
      PROVE  StoredInv' /\ ReaderInv' /\ IndexInv'
  <2>1. RecordsKept /\ UNCHANGED <<stored, reader>>
    BY <1>3 DEF Silent, BooksKept, RecordsKept
  <2> QED BY <1>1, <1>2, <1>3, <2>1, KeptLists, SilentTold
<1>4. ASSUME NEW u \in User, NEW amount \in U64, Requested(u, amount)
      PROVE  StoredInv' /\ ReaderInv' /\ IndexInv'
  <2>1. RecordsKept /\ UNCHANGED <<stored, reader>>
    BY <1>1, <1>4, RequestedFacts
  <2> QED BY <1>1, <1>4, <2>1, KeptLists, RequestedTold
<1>5. ASSUME NEW c \in CallId, DepositStored(c)
      PROVE  StoredInv' /\ ReaderInv' /\ IndexInv'
  <2>1. PICK u \in User, o \in OutputId : Deposited(u, o)
    BY <1>1, <1>5, StoredDeposit
  <2> QED BY <1>1, <1>2, <2>1, DepositedList, DepositedReading, DepositedTold
<1>6. ASSUME NEW c \in CallId, WithdrawalStored(c)
      PROVE  StoredInv' /\ ReaderInv' /\ IndexInv'
  <2>1. PICK u \in User, t \in TxId : Withdrew(u, t)
    BY <1>1, <1>6, StoredWithdrawal
  <2> QED BY <1>1, <1>2, <2>1, WithdrewLists, WithdrewReading, WithdrewTold
<1>7. ASSUME ReaderStep PROVE StoredInv' /\ ReaderInv' /\ IndexInv'
  <2>1. UNCHANGED <<vars, stored, index>>
    BY <1>7 DEF ReaderStep, StartReading, ReadPage, StopReading
  <2>2. StoredInv'
    BY <1>1, <2>1 DEF StoredInv, vars
  <2>3. IndexInv'
    BY <1>1, <2>1 DEF IndexInv, EventsTellBooks, vars
  <2>4. ASSUME StopReading PROVE ReaderInv'
    BY <2>4 DEF StopReading, ReaderInv, Idle, Reader
  <2>5. ReaderInv'
    BY <1>1, <1>7, <2>4, StartedReading, ReadingPage DEF ReaderStep
  <2> QED BY <2>2, <2>3, <2>5
<1>8. StoredInv' /\ ReaderInv' /\ IndexInv'
  BY <1>1, <1>3, <1>4, <1>5, <1>6, <1>7, StepKinds
<1> QED BY <1>2, <1>8 DEF ReadersInv

(* The invariant holds at first.                                           *)
LEMMA ReadersInitHolds ==
  ASSUME ReadersInit
  PROVE  ReadersInv
<1>1. Init /\ owner \in AccountId /\ ~config.paused
  BY AdminAssumption DEF ReadersInit, Init, AdminInit
<1>2. TypeOK
  BY <1>1, NewAccountType, TypesAssumption, AdminAssumption, BitHiveAssumption, AccountAssumption
  DEF Init, AdminInit, TypeOK, AdminTypeOK, U64
<1>3. BalanceInv
  BY <1>1, NewAccountBalanced DEF Init, BalanceInv
<1>4. \A u \in User : /\ accounts[u].active = {} /\ accounts[u].withdrawn = {}
                      /\ accounts[u].total = 0 /\ accounts[u].nonce = 0
                      /\ accounts[u].queue = 0
  BY <1>1 DEF Init, NewAccount
<1>5. StoredInv
  <2>1. IsInjective(<<>>) /\ ToSet(<<>>) = {} /\ <<>> \in Seq(OutputId)
    BY DEF IsInjective, ToSet
  <2>2. \A u \in User : WithdrawnIds(accounts[u]) = {}
    BY <1>4 DEF WithdrawnIds
  <2>3. stored = [u \in User |-> [active |-> <<>>, withdrawn |-> <<>>]]
    BY DEF ReadersInit
  <2> QED BY <1>4, <2>1, <2>2, <2>3 DEF StoredInv
<1>6. ReaderInv
  BY DEF ReadersInit, ReaderInv, Reader, Idle
<1>7. IndexInv
  <2> DEFINE b == [active |-> {}, withdrawn |-> {}, total |-> 0, nonce |-> 0,
                   requested |-> 0]
  <2>1. index = [owner |-> owner, paused |-> FALSE, users |-> [u \in User |-> b]]
    BY DEF ReadersInit
  <2>2. b \in UserBooks
    BY DEF UserBooks
  <2>3. \A u \in User : Tells(b, accounts[u])
    BY <1>4 DEF Tells
  <2> HIDE DEF b
  <2>4. /\ index \in Index
        /\ index.owner = owner /\ index.paused = FALSE
        /\ \A u \in User : index.users[u] = b
    BY <1>1, <2>1, <2>2 DEF Index
  <2>5. config.paused = FALSE
    BY <1>1, <1>2 DEF TypeOK, AdminTypeOK, Config
  <2> QED BY <2>3, <2>4, <2>5 DEF IndexInv, EventsTellBooks, Tells
<1> QED BY <1>2, <1>3, <1>5, <1>6, <1>7 DEF ReadersInv

(* The invariant holds in every behaviour.                                 *)
LEMMA ReadersInvariant == ReadersSpec => []ReadersInv
<1>1. ReadersInit => ReadersInv
  BY ReadersInitHolds
<1>2. ReadersInv /\ [ReadersNext]_allVars => ReadersInv'
  BY ReadersInvStep
<1> QED BY <1>1, <1>2, PTL DEF ReadersSpec, allVars

(* Who hears every event knows the books, for any number of users and of   *)
(* deposits that one withdrawal completes.                                 *)
THEOREM EventsCorrect == ReadersSpec => []EventsTellBooks
<1>1. ReadersInv => EventsTellBooks
  BY DEF ReadersInv, IndexInv
<1> QED BY <1>1, ReadersInvariant, PTL

(* Reading page after page lists nothing twice, for any page size and      *)
(* whatever is stored and removed between the pages.                       *)
THEOREM ListedOnceCorrect == ReadersSpec => []NothingListedTwice
<1>1. ReadersInv => NothingListedTwice
  <2>1. IsInjective(<<>>)
    BY DEF IsInjective
  <2> QED BY <2>1 DEF ReadersInv, ReaderInv, ReadingOK, Reader, Idle, NothingListedTwice
<1> QED BY <1>1, ReadersInvariant, PTL

(* Of the active deposits that stay, a reading skips no more than are      *)
(* withdrawn while it goes on.                                             *)
THEOREM SkippedCorrect == ReadersSpec => []SkippedOnlyForRemoved
<1>1. ReadersInv => SkippedOnlyForRemoved
  <2> SUFFICES ASSUME ReadersInv, reader.phase = "done", reader.list = "active"
               PROVE  Cardinality((reader.first \cap accounts[reader.user].active)
                                    \ ToSet(reader.got)) <= reader.removed
    BY DEF SkippedOnlyForRemoved
  <2>1. ReadingOK(reader, accounts[reader.user], Ahead) /\ Ahead = {}
    BY DEF ReadersInv, ReaderInv, Ahead
  <2>2. ToSet(reader.got) \cup Ahead = ToSet(reader.got)
    BY <2>1
  <2> QED BY <2>1, <2>2 DEF ReadingOK
<1> QED BY <1>1, ReadersInvariant, PTL

(* A reading of the withdrawn deposits skips none.                         *)
THEOREM WithdrawnListedCorrect == ReadersSpec => []WithdrawnAllListed
<1>1. ReadersInv => WithdrawnAllListed
  <2> SUFFICES ASSUME ReadersInv, reader.phase = "done", reader.list = "withdrawn"
               PROVE  reader.first \subseteq ToSet(reader.got)
    BY DEF WithdrawnAllListed
  <2>1. ReadingOK(reader, accounts[reader.user], Ahead) /\ Ahead = {}
    BY DEF ReadersInv, ReaderInv, Ahead
  <2> QED BY <2>1 DEF ReadingOK
<1> QED BY <1>1, ReadersInvariant, PTL

=============================================================================
