------------------------ MODULE CompletionLoopProofs ------------------------
(***************************************************************************)
(* Proof that the completion loop computes what Account takes as one       *)
(* operator: for every account, transaction and set of multisig inputs.    *)
(***************************************************************************)
EXTENDS CompletionLoop, AccountProofs

Inputs == DepositInputs(start, tx)
Done == Inputs \ todo

(* The total that is left after the inputs in D *)
LeftBy(D) == start.total - Sum(InputValues(tx), D)
Left(i) == start.total - InputSum(start, tx, i)

(* queue_withdrawal_amount after the inputs in D *)
QueueBy(D) ==
  LET solo == D \ multisig
      left == Left(Max(solo))
  IN  IF solo = {} \/ start.queue <= left THEN start.queue ELSE left

Outputs(D) == {Tx[tx].ins[i].prev : i \in D}

(* The account after the inputs in D *)
AccountBy(D) ==
  [start EXCEPT
     !.total = LeftBy(D),
     !.queue = QueueBy(D),
     !.startTs = IF QueueBy(D) = 0 /\ ~ D \subseteq multisig THEN 0 ELSE start.startTs,
     !.active = start.active \ Outputs(D),
     !.withdrawn = start.withdrawn \cup {[id |-> o, by |-> tx] : o \in Outputs(D)}]

(* The loop takes the inputs in order; what is done has succeeded, and     *)
(* makes up the account; if it has panicked, the whole cannot be done.     *)
LoopInv ==
  /\ start \in Before /\ tx \in TxId /\ DistinctInputs(tx)
  /\ multisig \in SUBSET DOMAIN Tx[tx].ins
  /\ todo \subseteq Inputs
  /\ \A i \in Done, j \in todo : i < j
  /\ panicked \in BOOLEAN
  /\ panicked => ~CanCompleteWithdrawals(start, tx)
  /\ ~panicked =>
       /\ Inputs # {}
       /\ account = AccountBy(Done)
       /\ Outputs(Done) \cap WithdrawnIds(start) = {}
       /\ \A i \in Done : Left(i) \in U64

-----------------------------------------------------------------------------
(* The sums *)

(* Input numbers are finitely many, and those of deposits are worth a      *)
(* natural number each.                                                    *)
LEMMA InputFacts ==
  ASSUME LoopInv
  PROVE  /\ start \in AccountType
         /\ Inputs \subseteq DOMAIN Tx[tx].ins /\ IsFiniteSet(Inputs)
         /\ DOMAIN Tx[tx].ins = 1 .. Len(Tx[tx].ins) /\ Len(Tx[tx].ins) \in Nat
         /\ \A i \in Inputs : /\ Tx[tx].ins[i].prev \in start.active
                              /\ InputValues(tx)[i] = Value(Tx[tx].ins[i].prev)
                              /\ Value(Tx[tx].ins[i].prev) \in Nat
<1>1. start \in AccountType /\ \A o \in start.active : HasOut(o[1], o[2])
  BY CompletionLoopAssumption DEF LoopInv
<1>2. DOMAIN Tx[tx].ins = 1 .. Len(Tx[tx].ins) /\ Len(Tx[tx].ins) \in Nat
  BY DepositTxAssumption DEF LoopInv
<1>3. Inputs \in SUBSET DOMAIN Tx[tx].ins
  BY DEF Inputs, DepositInputs
<1>4. IsFiniteSet(Inputs)
  <2> DEFINE n == Len(Tx[tx].ins)
  <2>1. n \in Nat /\ Inputs \in SUBSET (1 .. n)
    BY <1>2, <1>3
  <2> HIDE DEF n
  <2>2. IsFiniteSet(1 .. n)
    BY ONLY <2>1, FS_Interval
  <2> QED BY ONLY <2>1, <2>2, FS_Subset
<1>5. ASSUME NEW o \in start.active PROVE Value(o) \in Nat
  <2>1. o[1] \in TxId /\ Usize(o[2]) + 1 \in DOMAIN Tx[o[1]].outs
    BY <1>1 DEF AccountType, OutputId, HasOut
  <2> QED BY <2>1, DepositTxAssumption DEF Value, Out
<1>6. \A i \in Inputs : Tx[tx].ins[i].prev \in start.active
  BY DEF Inputs, DepositInputs
<1> QED BY <1>1, <1>2, <1>3, <1>4, <1>5, <1>6 DEF InputValues

(* What is left only falls, from one set of inputs to a greater one.       *)
LEMMA LeftFalls ==
  ASSUME LoopInv, NEW D \in SUBSET Inputs, NEW i \in Inputs \ D
  PROVE  /\ LeftBy(D) \in Int
         /\ LeftBy(D \cup {i}) = LeftBy(D) - Value(Tx[tx].ins[i].prev)
         /\ Value(Tx[tx].ins[i].prev) \in Nat
<1>1. IsFiniteSet(D) /\ \A j \in D \cup {i} : InputValues(tx)[j] \in Nat
  BY InputFacts, FS_Subset
<1>2. Sum(InputValues(tx), D \cup {i}) = InputValues(tx)[i] + Sum(InputValues(tx), D)
  BY <1>1, SumAdd
<1>3. Sum(InputValues(tx), D) \in Nat
  BY <1>1, SumType
<1>4. start.total \in Nat
  BY InputFacts, AccountAssumption DEF AccountType, U64
<1> QED BY <1>2, <1>3, <1>4, InputFacts DEF LeftBy

(* Left counts the inputs up to i.                                         *)
LEMMA LeftUpto ==
  ASSUME LoopInv, NEW i
  PROVE  Left(i) = LeftBy({j \in Inputs : j <= i})
<1>1. tx \in TxId
  BY DEF LoopInv
<1>2. InputsUpto(start, tx, i) = {j \in Inputs : j <= i}
  BY DEF InputsUpto, Inputs
<1> QED BY <1>1, <1>2, InputFold DEF Left, LeftBy

(* A set of input numbers has a least one.                                 *)
LEMMA MinOfInputs ==
  ASSUME NEW S \in SUBSET Nat, S # {}
  PROVE  Min(S) \in S /\ \A i \in S : Min(S) <= i
<1>1. \E n \in S : \A m \in S : n <= m
  BY LeastNat
<1> QED BY <1>1 DEF Min

-----------------------------------------------------------------------------
(* The step *)

(* The next input follows what is done, and what is done with it are the   *)
(* inputs up to it.                                                        *)
LEMMA NextInput ==
  ASSUME LoopInv, todo # {}
  PROVE  /\ Min(todo) \in todo /\ Min(todo) \in Inputs /\ Min(todo) \notin Done
         /\ Done \cup {Min(todo)} = {j \in Inputs : j <= Min(todo)}
         /\ Inputs \ (todo \ {Min(todo)}) = Done \cup {Min(todo)}
         /\ \A j \in Done : j < Min(todo)
         /\ \A j \in todo \ {Min(todo)} : Min(todo) < j
<1> DEFINE i == Min(todo)
<1>1. todo \subseteq Inputs /\ Inputs \subseteq Nat
  BY InputFacts DEF LoopInv
<1>2. i \in todo /\ \A j \in todo : i <= j
  BY <1>1, MinOfInputs
<1> HIDE DEF i
<1>3. \A j \in Done : j < i
  BY <1>2 DEF LoopInv
<1>4. \A j \in todo \ {i} : i < j
  BY <1>1, <1>2
<1>5. \A j \in Inputs : j \in Done \/ j \in todo
  BY DEF Done
<1>6. Done \cup {i} = {j \in Inputs : j <= i}
  <2>1. \A j \in Done \cup {i} : j \in Inputs /\ j <= i
    BY <1>1, <1>2, <1>3 DEF Done
  <2>2. ASSUME NEW j \in Inputs, j <= i, j # i PROVE j \in Done
    BY <1>1, <1>2, <1>4, <1>5, <2>2
  <2> QED BY <2>1, <2>2
<1> QED BY <1>1, <1>2, <1>3, <1>4, <1>6 DEF Done, i

(* The largest solo input so far is the new one, if that is solo.          *)
LEMMA NextQueue ==
  ASSUME LoopInv, todo # {}, NEW i, i = Min(todo)
  PROVE  QueueBy(Done \cup {i}) =
           IF i \in multisig \/ QueueBy(Done) <= LeftBy(Done \cup {i})
           THEN QueueBy(Done) ELSE LeftBy(Done \cup {i})
<1>1. /\ i \in Inputs \ Done
      /\ Done \cup {i} = {j \in Inputs : j <= i}
      /\ \A j \in Done : j < i
  BY NextInput
<1>2. Done \in SUBSET Inputs /\ Inputs \subseteq DOMAIN Tx[tx].ins /\ Inputs \subseteq Nat
  BY InputFacts DEF Done
<1>3. start.queue \in Nat
  BY InputFacts, AccountAssumption DEF AccountType, U64
<1>4. CASE i \in multisig
  <2>1. (Done \cup {i}) \ multisig = Done \ multisig
    BY <1>4
  <2> QED BY <1>4, <2>1 DEF QueueBy
<1>5. CASE i \notin multisig
  <2> DEFINE solo == (Done \cup {i}) \ multisig
  <2>1. Max(solo) = i
    <3>1. i \in solo /\ \A j \in solo : i >= j
      BY <1>1, <1>2, <1>5
    <3> DEFINE m == Max(solo)
    <3>2. m \in solo /\ \A j \in solo : m >= j
      BY <3>1 DEF Max
    <3>3. m \in Nat /\ i \in Nat
      BY <1>1, <1>2, <3>2
    <3> HIDE DEF m, solo
    <3>4. m >= i /\ i >= m
      BY <3>1, <3>2
    <3> QED BY <3>3, <3>4 DEF m
  <2>2. Left(i) = LeftBy(Done \cup {i})
    BY <1>1, LeftUpto
  <2>3. solo # {}
    BY <1>5
  <2>4. QueueBy(Done \cup {i}) =
          IF start.queue <= LeftBy(Done \cup {i}) THEN start.queue ELSE LeftBy(Done \cup {i})
    BY <2>1, <2>2, <2>3 DEF QueueBy
  <2>5. LeftBy(Done) \in Int /\ LeftBy(Done \cup {i}) \in Int
        /\ LeftBy(Done \cup {i}) <= LeftBy(Done)
    BY <1>1, <1>2, LeftFalls
  <2>6. CASE Done \ multisig = {}
    BY <1>5, <2>4, <2>6 DEF QueueBy
  <2>7. CASE Done \ multisig # {}
    <3> DEFINE m == Max(Done \ multisig)
               U == {j \in Inputs : j <= m}
    <3>1. m \in Done
      <4>1. Done \ multisig \in SUBSET (1 .. Len(Tx[tx].ins)) /\ Len(Tx[tx].ins) \in Nat
        BY <1>2, InputFacts
      <4>2. m \in Done \ multisig
        BY <2>7, <4>1, MaxOfInputs
      <4> QED BY <4>2
    <3>2. QueueBy(Done) = IF start.queue <= Left(m) THEN start.queue ELSE Left(m)
      BY <2>7 DEF QueueBy
    <3> HIDE DEF m
    <3>3. U \subseteq Done \cup {i} /\ i \notin U
      <4>1. m < i /\ m \in Nat /\ i \in Nat
        BY <1>1, <1>2, <3>1
      <4>2. ASSUME NEW j \in U PROVE j \in Inputs /\ j <= i /\ j # i
        <5>1. j \in Inputs /\ j <= m /\ j \in Nat
          BY <1>2
        <5> QED BY <4>1, <5>1
      <4> QED BY <1>1, <4>2
    <3>4. LeftBy(U) \in Int /\ LeftBy(Done \cup {i}) <= LeftBy(U)
      <4>1. IsFiniteSet(Done \cup {i}) /\ \A j \in Done \cup {i} : InputValues(tx)[j] \in Nat
        BY <1>1, <1>2, InputFacts, FS_Subset
      <4>2. Sum(InputValues(tx), Done \cup {i}) =
              Sum(InputValues(tx), U) + Sum(InputValues(tx), (Done \cup {i}) \ U)
        BY <3>3, <4>1, SumSplit
      <4>3. IsFiniteSet(U) /\ IsFiniteSet((Done \cup {i}) \ U)
        BY <3>3, <4>1, FS_Subset
      <4>4. Sum(InputValues(tx), U) \in Nat /\ Sum(InputValues(tx), (Done \cup {i}) \ U) \in Nat
        <5>1. /\ \A j \in U : InputValues(tx)[j] \in Nat
              /\ \A j \in (Done \cup {i}) \ U : InputValues(tx)[j] \in Nat
          BY <3>3, <4>1
        <5> HIDE DEF U
        <5> QED BY <4>3, <5>1, SumType
      <4>5. start.total \in Nat
        BY InputFacts, AccountAssumption DEF AccountType, U64
      <4> HIDE DEF U
      <4> QED BY <4>2, <4>4, <4>5 DEF LeftBy
    <3>5. Left(m) = LeftBy(U)
      BY LeftUpto
    <3> HIDE DEF U
    <3> QED BY <1>3, <1>5, <2>4, <2>5, <3>2, <3>4, <3>5
  <2> QED BY <2>6, <2>7
<1> QED BY <1>4, <1>5

(* complete_withdrawal for the next input, if it goes through, makes what  *)
(* is done one input more.                                                 *)
LEMMA NextAccount ==
  ASSUME LoopInv, ~panicked, todo # {}, NEW i, i = Min(todo),
         account.total - Value(Tx[tx].ins[i].prev) \in U64
  PROVE  CompleteWithdrawal(account, Tx[tx].ins[i].prev, i \in multisig) =
           AccountBy(Done \cup {i})
<1> DEFINE o == Tx[tx].ins[i].prev
           D == Done \cup {i}
<1>1. account = AccountBy(Done) /\ start \in AccountType
  BY InputFacts DEF LoopInv
<1>2. i \in Inputs \ Done /\ Done \in SUBSET Inputs
  BY NextInput DEF Done
<1>3. /\ account.total = LeftBy(Done) /\ account.queue = QueueBy(Done)
      /\ account.startTs = IF QueueBy(Done) = 0 /\ ~ Done \subseteq multisig
                           THEN 0 ELSE start.startTs
      /\ account.active = start.active \ Outputs(Done)
      /\ account.withdrawn =
           start.withdrawn \cup {[id |-> p, by |-> tx] : p \in Outputs(Done)}
  BY <1>1 DEF AccountBy, AccountType
<1>4. LeftBy(D) = LeftBy(Done) - Value(o)
  BY <1>2, LeftFalls
<1>5. QueueBy(D) = IF i \in multisig \/ QueueBy(Done) <= LeftBy(D) THEN QueueBy(Done)
                   ELSE LeftBy(D)
  BY NextQueue
<1>6. Outputs(D) = Outputs(Done) \cup {o}
  BY DEF Outputs
<1>7. D \subseteq multisig <=> Done \subseteq multisig /\ i \in multisig
  OBVIOUS
<1>8. LeftBy(D) \in U64 /\ LeftBy(D) >= 0
  BY <1>3, <1>4, AccountAssumption DEF U64
<1>9. QueueBy(Done) = 0 => QueueBy(D) = 0
  BY <1>5, <1>8
<1> DEFINE startTs == IF QueueBy(D) = 0 /\ ~ D \subseteq multisig THEN 0 ELSE start.startTs
           withdrawn == start.withdrawn \cup {[id |-> p, by |-> tx] : p \in Outputs(D)}
<1>10. (IF i \notin multisig /\ QueueBy(D) = 0 THEN 0 ELSE account.startTs) = startTs
  BY <1>3, <1>5, <1>7, <1>9
<1>11. account.withdrawn \cup {[id |-> o, by |-> tx]} = withdrawn
  BY <1>3, <1>6
<1>12. account.active \ {o} = start.active \ Outputs(D)
  BY <1>3, <1>6
<1> HIDE DEF o, D, startTs, withdrawn
<1>13. CompleteWithdrawal(account, o, i \in multisig) =
         [account EXCEPT !.total = LeftBy(D), !.queue = QueueBy(D), !.startTs = startTs,
                         !.active = start.active \ Outputs(D), !.withdrawn = withdrawn]
  BY <1>3, <1>4, <1>5, <1>10, <1>11, <1>12 DEF CompleteWithdrawal
<1>14. CompleteWithdrawal(account, o, i \in multisig) =
         [start EXCEPT !.total = LeftBy(D), !.queue = QueueBy(D), !.startTs = startTs,
                       !.active = start.active \ Outputs(D), !.withdrawn = withdrawn]
  BY <1>1, <1>13 DEF AccountBy, AccountType
<1> QED BY <1>14 DEF AccountBy, o, D, startTs, withdrawn

(* The outputs that are withdrawn so far.                                  *)
LEMMA WithdrawnBy ==
  ASSUME NEW D, start \in AccountType
  PROVE  WithdrawnIds(AccountBy(D)) = WithdrawnIds(start) \cup Outputs(D)
<1> DEFINE done == {[id |-> o, by |-> tx] : o \in Outputs(D)}
<1>1. AccountBy(D).withdrawn = start.withdrawn \cup done
  BY DEF AccountBy, AccountType
<1>2. {w.id : w \in done} = Outputs(D)
  <2>1. \A w \in done : w.id \in Outputs(D)
    OBVIOUS
  <2>2. ASSUME NEW o \in Outputs(D) PROVE \E w \in done : w.id = o
    <3>1. [id |-> o, by |-> tx] \in done /\ [id |-> o, by |-> tx].id = o
      OBVIOUS
    <3> QED BY <3>1
  <2> HIDE DEF done
  <2> QED BY <2>1, <2>2
<1> HIDE DEF done
<1> QED BY <1>1, <1>2 DEF WithdrawnIds

(* A step keeps the invariant: the input goes through, or the panic is one *)
(* that the closed form foresees.                                          *)
LEMMA LoopInvStep ==
  ASSUME LoopInv, [Step]_loopVars
  PROVE  LoopInv'
<1>1. CASE UNCHANGED loopVars
  BY <1>1 DEF LoopInv, loopVars, Inputs, Done, Outputs, Left, AccountBy, LeftBy, QueueBy
<1>2. CASE Step
  <2> DEFINE i == Min(todo)
             o == Tx[tx].ins[i].prev
             ok == /\ o \in account.active
                   /\ account.total - Value(o) \in U64
                   /\ o \notin WithdrawnIds(account)
  <2>1. /\ ~panicked /\ todo # {} /\ todo' = todo \ {i}
        /\ start' = start /\ tx' = tx /\ multisig' = multisig
        /\ ok => account' = CompleteWithdrawal(account, o, i \in multisig) /\ ~panicked'
        /\ ~ok => panicked'
        /\ panicked' \in BOOLEAN
    BY <1>2 DEF Step
  <2>2. /\ i \in todo /\ i \in Inputs /\ i \notin Done
        /\ Done \cup {i} = {j \in Inputs : j <= i}
        /\ Inputs \ (todo \ {i}) = Done \cup {i}
        /\ \A j \in Done : j < i
        /\ \A j \in todo \ {i} : i < j
    BY <2>1, NextInput
  <2>3. /\ account = AccountBy(Done) /\ start \in AccountType
        /\ Outputs(Done) \cap WithdrawnIds(start) = {}
        /\ \A j \in Done : Left(j) \in U64
        /\ todo \subseteq Inputs
    BY <2>1, InputFacts DEF LoopInv
  <2>4. Inputs' = Inputs /\ Done' = Done \cup {i}
    BY <2>1, <2>2 DEF Inputs, Done
  <2>5. i \in DOMAIN Tx[tx].ins /\ o \in start.active
    BY <2>2, InputFacts
  <2>6. o \notin Outputs(Done)
    <3> SUFFICES ASSUME NEW j \in Done, Tx[tx].ins[j].prev = o PROVE FALSE
      BY DEF Outputs
    <3>1. j \in DOMAIN Tx[tx].ins /\ j # i
      BY <2>2, InputFacts DEF Done
    <3> QED BY <2>5, <3>1 DEF LoopInv, DistinctInputs
  <2>7. account.active = start.active \ Outputs(Done) /\ account.total = LeftBy(Done)
    BY <2>3 DEF AccountBy, AccountType
  <2>8. WithdrawnIds(account) = WithdrawnIds(start) \cup Outputs(Done)
    BY <2>3, WithdrawnBy
  <2>9. Left(i) = account.total - Value(o)
    <3>1. Left(i) = LeftBy(Done \cup {i})
      BY <2>2, LeftUpto
    <3>2. LeftBy(Done \cup {i}) = LeftBy(Done) - Value(o)
      <4>1. Done \in SUBSET Inputs
        BY DEF Done
      <4> QED BY <2>2, <4>1, LeftFalls
    <3> QED BY <2>7, <3>1, <3>2
  <2>10. ok => account' = AccountBy(Done \cup {i})
    BY <2>1, NextAccount
  <2> HIDE DEF i, o, ok
  <2>11. CASE ok
    <3>1. account' = AccountBy(Done)'
      <4>1. AccountBy(Done)' = AccountBy(Done \cup {i})
        BY <2>1, <2>4 DEF AccountBy, LeftBy, QueueBy, Left, Outputs
      <4> QED BY <2>10, <2>11, <4>1
    <3>2. Outputs(Done)' = Outputs(Done) \cup {o}
      BY <2>1, <2>4 DEF Outputs, o
    <3>3. Outputs(Done)' \cap WithdrawnIds(start) = {}
      BY <2>3, <2>8, <2>11, <3>2 DEF ok
    <3>4. \A j \in Done' : Left(j)' \in U64
      BY <2>1, <2>3, <2>4, <2>9, <2>11 DEF Left, ok
    <3>5. \A j \in Done', k \in todo' : j < k
      BY <2>1, <2>2, <2>4 DEF LoopInv
    <3>6. ~panicked'
      BY <2>1, <2>11
    <3> QED BY <2>1, <2>2, <2>3, <2>4, <3>1, <3>3, <3>4, <3>5, <3>6 DEF LoopInv
  <2>12. CASE ~ok
    <3>1. o \in account.active
      BY <2>5, <2>6, <2>7
    <3>2. ASSUME account.total - Value(o) \notin U64
          PROVE  ~CanCompleteWithdrawals(start, tx)
      BY <2>5, <2>9, <3>2 DEF CanCompleteWithdrawals, Left
    <3>3. ASSUME o \in WithdrawnIds(account)
          PROVE  ~CanCompleteWithdrawals(start, tx)
      <4>1. o \in WithdrawnIds(start)
        BY <2>6, <2>8, <3>3
      <4>2. o \in Spent(start, tx)
        BY <2>2 DEF Spent, Inputs, o
      <4> QED BY <4>1, <4>2 DEF CanCompleteWithdrawals
    <3>4. ~CanCompleteWithdrawals(start, tx)
      BY <2>12, <3>1, <3>2, <3>3 DEF ok
    <3>5. \A j \in Done', k \in todo' : j < k
      BY <2>1, <2>2, <2>4 DEF LoopInv
    <3> QED BY <2>1, <2>2, <2>3, <2>4, <2>12, <3>4, <3>5 DEF LoopInv
  <2> QED BY <2>11, <2>12
<1> QED BY <1>1, <1>2

(* At the end of the loop the invariant is the closed form.                *)
LEMMA LoopEnd ==
  ASSUME LoopInv, ~panicked, todo = {}
  PROVE  /\ CanCompleteWithdrawals(start, tx)
         /\ account = CompleteWithdrawals(start, tx, multisig)
<1>1. Done = Inputs
  BY DEF Done
<1>2. /\ account = AccountBy(Inputs) /\ Inputs # {}
      /\ Outputs(Inputs) \cap WithdrawnIds(start) = {}
      /\ \A i \in Inputs : Left(i) \in U64
  BY <1>1 DEF LoopInv
<1>3. Outputs(Inputs) = Spent(start, tx)
  BY DEF Outputs, Spent, Inputs
<1>4. ASSUME NEW i \in DOMAIN Tx[tx].ins PROVE Left(i) \in U64
  <2> DEFINE U == {j \in Inputs : j <= i}
  <2>0. i \in Nat /\ Inputs \subseteq Nat
    BY InputFacts
  <2>1. CASE U = {}
    <3>1. LeftBy(U) = start.total
      <4>1. Sum(InputValues(tx), {}) = 0
        BY FS_EmptySet, SumStep
      <4>2. start.total \in Nat
        BY InputFacts, AccountAssumption DEF AccountType, U64
      <4> QED BY <2>1, <4>1, <4>2 DEF LeftBy
    <3>2. start.total \in U64
      BY InputFacts DEF AccountType
    <3> QED BY <3>1, <3>2, LeftUpto
  <2>2. CASE U # {}
    <3> DEFINE m == Max(U)
    <3>1. U \in SUBSET (1 .. Len(Tx[tx].ins)) /\ Len(Tx[tx].ins) \in Nat
      BY InputFacts
    <3>2. m \in U /\ \A j \in U : j <= m
      <4>1. Max(U) \in U /\ \A j \in U : Max(U) >= j
        BY <2>2, <3>1, MaxOfInputs
      <4> HIDE DEF U
      <4> QED BY <2>0, <3>1, <4>1
    <3> HIDE DEF m
    <3>4. U = {j \in Inputs : j <= m}
      <4>1. m \in Nat /\ m <= i
        BY <2>0, <3>2
      <4>2. ASSUME NEW j \in Inputs, j <= m PROVE j <= i
        BY <2>0, <4>1, <4>2
      <4> QED BY <3>2, <4>2
    <3>5. Left(i) = Left(m)
      BY <3>4, LeftUpto
    <3> QED BY <1>2, <3>2, <3>5
  <2> QED BY <2>1, <2>2
<1>5. CanCompleteWithdrawals(start, tx)
  BY <1>2, <1>3, <1>4 DEF CanCompleteWithdrawals, Left, Inputs
<1>6. LeftBy(Inputs) = start.total - DepositInputSum(start, tx)
  <2>1. {j \in Inputs : j <= Len(Tx[tx].ins)} = Inputs
    BY InputFacts
  <2> QED BY <2>1, LeftUpto DEF Left, DepositInputSum
<1>7. QueueBy(Inputs) = QueueAfter(start, tx, multisig)
  BY DEF QueueBy, QueueAfter, Inputs, Left
<1>8. AccountBy(Inputs) = CompleteWithdrawals(start, tx, multisig)
  BY <1>3, <1>6, <1>7 DEF AccountBy, CompleteWithdrawals, Inputs
<1> QED BY <1>2, <1>5, <1>8

(* Whatever account the loop starts from, and whichever inputs are         *)
(* multisig, it computes the closed form that Account takes for it, and it *)
(* panics if and only if Account says that it does.                        *)
THEOREM LoopCorrect == LoopSpec => []LoopComputesCompletion
<1>1. LoopInit => LoopInv
  <2> SUFFICES ASSUME LoopInit PROVE LoopInv
    OBVIOUS
  <2>1. /\ start \in Before /\ tx \in TxId /\ DistinctInputs(tx)
        /\ multisig \in SUBSET DOMAIN Tx[tx].ins
        /\ todo = Inputs /\ Done = {} /\ account = start
        /\ panicked \in BOOLEAN /\ (panicked <=> Inputs = {})
    BY DEF LoopInit, Inputs, Done
  <2>2. start \in AccountType
    BY <2>1, CompletionLoopAssumption
  <2>3. panicked => ~CanCompleteWithdrawals(start, tx)
    BY <2>1 DEF CanCompleteWithdrawals, Inputs
  <2>4. account = AccountBy({})
    <3>1. Sum(InputValues(tx), {}) = 0
      BY FS_EmptySet, SumStep
    <3>2. start.total \in Nat
      BY <2>2, AccountAssumption DEF AccountType, U64
    <3>3. LeftBy({}) = start.total /\ QueueBy({}) = start.queue /\ Outputs({}) = {}
      BY <3>1, <3>2 DEF LeftBy, QueueBy, Outputs
    <3> QED BY <2>1, <2>2, <3>3 DEF AccountBy, AccountType
  <2> QED BY <2>1, <2>3, <2>4 DEF LoopInv, Outputs
<1>2. LoopInv /\ [Step]_loopVars => LoopInv'
  BY LoopInvStep
<1>3. LoopInv => LoopComputesCompletion
  BY LoopEnd DEF LoopInv, LoopComputesCompletion
<1> QED BY <1>1, <1>2, <1>3, PTL DEF LoopSpec

=============================================================================
