-------------------------- MODULE MCCompletionLoop --------------------------
(* An instance of CompletionLoop for TLC: deposits of 1, 2 and 3 and every *)
(* account that holds some of them. A queue above the total is included:   *)
(* a multisig withdrawal can leave one.                                    *)
EXTENDS CompletionLoop

Deposit(v) == [type |-> "deposit", user |-> "u1", key |-> "k1", height |-> 5, value |-> v]
Spend(vout) == [prev |-> <<"D", vout>>, seq |-> "csv"]

LoopTx ==
  [D |-> [ins |-> <<>>, outs |-> <<Deposit(1), Deposit(2), Deposit(3)>>, lock |-> 0],
   W |-> [ins |-> <<Spend(1), Spend(0), Spend(2)>>, outs |-> <<>>, lock |-> 0],
   V |-> [ins |-> <<Spend(2), Spend(1)>>, outs |-> <<>>, lock |-> 0]]

Outputs == {<<"D", v>> : v \in 0..2}

LoopBefore ==
  {[NewAccount EXCEPT
      !.active = as, !.total = MapThenSumSet(Value, as),
      !.withdrawn = {[id |-> o, by |-> "V"] : o \in ws},
      !.queue = q, !.startTs = IF q > 0 THEN 1 ELSE 0, !.nonce = 1] :
     as \in SUBSET Outputs, ws \in {{}, {<<"D", 2>>}}, q \in 0..7}

(* a withdrawn deposit is not active *)
LoopAccounts == {a \in LoopBefore : a.active \cap WithdrawnIds(a) = {}}

=============================================================================
