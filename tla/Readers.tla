------------------------------ MODULE Readers ------------------------------
(***************************************************************************)
(* Those who read the contract while it runs: an indexer that rebuilds the *)
(* books from the events (events.rs) alone, and a reader that lists the    *)
(* deposits of a user page by page (view.rs), one view call per page, with *)
(* any step of the contract in between.                                    *)
(*                                                                         *)
(* The pages are cut from near_sdk's UnorderedMap, which keeps its values  *)
(* in a vector: insert appends, and remove puts the last value into the    *)
(* place of the removed one. stored holds these vectors.                   *)
(***************************************************************************)
EXTENDS BitHiveProperties, SequencesExt

CONSTANT Limit   \* the page size of the reader

ASSUME ReadersAssumption == Limit \in Nat \ {0}

VARIABLES
  stored,  \* for each user, active and withdrawn deposits in storage order
  index,   \* the books of the indexer
  reader   \* the reading in progress

readersVars == <<stored, index, reader>>

-----------------------------------------------------------------------------
(* near_sdk::collections::UnorderedMap *)

SwapRemove(values, v) ==
  LET at == CHOOSE i \in DOMAIN values : values[i] = v
      last == Len(values)
  IN  SubSeq([values EXCEPT ![at] = values[last]], 1, last - 1)

-----------------------------------------------------------------------------
(* What the indexer makes of each event. QueueWithdrawal tells the amount  *)
(* that is added; nothing tells when a PSBT uses the queue up.             *)

DepositEvent(u, o) ==
  [index EXCEPT !.users[u].active = @ \cup {o}, !.users[u].total = @ + Value(o)]

QueueWithdrawalEvent(u, amount) ==
  [index EXCEPT !.users[u].nonce = @ + 1, !.users[u].requested = @ + amount]

WithdrawnEvent(idx, u, o, t) ==
  [idx EXCEPT !.users[u].active = @ \ {o},
              !.users[u].withdrawn = @ \cup {[id |-> o, by |-> t]},
              !.users[u].total = @ - Value(o)]

OwnerChangedEvent(newOwner) == [index EXCEPT !.owner = newOwner]
PausedEvent(paused) == [index EXCEPT !.paused = paused]

-----------------------------------------------------------------------------
(* The steps of the contract, with what they store and the events they     *)
(* emit.                                                                   *)

Unread == UNCHANGED reader

DepositStored(c) ==
  LET t == calls[c].tx
      u == DepositUser(t, calls[c].embed)
      o == DepositId(t, calls[c].embed)
  IN  /\ DepositSaved(c)
      /\ stored' = [stored EXCEPT ![u].active = Append(@, o)]
      /\ index' = DepositEvent(u, o)
      /\ Unread

QueueTold(u, amount) ==
  /\ index' = QueueWithdrawalEvent(u, amount)
  /\ UNCHANGED <<stored, reader>>

(* The deposits that t completes, in the order of its inputs *)
Completed(a, t) ==
  LET inputs == DepositInputs(a, t)
      upto(i) == {j \in inputs : j <= i}
      nth(k) == CHOOSE i \in inputs : Cardinality(upto(i)) = k
  IN  [k \in 1 .. Cardinality(inputs) |-> Tx[t].ins[nth(k)].prev]

CountRemoved(u, done) ==
  reader' = [reader EXCEPT
               !.removed = IF reader.phase = "reading" /\ reader.user = u
                           THEN @ + Len(done) ELSE @]

(* mistake: one event for the transaction, not one for each deposit *)
StoredFirstTold(c) ==
  LET u == calls[c].user
      t == calls[c].tx
      done == Completed(accounts[u], t)
  IN  /\ WithdrawalCompleted(c)
      /\ stored' = [stored EXCEPT
                      ![u].active = FoldLeft(SwapRemove, @, done),
                      ![u].withdrawn = @ \o done]
      /\ index' = WithdrawnEvent(index, u, Head(done), t)
      /\ CountRemoved(u, done)

(* complete_withdrawal for each deposit: remove, insert, emit *)
WithdrawalStored(c) ==
  LET u == calls[c].user
      t == calls[c].tx
      done == Completed(accounts[u], t)
  IN  /\ WithdrawalCompleted(c)
      /\ stored' = [stored EXCEPT
                      ![u].active = FoldLeft(SwapRemove, @, done),
                      ![u].withdrawn = @ \o done]
      /\ index' = FoldLeft(LAMBDA idx, o : WithdrawnEvent(idx, u, o, t), index, done)
      /\ CountRemoved(u, done)

(* every other handler and callback outcome emits nothing of the books *)
Untold(c) ==
  /\ Handler(c) \/ (Callback(c) /\ UNCHANGED accounts)
  /\ UNCHANGED readersVars

(* accept_change_owner and set_paused emit; the other calls of the owner   *)
(* do not, nor does a fetch of the root key.                               *)
OwnerTold(caller) ==
  \/ AcceptChangeOwner(caller) /\ index' = OwnerChangedEvent(caller)
  \/ SetPaused(caller) /\ index' = PausedEvent(config'.paused)

OwnerUntold(caller) ==
  /\ OwnerStep(caller)
  /\ ~AcceptChangeOwner(caller)
  /\ ~SetPaused(caller)
  /\ UNCHANGED index

AdminStep ==
  /\ \/ \E caller \in AccountId : OwnerTold(caller) \/ OwnerUntold(caller)
     \/ \E s \in SyncId : /\ SyncRootPubkey(s) \/ OnSyncRootPubkey(s)
                          /\ UNCHANGED index
  /\ UNCHANGED <<contractVars, chainVars, stored, reader>>

(* Every step of Next *)
ContractStep ==
  \/ \E c \in CallId :
       \/ DepositStored(c) \/ WithdrawalStored(c) \/ Untold(c)
       \/ Bip322Accepted(c) /\ QueueTold(calls[c].user, calls[c].amount)
  \/ \E u \in User, amount \in Amount :
       QueueWithdrawalEcdsa(u, amount) /\ QueueTold(u, amount)
  \/ AdminStep
  \/ (Tick \/ \E t \in TxId : Mine(t)) /\ UNCHANGED readersVars

-----------------------------------------------------------------------------
(* The reader: list_user_active_deposits and list_user_withdrawn_deposits  *)
(* with a growing offset, until a page is not full.                        *)

Idle == [phase |-> "idle", user |-> None, list |-> "none", offset |-> 0,
         got |-> <<>>, first |-> {}, removed |-> 0]

(* mistake: the page ends one later than it should *)
PageOverlapping(values, offset) ==
  SubSeq(values, offset + 1, Min({Len(values), offset + Limit + 1}))

(* mistake: the page ends one earlier than it should *)
PageShort(values, offset) ==
  SubSeq(values, offset + 1, Min({Len(values), offset + Limit - 1}))

(* offset .. min(len, offset + limit) *)
Page(values, offset) ==
  SubSeq(values, offset + 1, Min({Len(values), offset + Limit}))

StartReading(u, list) ==
  /\ reader.phase = "idle"
  /\ reader' = [Idle EXCEPT !.phase = "reading", !.user = u, !.list = list,
                            !.first = ToSet(stored[u][list])]
  /\ UNCHANGED <<vars, stored, index>>

ReadPage ==
  LET page == Page(stored[reader.user][reader.list], reader.offset)
  IN  /\ reader.phase = "reading"
      /\ reader' = [reader EXCEPT
                      !.got = @ \o page,
                      !.offset = @ + Limit,
                      !.phase = IF Len(page) < Limit THEN "done" ELSE "reading"]
      /\ UNCHANGED <<vars, stored, index>>

StopReading ==
  /\ reader.phase = "done"
  /\ reader' = Idle
  /\ UNCHANGED <<vars, stored, index>>

-----------------------------------------------------------------------------

ReadersInit ==
  /\ Init
  /\ stored = [u \in User |-> [active |-> <<>>, withdrawn |-> <<>>]]
  /\ index = [owner |-> owner, paused |-> FALSE,
              users |-> [u \in User |-> [active |-> {}, withdrawn |-> {}, total |-> 0,
                                         nonce |-> 0, requested |-> 0]]]
  /\ reader = Idle

ReadersNext ==
  \/ ContractStep
  \/ \E u \in User, list \in {"active", "withdrawn"} : StartReading(u, list)
  \/ ReadPage
  \/ StopReading

ReadersSpec == ReadersInit /\ [][ReadersNext]_<<vars, readersVars>>

-----------------------------------------------------------------------------
(* The events tell the books: who holds which deposits, what was withdrawn *)
(* by which transaction, the total and the nonce of every account, the     *)
(* owner and the pause, also when one withdrawal completes several         *)
(* deposits. Of the queue they tell only a bound, what was ever requested. *)
EventsTellBooks ==
  /\ index.owner = owner
  /\ index.paused = config.paused
  /\ \A u \in User :
       LET told == index.users[u]
           a == accounts[u]
       IN  /\ told.active = a.active /\ told.withdrawn = a.withdrawn
           /\ told.total = a.total /\ told.nonce = a.nonce
           /\ a.queue <= told.requested

(* No deposit is listed twice by reading page after page, although the     *)
(* values move between the calls.                                          *)
NothingListedTwice == IsInjective(reader.got)

(* A deposit that was there when the reading of the active list began, and *)
(* still is, may be skipped when another one is removed; but no more are   *)
(* skipped than are removed in the meantime.                               *)
SkippedOnlyForRemoved ==
  reader.phase = "done" /\ reader.list = "active" =>
    Cardinality((reader.first \cap accounts[reader.user].active) \ ToSet(reader.got))
      <= reader.removed

(* A withdrawn deposit is never skipped: the list only grows at its end.   *)
WithdrawnAllListed ==
  reader.phase = "done" /\ reader.list = "withdrawn" =>
    reader.first \subseteq ToSet(reader.got)

=============================================================================
