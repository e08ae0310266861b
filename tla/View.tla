-------------------------------- MODULE View --------------------------------
(***************************************************************************)
(* The views of view.rs that tell a caller what a later call will do: the  *)
(* dry runs, which change nothing and panic unless the transaction "can be *)
(* accepted", and the end of the waiting time in an account view.          *)
(***************************************************************************)
EXTENDS BitHiveProperties

(* dry_run_deposit: the output id it looks up is made of the embed vout.   *)
DryRunDeposit(t, embed) ==
  /\ ~config.paused
  /\ <<t, embed>> \notin confirmed
  /\ VerifyDepositTxn(config, rootKey, t, embed)

(* view.rs:210, "Dry run deposit txn to verify if it can be accepted or    *)
(* not": a deposit the dry run accepts is not refused as a duplicate by    *)
(* submit_deposit_tx.                                                      *)
DryRunPredictsSubmit ==
  \A t \in TxId, embed \in Vout :
    DryRunDeposit(t, embed) => DepositId(t, embed) \notin confirmed

(* get_v1_deposit_constants, which panics without a root key or heights.   *)
(* The order of the heights, of which it tells the first, is left out.     *)
DepositConstants ==
  [bithivePubkey |-> rootKey, minDeposit |-> config.minDeposit,
   earliest |-> config.earliest, heights |-> config.seqHeights]

(* Output embed of t is a deposit message, and the output it names a       *)
(* deposit, as a client builds them from the constants and a public key:   *)
(* with the earliest height as lock time, if there is one and it can be    *)
(* set.                                                                    *)
BuiltFrom(constants, t, embed) ==
  /\ VerifyEmbedOutput(t, embed)
  /\ HasOut(t, DepositVout(t, embed))
  /\ LET out == Out(t, DepositVout(t, embed))
     IN  /\ out.type = "deposit" /\ out.key = constants.bithivePubkey
         /\ out.user \in User /\ out.user = DepositUser(t, embed)
         /\ out.height = Out(t, embed).height
         /\ out.height \in constants.heights /\ out.value >= constants.minDeposit
  /\ constants.earliest > 0 =>
       /\ constants.earliest < LockHeights /\ Tx[t].lock = constants.earliest
       /\ \A i \in DOMAIN Tx[t].ins : Tx[t].ins[i].seq = "locktime"

(* The total of the user, a u64, has room for the deposit. (The coins that *)
(* Bitcoin will ever have fit many times.)                                 *)
Room(t, embed) ==
  accounts[DepositUser(t, embed)].total + Value(DepositId(t, embed)) \in U64

(* All constants that the view can ever tell.                              *)
Offers ==
  [bithivePubkey : Key,
   minDeposit    : Settable.minDeposit \cup {InitConfig.minDeposit},
   earliest      : Settable.earliest \cup {InitConfig.earliest},
   heights       : Settable.seqHeights \cup {InitConfig.seqHeights}]

(* The parameters of today ask no more than those a client was told.       *)
NoStricter(offer) ==
  /\ config.minDeposit <= offer.minDeposit
  /\ config.earliest <= offer.earliest
  /\ offer.heights \subseteq config.seqHeights

(* A deposit built from the offer, free to be submitted or being verified, *)
(* would be saved now, if no parameter is stricter than it was.            *)
Honoured(offer) ==
  NoStricter(offer) =>
    \A t \in TxId, embed \in Vout :
      /\ BuiltFrom(offer, t, embed)
      /\ DepositId(t, embed) \in confirmed => DepositId(t, embed) \in InFlightIds
      /\ Room(t, embed)
      => CanSaveDeposit(t, embed)

(* A client reads the constants and builds a deposit, which cannot be      *)
(* taken back; the contract checks it calls, callbacks and changes of the  *)
(* parameters and of chain_signatures_id later (deposit.rs:117). What he   *)
(* was told is honoured then: only a parameter that the owner has made     *)
(* stricter since can make the contract refuse it.                         *)
ConstantsHonoured ==
  \A offer \in Offers :
    [](rootKey # None /\ DepositConstants = offer => []Honoured(offer))

-----------------------------------------------------------------------------
(* withdrawals *)

(* mistake: the dry run does not look up the input to sign *)
DryRunSignAnyInput(u, t, vin, partial, embed) ==
  LET a == accounts[u]
  IN  /\ ~config.paused
      /\ IF a.pending # None
         THEN ReplacesPending(a.pending, t)
         ELSE /\ partial
              /\ VerifyPendingSignRequestAmount(a, u, t, embed, config, rootKey, now)

(* dry_run_sign_withdrawal: the checks of sign_withdrawal up to the storage *)
(* deposit, in its order.                                                  *)
DryRunSignWithdrawal(u, t, vin, partial, embed) ==
  LET a == accounts[u]
  IN  /\ ~config.paused
      /\ vin \in DOMAIN Tx[t].ins
      /\ Tx[t].ins[vin].prev \in a.active
      /\ IF a.pending # None
         THEN ReplacesPending(a.pending, t)
         ELSE /\ partial
              /\ VerifyPendingSignRequestAmount(a, u, t, embed, config, rootKey, now)

(* queue_withdrawal_end_ts in get_account_view *)
QueueWithdrawalEndTs(a) ==
  IF a.startTs = 0 THEN 0 ELSE a.startTs + config.waiting

(* sign_withdrawal goes through, with the storage of the PSBT attached     *)
SignWithdrawal(c, u, t, vin, partial, embed) ==
  \/ SignFirst(c, u, t, vin, partial, embed, PsbtCost[t], PsbtCost[t])
  \/ SignAgain(c, u, t, vin, partial, PsbtCost[t])

(* view.rs:226, "Dry run sign withdrawal txn to verify if it can be        *)
(* accepted or not": what the dry run accepts, sign_withdrawal accepts in  *)
(* the same state from a caller who attaches the storage deposit, and the  *)
(* other way round; and a first PSBT is accepted only once the end time    *)
(* that the account view tells is there.                                   *)
DryRunPredictsSign ==
  \A c \in CallId, u \in User, t \in TxId, partial \in Partial,
     embed \in Vout \cup {None} :
    \A vin \in DOMAIN Tx[t].ins :
      calls[c] = NoCall =>
        /\ DryRunSignWithdrawal(u, t, vin, partial, embed) <=>
             ENABLED SignWithdrawal(c, u, t, vin, partial, embed)
        /\ DryRunSignWithdrawal(u, t, vin, partial, embed) /\ accounts[u].pending = None =>
             QueueWithdrawalEndTs(accounts[u]) \in 1 .. now

=============================================================================
