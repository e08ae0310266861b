--------------------------- MODULE BitHiveHistory ---------------------------
(***************************************************************************)
(* BitHive with a memory: what was queued, and what was sent to be signed, *)
(* which the contract forgets. The history variables only watch the steps  *)
(* of BitHive, they restrict none.                                         *)
(***************************************************************************)
EXTENDS BitHiveProperties

VARIABLES
  queued,    \* withdrawal requests that were applied
  requests,  \* signature requests that were sent
  granted,   \* for each user, the queued amount his pending PSBT used up
  covered    \* for each user, the value of the deposits it was compared with

historyVars == <<queued, requests, granted, covered>>

(* withdrawal_message(nonce, amount) of the request applied in this step,  *)
(* which the user signed: with the nonce sent to the verifier, or today's. *)
Message(u) ==
  LET answered == {c \in CallId : calls[c].kind = "bip322" /\ calls'[c] = NoCall}
      nonce == IF answered = {} THEN accounts[u].nonce
               ELSE calls[CHOOSE c \in answered : TRUE].nonce
  IN  <<nonce, accounts'[u].queue - accounts[u].queue>>

QueuedInStep ==
  {[user |-> u, nonce |-> accounts'[u].nonce, message |-> Message(u),
    at |-> now] :
     u \in {v \in User : accounts'[v].nonce # accounts[v].nonce}}

RequestedInStep ==
  {[user |-> calls'[c].user, nonce |-> accounts[calls'[c].user].nonce,
    tx |-> calls'[c].tx, vin |-> calls'[c].vin, at |-> now] :
     c \in {d \in CallId : calls[d] = NoCall /\ calls'[d].kind = "sign"}}

HistoryInit ==
  /\ Init
  /\ queued = {}
  /\ requests = {}
  /\ granted = [u \in User |-> 0]
  /\ covered = [u \in User |-> 0]

(* a PSBT becomes pending in this step *)
Saved(u) == accounts[u].pending = None /\ accounts'[u].pending # None

HistoryNext ==
  /\ Next
  /\ queued' = queued \cup QueuedInStep
  /\ requests' = requests \cup RequestedInStep
  /\ granted' = [u \in User |->
       IF Saved(u) THEN accounts[u].queue ELSE granted[u]]
  /\ covered' = [u \in User |->
       IF Saved(u) THEN DepositInputSum(accounts[u], accounts'[u].pending.tx)
       ELSE covered[u]]

HistorySpec == HistoryInit /\ [][HistoryNext]_<<vars, historyVars>>

-----------------------------------------------------------------------------

(* One queued withdrawal authorises one set of inputs: all that is ever    *)
(* sent for signing under one nonce spends the same inputs. Replacements   *)
(* change the fee and the outputs only.                                    *)
OneInputSetPerRequest ==
  \A r, s \in requests :
    r.user = s.user /\ r.nonce = s.nonce => Tx[r.tx].ins = Tx[s.tx].ins

(* what t pays back to the script of u at the reinvest vout of his PSBT    *)
PaidBack(u, t) ==
  LET vout == accounts[u].pending.reinvest
      pays == /\ vout # None /\ HasOut(t, vout)
              /\ Out(t, vout).type = "deposit" /\ Out(t, vout).user = u
  IN  IF pays THEN Out(t, vout).value ELSE 0

(* No replacement takes out more than was queued: of the deposits that the *)
(* amount was checked for (withdraw.rs:380), every transaction sent for    *)
(* signing under the pending PSBT pays all but the granted amount back to  *)
(* the reinvest deposit. Inputs that are recorded as deposits only after   *)
(* the check are not in covered: the code does not count them.             *)
SignedWithinGranted ==
  \A r \in requests :
    r.nonce = accounts[r.user].nonce /\ accounts[r.user].pending # None =>
      covered[r.user] - PaidBack(r.user, r.tx) <= granted[r.user]

(* A request that waited: queued under its nonce at least the waiting time *)
(* before. (For runs in which the owner leaves the waiting time alone.)    *)
Waited(r) ==
  \E q \in queued :
    q.user = r.user /\ q.nonce = r.nonce /\ q.at + config.waiting <= r.at

(* Nothing is sent for signing before the withdrawal it belongs to has     *)
(* been queued for the waiting time, counted from the last time the user   *)
(* queued; also when a late verifier answer queues more in between.        *)
EverySignatureWaited == \A r \in requests : Waited(r)

(* Custody: a deposit leaves its script before the relative lock only by a *)
(* transaction that its own user had sent for signing, for that input and  *)
(* under a withdrawal that had been queued for the waiting time. Nobody    *)
(* else's request, and no request for another input, releases it.          *)
ReleasedByOwnRequest ==
  \A t \in mined : \A i \in DOMAIN Tx[t].ins :
    SpendsDeposit(t, i) /\ Tx[t].ins[i].seq # "csv" =>
      \E r \in requests :
        /\ r.tx = t /\ r.vin = i /\ Waited(r)
        /\ r.user = Out(Tx[t].ins[i].prev[1], Tx[t].ins[i].prev[2]).user

(* account.rs:35, "nonce is used in signing messages to prevent replay     *)
(* attacks": a signed message is applied at most once.                     *)
MessageAppliedOnce ==
  \A p, q \in queued : p.user = q.user /\ p.message = q.message => p = q

=============================================================================
