# BitHive in TLA+

A model of the BitHive staking contract (`contracts/bithive`), which takes note of Bitcoin deposits
that users lock under their own key and a key held by a chain-signatures network, and has that
network co-sign withdrawals. The modules here say what the contract does in every order of calls,
callbacks, parameter changes and mined transactions; TLC checks them on small instances and TLAPS
proves the main invariants for every instance.

## 1. The system

| Component | State it keeps | Operations |
|---|---|---|
| Deposit verification (`deposit.rs`) | `confirmed_deposit_txns` | `submit_deposit_tx` → light client → `on_verify_deposit_tx` |
| Account (`account.rs`) | one record per user: total, active and withdrawn deposits, queue and its start, nonce, pending PSBT, its storage deposit | `create_deposit`, `queue_withdrawal`, `complete_withdrawal` |
| Withdrawal (`withdraw.rs`) | in the accounts | `queue_withdrawal` (ECDSA at once; BIP-322 → verifier → `on_bip322_verify`), `sign_withdrawal` → chain signatures → `on_sign_withdrawal`, `submit_withdrawal_tx` → light client → `on_verify_withdrawal_tx` |
| Administration (`admin.rs`) | owner, pending owner, parameters, paused | two-step change of owner, one setter per parameter |
| Root key (`lib.rs`) | `chain_signatures_root_pubkey` | `sync_chain_signatures_root_pubkey` → chain signatures → `on_sync_root_pubkey` |
| Views (`view.rs`) | none | getters, pages of deposits, constants for clients, `dry_run_deposit`, `dry_run_sign_withdrawal` |
| Events (`events.rs`) | none; indexers keep books from them | one event per deposit, queue request, signature, withdrawn deposit, change of owner, pause |
| Formats and keys (`types.rs`, `utils/btc.rs`, `kdf.rs`) | none | embed messages, signed messages, recovery of keys, derived keys |
| Surroundings | Bitcoin chain with reorganisations, light client, BIP-322 verifier, chain signatures, clock | answers to the calls above |
| Clients (`tests/__tests__/integration/e2e_workflow.ava.ts`) | none: they look at the chain and the views | deposit, submit, queue, wait, have signed, broadcast, submit |
| Not modelled | `upgrade.rs`, `legacy.rs`, the verifier contract, the mocks, the command line tools in `bin/` | |

**What makes it hard.** NEAR runs the callback of a call in a later block. Every operation that asks
another contract is two steps, with anything in between: other requests, other callbacks, the owner
changing parameters or pausing, blocks on either chain. A callback that panics undoes what it wrote
and nothing that the handler wrote. So the questions are: what does a handler write before it knows
the answer (the reservation of an output, the pending PSBT), who else can see it, what happens to it
when the answer is bad or the callback panics, and what did the callback assume that is no longer
true (the nonce, the minimum, which outputs are deposits, which blocks are on the best chain). Around
the contract the same happens once more: who reads it in several calls, builds transactions from what
a view said, or waits for an answer, does so while others go on.

**What makes each part correct.**

- Deposits: an output of the chain is verified by one call at a time, credited once, to its user, and
  withdrawn once, by the transaction that spent it; the contract holds the NEAR for its entry, and
  a failed verification leaves the way free for the next.
- Accounts: the total is the value of the active deposits, so that no completion underflows.
- Withdrawals: one queued amount authorises one set of inputs, after its waiting time, within its
  amount, and for a message that the user signed once.
- Administration: ownership goes where it was proposed to go; the root key, once set, stays.
- Views and events: a dry run says what the call will do, a deposit built from the constants is accepted later,
  the events tell the books, pages lose nothing but for what is removed while reading.
- Formats and keys: what is read is what was written, and only the holder of a key is accepted.
- All: a user who goes on gets his deposits out.

`PROJECT.json` lists every hazard with the line where it bites.

## 2. The modules

```
Types ── DepositTx ── Account ──┬── CompletionLoop
   └──── Admin ─────────────────┴── BitHive ──┬── Confirmations (refines BitHive)
                                              └── BitHiveProperties ──┬── View
                                     (OutputLedger by INSTANCE) ──────┼── BitHiveHistory
                                                                      ├── Readers
                                                                      └── Client
Keys, Messages ── Wire
proofs: AccountProofs ──┬── BitHiveProofs ──┬── DepositProofs (and View) ──┬── WithdrawalProofs ── ReadersProofs
                        │                   │                              └── HistoryProofs
                        │                   └── ConfirmationsProofs
                        └── CompletionLoopProofs
TLC:    MCTransactions (data), MCBitHive, MCHistory, MCAdmin, MCCompletionLoop, MCConfirmations,
        MCReaders, MCClient, MCWire
```

- **Types**: ids of external contracts and the record `Config` of the parameters in struct `Contract`.
- **DepositTx**: Bitcoin transactions as the contract reads them, and the checks of
  `verify_deposit_txn`. A transaction is immutable, so `Tx` is a constant function from ids. An output
  is an embed message, a deposit script or something else; a deposit script names its user, its
  height and the root key its key is derived from (derivation is injective). `Usize` is the cut of a
  `u64` index to the 32-bit `usize` of wasm32.
- **Account**: the account record and its operations, as operators on one account. `CanOp` is the
  condition under which `Op` does not panic; `u64` arithmetic is checked, as in the release profile.
  The loop over inputs in `on_verify_withdrawal_tx` is given in closed form.
- **CompletionLoop**: that loop step by step, as the code has it, for one transaction and from any account;
  `todo` are the positions of its deposit inputs that are still to go.
- **Admin**: parameters, ownership, root key; a specification of its own (`AdminSpec`) and part of
  `BitHive`.
- **BitHive**: the contract and its surroundings. One action per handler, one per outcome of a
  callback. `calls[c]` holds the arguments that a callback will run with; `near` counts the NEAR the
  contract holds for its users; `mined` and `sigs` are the chain and the signatures given out.
- **OutputLedger**: the abstract specification. Each output goes free → reserved → active(holder) →
  withdrawn(holder), or back from reserved to free, or from reserved to failed. `BitHiveProperties`
  maps `confirmed`, `calls` and `accounts` to it (`OutputStatus`, `OutputHolder`).
- **BitHiveProperties**: the properties. **View**: both dry runs, the constants for deposits, the end of
  the waiting time. **BitHiveHistory**: history variables for what was queued, sent for signing, granted
  and covered by the check of the amount.
- **Confirmations**: `BitHive` over a chain of blocks that reorganises. Asking the light client, its
  answer and the callback are three steps. `ImplementsFinal` is a refinement: with `mined` read as the
  part of the chain that is never replaced, every step is one of `BitHive` or a stutter.
- **Readers**: an indexer that has nothing but the events, and a reader of the pages of
  `list_user_active_deposits` and `list_user_withdrawn_deposits`, next to every step of `BitHive`. `stored` is the
  order in which near-sdk's `UnorderedMap` keeps the deposits.
- **Client**: the user of the end-to-end test as a process that tries again, and others who call what
  needs none of his signatures.
- **Keys**, **Messages**, **Wire**: byte formats and keys by themselves. BitHive takes a signature, a message
  or a key for what it means; here the code that reads them is computed, with small widths and on
  a small curve of the form of secp256k1 (`N < P` primes), against what the writer meant and against the
  textbook definition of a valid signature.

How state and actions correspond to the code:

| TLA+ | code |
|---|---|
| `confirmed` | `confirmed_deposit_txns` |
| `accounts[u]` | `accounts`; a user without one has `NewAccount`, as `get_account` returns |
| `owner`, `pendingOwner`, `config`, `rootKey` | the other fields of `Contract` |
| `calls`, `syncs` | promises with their `then` callback |
| `SubmitDepositTx`; `DepositRejected`, `DepositSaved`, `DepositNotSaved` | `submit_deposit_tx`; `on_verify_deposit_tx` with a bad answer, a good one, and a good one after which `save_deposit_txn` panics |
| `QueueWithdrawalEcdsa`, `QueueWithdrawalBip322`; `Bip322Accepted`, `Bip322Dropped` | `queue_withdrawal`; `on_bip322_verify` |
| `SignFirst`, `SignAgain`; `SignatureGiven`, `SignatureFailed` | `sign_withdrawal` without and with a pending PSBT; `on_sign_withdrawal` |
| `SubmitWithdrawalTx`; `WithdrawalCompleted`, `WithdrawalDropped` | `submit_withdrawal_tx`; `on_verify_withdrawal_tx` |
| `Tick`, `Mine` | external: block time, Bitcoin |

What the abstraction of `BitHive` keeps and drops. Kept: every guard and early return in order of effect,
panics, writes before and after a call, refunds, checked arithmetic. Dropped: hex and script encodings
(see Wire), gas (a call with too little gas does nothing, a callback with too little is a failed one), the
attached yocto, events (see Readers), `complete_withdrawal_ts`. Signatures cannot be forged: an ECDSA or partial
signature is there or not (`Partial`). A good answer of the light client requires that the
transaction is mined; a bad one is always possible. The transaction inputs of a signature become
usable on the chain when the callback runs, though the signer may publish it a moment before: the
callback changes no account, so nothing depends on the difference. In `BitHive` a mined transaction
stays, and `Mine` stands for enough confirmations; `Confirmations` is what justifies it. `Mine` also has
the rules of Bitcoin that the properties rest on: inputs exist, are spent once, by one transaction
and once in it, and a deposit script is satisfied.

In each module an operator under a comment that begins with "mistake:" is not part of the model: it is a plausible
slip in the code above which it stands, kept to show that a property would notice it (`PROJECT.json`,
"mutants").

## 3. The runs

All with `tlc -config <run>.cfg <module>`.

| Run (module) | What it shows | Distinct states |
|---|---|---|
| Withdraw (MCBitHive) | two deposits withdrawn by a two-input multisig with replacement and reinvest deposit, or one alone, queueing again in between; all account, chain, ledger and storage properties, the dry run of signing | 62,544 |
| Deposit (MCBitHive) | two users' deposits, a wrong message, duplicate submissions, failed verifications, parameters changed in flight and between a view and the deposit built from it, pausing | 56,528 |
| History (MCHistory) | one input set per request, nothing signed beyond the grant or before the wait, nothing released without its user's request; verifier answers come late, a PSBT has an input that is not a recorded deposit | 107,000 |
| Reorg (MCConfirmations) | blocks are replaced while the light client is asked and while its answer is on the way, with competing spends of a deposit's coin and of the deposit | 86,608 |
| Readers (MCReaders) | deposits come and go, the owner hands over and pauses, while events are followed and pages are read | 1,027,968 |
| Client (MCClient) | the workflow with failures and retries, next to others | 2,449 |
| Wire (MCWire) | formats and keys, as written and with one change | 30,244 |
| Admin (MCAdmin) | hand-over, setters, racing root key fetches | 58,368 |
| CompletionLoop (MCCompletionLoop) | loop = closed form, from every account with up to three deposits | 2,592 |

Violations, each of what a comment or doc of the code says (section 5): Replay (MCHistory), Truncated and
DryRun (MCBitHive).

**The properties.** `InFlightReserved`, `RecordedOnce`, `ImplementsLedger`: no double verification,
credit or withdrawal. `BlockedOnlyIfMined`: no entry is left behind by an early submission or a wrong proof. `TotalIsActiveValue`, `WithdrawalsCompletable`: no withdrawal that happened on
the chain can be locked out. `BooksMatchChain`: what is recorded was mined and pays its user's script.
`QueueUsedUpByPending`, `OneInputSetPerRequest`, `EverySignatureWaited`, `SignedWithinGranted`: a request
authorises one PSBT, after its wait and within its amount, replacements included.
`ReleasedByOwnRequest` is the custody the contract is for: it relates the mined transactions to what the
user had asked for. `StorageFunded`: refunds never take what storage needs. `RootKeyStable`,
`TransferUsesUpProposal`: two fetches, or a proposal left over, do not take over what is set.
`DryRunPredictsSign`: that dry run and the call agree in every state. `ConstantsHonoured`: a deposit built from constants
that were told at one time, and free or being verified, is saved at any later time, whatever happened in between,
unless a parameter is stricter by then (or the total leaves a `u64`, which no view looks at: `Room`). `ImplementsFinal`: reorganisations. `EventsTellBooks`, `NothingListedTwice`,
`SkippedOnlyForRemoved`, `WithdrawnAllListed`: what can be learnt from events and pages (a deposit can be
skipped by a reader when another one is withdrawn meanwhile; the property bounds the loss).
`WorkflowCompletes`: the user is not locked out. `LoopComputesCompletion`. `EmbedReadBack`,
`FrameReadsBack`, `OwnSignatureAccepted`, `AcceptedIsValid`.

**Bounds.** `CallId` bounds the calls in flight: two are enough for a race of a callback with
anything else, and each handler race involves two calls. They are symmetric in Deposit, also for the
temporal property there: it relates a state to a later one by two formulas that no renaming of calls changes. `MaxNonce` = 2 lets a user queue, sign, and queue again. `MaxTime` = 3 with a waiting time
of 1 has signing too early, in time, and after a restart of the wait. `U64Max` = 7 and `UsizeMod` = 4
put overflow and truncation within reach of the instances; `LockHeights` = 9 puts the 500,000,000
limit above the heights used. Amounts are 1 to 3 satoshi, so that queues below, at and above a
deposit occur. In Deposit the minimum
may rise, and the earliest height be lowered, dropped and set again. In the runs with one call slot the interest is in the sequence, not in the race.
`MaxReorg` = 1 and `MaxHeight` = 4 with 2 or 3 confirmations let a transaction be confirmed, replaced
above its depth, and followed by its spend; `AskShallow`, one confirmation less, is enough to break the
refinement. A page of `Limit` deposits is smaller than the list; the waiting time of that run is beyond `MaxTime`, so
that no PSBT is signed in it (which no reader is told of; for PSBTs that are, see section 4). In Client one slot is the user's and one
everybody else's, the clock runs only while a withdrawal is queued (it is compared with
nothing else), and parameters and signer stay. In Wire a byte has 16 values, so that every form of a
length and both forms of a push occur, and the curve of order 31 over 43 elements has points
with an x above the order.
`CHECK_DEADLOCK FALSE` because the bounds on nonce, time and transactions let the system stop; in
Admin it cannot.

**Fairness.** `Spec` and the specifications on top of it assume none: they are about what may not happen.
Only the run Client is about what must, a user who goes on. It takes weak fairness of `Callback(c)` for
every call: NEAR always executes the callback of a promise, with the result or the failure. No owner and
no block of Bitcoin has to come, and which outcome a callback has is not fair by itself. Of the user it assumes that he tries each step again for as long as it is
called for (strong fairness where the one slot he uses may be taken by another of his calls), of his own
calls infinitely many get a good answer if infinitely many are made (`DepositSaved`, `SignatureGiven` and
`WithdrawalCompleted` of his slot, strong), the root key is synced, and time goes on. Of the others'
calls it assumes nothing but that they end.

## 4. What is proved

For every value of the constants that satisfies the named assumptions (`TypesAssumption`,
`DepositTxAssumption`, `AccountAssumption`, `AdminAssumption`, `BitHiveAssumption`,
`ConfirmationsAssumption`, `CompletionLoopAssumption`, `ReadersAssumption`):

| Theorem (module) | Statement |
|---|---|
| `TypeCorrect` (BitHiveProofs) | `Spec => []TypeOK` |
| `RootKeyCorrect`, `OwnershipCorrect` (BitHiveProofs) | `Spec => RootKeyStable`, `Spec => TransferUsesUpProposal` |
| `AdminCorrect`, `AdminTypeCorrect` (BitHiveProofs) | `AdminSpec => RootKeyStable /\ TransferUsesUpProposal`, `AdminSpec => []AdminTypeOK` |
| `ReservedCorrect`, `RecordedCorrect` (DepositProofs) | `Spec => []InFlightReserved`, `Spec => []RecordedOnce` |
| `ChainCorrect` (DepositProofs) | `Spec => []BooksMatchChain` |
| `BlockedCorrect` (DepositProofs) | `Spec => []BlockedOnlyIfMined` |
| `ConstantsCorrect` (DepositProofs) | `Spec => ConstantsHonoured` |
| `LedgerCorrect` (DepositProofs) | `Spec => ImplementsLedger` |
| `QueueCorrect` (WithdrawalProofs) | `Spec => []QueueUsedUpByPending` |
| `TotalCorrect`, `CompletableCorrect` (WithdrawalProofs) | `Spec => []TotalIsActiveValue`, `Spec => []WithdrawalsCompletable` |
| `FundingCorrect` (WithdrawalProofs) | `Spec => []StorageFunded` |
| `OneInputSetCorrect`, `SignedWithinCorrect` (HistoryProofs) | `HistorySpec => []OneInputSetPerRequest`, `HistorySpec => []SignedWithinGranted` |
| `WaitedCorrect`, `CustodyCorrect` (HistoryProofs) | if the waiting time is left alone: `HistorySpec => []EverySignatureWaited`, `HistorySpec => []ReleasedByOwnRequest` |
| `LoopCorrect` (CompletionLoopProofs) | `LoopSpec => []LoopComputesCompletion` |
| `EventsCorrect` (ReadersProofs) | `ReadersSpec => []EventsTellBooks` |
| `ListedOnceCorrect`, `SkippedCorrect`, `WithdrawnListedCorrect` (ReadersProofs) | `ReadersSpec => []NothingListedTwice`, `[]SkippedOnlyForRemoved`, `[]WithdrawnAllListed` |
| `ConfirmationsCorrect` (ConfirmationsProofs) | if the number of confirmations is always above `MaxReorg`: `ConfSpec => ImplementsFinal` |

`TypeCorrect` has every `u64` of an account in its range: total and queue by the checks of the code, the nonce
likewise (`CanQueueWithdrawal`), the start of the wait because the block time is a `u64`. What the assumptions ask of
the constants, beyond types: `MaxTime` is a `u64`; there are finitely many users (a public key
has 33 bytes) and calls in flight; the value of an output is not negative; an outpoint's index is a
`u32`; `None` is not one of the values it is to be told from; a page has at least one place; the loop starts
from an account whose active deposits are outputs that exist. That a transaction does not spend an output
twice (`DistinctInputs`) is a rule of the chain and stands in `Mine` and `Mineable`, not in an
assumption: the contract is also called with transactions that break it.

Two theorems have a hypothesis. `Settable.waiting = {}`: `EverySignatureWaited` compares a past
request with the waiting time of today, and an owner who raises it makes old requests look early. (The
run History has the same instance.) `DeepEnough`: the number of confirmations at the start, and each that
the setter can set (it refuses 0), is above `MaxReorg`; with fewer, `AskShallow` shows what
happens. The run Reorg is an instance.

**The steps.** *BitHiveProofs* first classifies the steps, so that later proofs do not repeat the case
split over twenty actions: `AccountStep` (a step changes at most one account, by `CreateDeposit`,
`QueueWithdrawal`, `SavePending` or `CompleteWithdrawals`, under that operation's condition), `CallStep`
(at most one call slot changes, by a send or an answer), `SurroundingsStep` (time, `mined`, root key
only grow), `AdminPart` (what changes the administration is a step of `Admin`).

**Deposits.** `RecordedOnce` and `InFlightReserved` are not inductive alone: an output can only be recorded
because the call that verifies it is in flight, and that call can only be alone because the output
is reserved. `DepositInv` is their conjunction with the facts that tie the fields of a call in flight
to its transaction. The refinement follows from `DepositInv`: `RecordStep` says how the recorded
outputs of an account change, and every change is one step of the ledger or a stutter
(`LedgerStep`). `BooksMatchChain` is inductive on top of it, because neither the chain nor the root key
goes back; it needs that the index in an outpoint is a `u32` (`InputOutpoint`). `BlockedOnlyIfMined` goes
by the outcomes of a verification: one releases the entry, the other two need a mined transaction.
`ConstantsHonoured` relates two states, and its proof has one part for each: what a view tells is an offer
(`OffersComplete`) and its root key stays (`SurroundingsStep`); and in each later state a deposit that fits the
offer passes the checks if they ask no more (`BuiltIsVerified`), and `create_deposit` if it is free or being verified,
because then it is in no account (`FreeCanBeSaved`, from `DepositInv`).

**Sums.** `TotalIsActiveValue` and `StorageFunded` are about `MapThenSumSet`, a recursive function inside a
`CHOOSE`. The induction theorems of the library cannot be used for it (they take an operator), but an
argument by a smallest counterexample can (`SmallestSet`, on the cardinality): *AccountProofs* shows that
the function exists and is unique, that a sum does not depend on the order of its elements
(`SumRemove`), and from that how it changes with its set and its values. An account is `Balanced` if its
active deposits are finitely many and its total is their sum. Completing a withdrawal keeps it so if the
transaction has each input once, which `mined` guarantees (`BalanceInv`); and the same sums show that no
subtraction of the loop underflows, which is `WithdrawalsCompletable`. For `StorageFunded` the invariant
`FundInv` is stronger: the contract holds, beyond the storage deposits, what each deposit call in flight
has attached above its own, because that is what a refund may take.

**History.** `MemoryInv` says of each request that its input is a recorded deposit of its user, that its nonce
is not above the user's, and that, as long as it is the user's, a PSBT is pending that the requested
transaction may replace (so that all of them have its inputs); and that each signature given out, or
asked for by a call in flight, is for a requested input. `WithinInv` says for the pending PSBT
what the amount check established. `WaitInv` ties a running wait to the last queueing under today's nonce,
and a pending PSBT to one that is at least the waiting time ago. `ReleasedByOwnRequest` then follows for each newly mined transaction: its input
needs a signature, the signature a request, and the deposit, being recorded for the user who requested it,
pays his script (`BooksMatchChain`).

**The loop.** In the middle of the loop the account is what the closed form makes of the inputs up to the last
one done. `LoopInv` (CompletionLoopProofs) says so field by field: the total is what the sum over these inputs leaves
of it, the queue is the smaller of what it was and of the total after the last of them that is not multisig, and the
start of the wait is gone if the queue is. That the minimum taken at each input is the same as the one taken at the
last (`NextQueue`) holds because the total only falls (`LeftFalls`).

**Events and pages.** `StoredInv` ties the vectors of `UnorderedMap` to the accounts: each lists its deposits
once. `ReaderInv` splits what a reading is about in what was read and what lies `Ahead` of it, behind its
offset: nothing is in both, and what was there at first, and still is, is in one of them but for as many as were
removed. A page moves its deposits from ahead to read (`PageFacts`); an insertion adds one deposit ahead
that was not recorded before; a removal loses, beside the removed one, at most the last one of the vector, which
may go to a place behind the reader (`SwapRemoveFacts`). One call may remove several: `RemoveEach` is the induction
over them, on the recursive function inside `FoldLeft`, by a smallest counterexample as for the sums. `AllEvents` does
the same for the books of the indexer; the total falls by the sum of the completed deposits, which is what the account
subtracts because a mined transaction has each input once (`CompletedInOrder`, `BalanceInv`). `StepKinds`
classifies the steps of `ReadersNext` by what they tell, and `ContractPart` maps each to a step of `Next` or a
stutter, so that the invariants of `Spec` are there.

**Reorganisations.** The `Same...` lemmas say that what does not look at the chain is the same with `mined`
replaced by `Final`. `ConfInv` says that each block follows from those below it as `Mine` demands
(`Follows`), that the chain never gets shorter than its final part, that a call in flight asks for more
confirmations than `MaxReorg` whatever the parameter is now, and that a yes in flight is about a final
transaction. Under it a new block is `Mine` of the block that becomes final, or a stutter
(`NewBlockMines`); a reorganisation and the light client are stutters; and a callback acts on a yes only
for what is final (`ReturnStep`).

Only model-checked: liveness (`WorkflowCompletes`) and `DryRunPredictsSign`, which is about `ENABLED`: out of reach of the provers; everything in Wire, which is
computed on a curve.

## 5. Where the code and its words disagree

1. **Replay**: `on_bip322_verify` (`withdraw.rs:125`) applies a message without comparing nonces. Sent
   twice before the first answer, one signed message queues twice; `account.rs:35` says the nonce
   prevents this.
2. **Truncated**: `deposit_vout as usize` (`deposit.rs:151`) lets one output be recorded under two ids;
   the reservation (line 68) is to prevent duplicate verification.
3. **DryRun**: `dry_run_deposit` looks up the embed output (`view.rs:217`), and so accepts deposits
   that are already confirmed.

Smaller observations, none of them against a property above: a replacement of the pending PSBT is sent
for signing without a partial signature of the user (`withdraw.rs:181`; useless without his own). Inputs
that are recorded as deposits only after the amount check (`withdraw.rs:358`) are not counted in it. The
witness that a completion is called with is not covered by what the light client verifies, so whether the queue is
lowered is up to the caller (`withdraw.rs:476`). A
multisig completion after a new queue request may leave the queue above the total (`account.rs:182`). The
event `SignWithdrawal` comes with each signature and not when the queue is used up, so the queue cannot be
told from the events. `init` accepts parameters that the setters refuse (`lib.rs:74`). An embed message of
more than 75 bytes with what is pushed behind it is not found (`utils/btc.rs:16`). A partial signature is
refused when recovery with 0 fails although 1 would do (`withdraw.rs:413`; Wire finds it on the small
curve, on secp256k1 it has a probability of 2^-256). `bin/commands/sign_withdrawal.ts` and
`submit_withdrawal.ts` call the contract with arguments it no longer has.

## 6. Not modelled

Not modelled: SHA-256, sighashes and the scripts themselves (a hash is a value, a script what it
checks); Merkle proofs (a wrong one is a bad answer of the light client); upgrades (`migrate` returns
the state it reads, and the code that would run next is not here); the BIP-322 verifier, a wrapper
of a library without state; the mocks, which are test doubles; the command line tools, which are behind
the contract and keep no state; getters that copy a field; gas as a number.
