# A TLA+ verification of waas-server-wallets

The repository gives a backend one wallet per customer identity at a remote
wallet service (WaaS), lets it send sponsored transactions and swaps from it, and
runs on a Cloudflare Worker or on Node. What is hard in it is not arithmetic but
time: every operation is a sequence of durable writes and remote requests, any
answer can be lost, any process can stop between two awaits, and a request that
was given up can still take effect. This project models that part of the code in
TLA+, checks it with TLC on small instances and proves its safety properties with
TLAPS for every instance.

Paths below are relative to `src/`; `sdk` is `packages/server-wallet-sdk/src`.

## 1. The system

### Components

| Component | State | Operations | Correct when |
|---|---|---|---|
| `ServerWallet`, operations (`sdk/client.ts`) | durable `operationIndex`, `operation:<id>` | prepareTransfer, prepareDeployment, executeTransfer, getOperation, signMessage, signTypedData, listOperations | WaaS acts on an operation at most once; a final status is true and stays; nothing is lost from the list |
| `ServerWallet`, lifecycle (same file) | durable `State`: wallet, credential, disabled, creating | createOrRestore, rotate, setDisabled, and `ensure` / `activeCall` inside every operation | one identity, one wallet; a disabled wallet signs nothing; keys are revoked before they are forgotten |
| `WalletSwaps`, funding (`sdk/trails/swaps.ts`) | durable swap records: phase, action, funding, confirmation | quoteSwap, confirmSwap, getSwap, reconcileSwap, tick | a deposit leaves at most once, only when confirmed and activated; one unresolved debit per source chain; a closed swap has paid nothing |
| `WalletSwaps`, recovery (same file) | in the same record: the active recovery, the stage of each | prepareRecovery, confirmRecovery, and the recovery steps of advance | a recovery goes out only after the funding is settled, alone on its chain; what is reported of it is true; it ends |
| Quote and recovery validation (`sdk/trails/{quote,recovery,recovery-authorization,recovery-transaction,authorization,view}.ts`) | none | pure checks of what Trails returns | what is paid is what was asked; what is signed and submitted takes only what was reviewed |
| Trails client, chain readers (`sdk/trails/{client,protocol,rpc}.ts`) | none | remote reads | an answer, or an error |
| `SqlSwapStore` (`apps/server/swaps-store.ts`) | one row per swap: version, `next_at`, dirty | save, list, nextDue, flush | a wake-up is armed before the work is committed; a clean row is a projected row |
| `WalletCoordinator` (`apps/server/worker.ts`) | Durable Object storage, its one alarm | execute, wake, run, alarm | pending work always has an alarm |
| Node host (`node.ts`, `node-runner.ts`) | none durable but the rows | the timer, `tick`, dispatch to a wallet's executor | due and dirty rows are taken up again |
| Repository (`database.ts`) | summaries, quote windows, reserved identifiers | projectSwap, rate limit, reservation | a projection never goes back; a window admits no more than its limit |
| Routes (`app.ts`), command service (`service.ts`) | none | reserve an operation, dispatch a validated command to the SDK, write its result to the catalogue | a repeated command is the same operation; what ran is listed; what is stored of it is true |
| Dashboard (`apps/dashboard/src/main.tsx`, `swaps.tsx`) | the mounted page: rows, the dialog, requests under way | prepare, review and confirm a transfer, refresh, the poll timer | what is shown as final is true; the outcome is shown |
| Sessions and issuer (`auth.ts`, `issuer.ts`) | login attempts, session rows, signing keys | login, session check, token and key publication | bounded attempts; a token verifies with a published key |
| Attestation, transport (`sdk/attestation.ts`, `transport.ts`) | none | verification of the enclave and of signed answers | an answer that is not authentic is an error |
| Configuration, scripts | none of interest | | not considered, see section 8 |

### Interaction

A route or a command reaches a wallet's host, which runs it in that wallet's
executor (`sdk/storage.ts`, a promise queue; on Workers the coordinator's own
queue). So the handlers of one wallet never overlap. They interleave all the same
with everything remote: WaaS, the chains, Trails, the clock, other holders of the
identity, and late requests of their own. `WalletSwaps` shares the executor with
the ordinary operations and uses the operation journal for each debit; its records
live in the swap store, whose rows the host projects into the repository's
summaries after every command. Ticks come from the Durable Object's alarm or from
Node's timer. The dashboard sees neither the journal nor the store: it lists what
routes wrote to the catalogue after a command ended, outside the wallet's queue.

### What is hard

* a request that timed out (20 seconds) and is handled later, or is handled and
  its answer lost (`client.ts:481`, `client.ts:280`);
* a restart between a durable write and the request it announces, or between two
  durable writes of different stores (`swaps.ts:289`, `client.ts:345`);
* state that was checked several awaits before it is used: disabled, the quote's
  margin, the other debits of a chain;
* answers of a page that was left, or that overtake each other, and a catalogue that
  is written after the command it describes (`app.ts:145`, `main.tsx:600`);
* checks of what a remote service proposes, where a wrong integer division or a
  call that is counted twice would pass every example (`quote.ts:211`,
  `recovery.ts:77`);
* two state machines that each know half of the truth: the swap record and the
  operation journal, the store's row and the summary, the record and Trails;
* wake-ups: one alarm per object, set by saves, cleared when it fires, set or
  deleted after each command;
* things that must still happen after all of this: an uncertain deposit is
  polled, a missed deposit is named to Trails again, a created wallet is adopted.

`PROJECT.json` lists each hazard at its line with the properties that cover it.

## 2. The modules

| Module | Subject | Kind |
|---|---|---|
| `SubmitOnce` | what a caller of the journal is promised | abstract specification |
| `SwapContract` | what the owner of a swap is promised | abstract specification |
| `OperationJournal` | the journal of one wallet | component, implements `SubmitOnce` |
| `Workspace` | page, routes, catalogue, and the wallet below them | composition, extends `OperationJournal` |
| `WalletCredentials` | wallet and credential of one identity | component |
| `SwapFunding` | payment of swaps, and transfers that compete with them | component; sees the journal by its statuses; implements `SubmitOnce` and, for its swaps, `SwapContract` |
| `SwapRecovery` | taking funds back from the intent wallets of a swap | component; begins where `SwapFunding` leaves a swap; implements `SubmitOnce` and, for its recoveries, `SwapContract` |
| `QuoteChecks` | request, quote, stored record, prepared deposit | checks between two machines |
| `RecoveryChecks` | envelope, authorization, built transaction | checks, one call at a time |
| `TrailsChecks` | the two of them, side by side | composition, for one run |
| `SwapOutbox` | store, alarm, timer, projection | component; sees a command as a sequence of saves |
| `MC...` | instances for TLC | |
| `...Proofs` | theorems about the module of the same name (`TrailsChecksProofs` also about `QuoteChecks`) | |

The components are one system seen at several levels: `SwapOutbox` schedules what
`SwapFunding` and `SwapRecovery` do, those use what `OperationJournal` guarantees of
each debit (a status that is uncertain, final and true), and every request of
`OperationJournal` is signed with what `WalletCredentials` maintains. At these
boundaries a value passes (a status, a due time, an accepted key), and the upper
module takes it nondeterministically from everything the lower one can produce.
For the journal this is more than a convention: `SwapFunding` and `SwapRecovery`
keep statuses of debits in less detail than `OperationJournal`, and all three are
proved to implement the one specification `SubmitOnce`. What the owner gets from the
two is one specification as well: `SwapContract` has the things agreed to, the things
paid, and what is reported of each. `ContractKept` maps a swap to it in `SwapFunding`
(agreed: confirmed and not closed; paid: the deposit is mined) and a recovery in
`SwapRecovery` (agreed: confirmed and not given up; paid: its transaction is mined).
Closing takes an agreement back; one that ended stays as it ended and pays nothing more.
Where more than a value passes, the modules are composed: `Workspace` runs the
journal's own actions, because a page, a route and the catalogue hold statuses of
different age at the same time.

### OperationJournal and SubmitOnce

`journal[i]` is the status of `operation:<i>` (`absent` before it exists), `index`
the operation index, `disabled` the durable flag. `step[i]` says where the handler
that works on `i` awaits: the write of the index, of the record, the quote, the
write of `submitting`, the answer of Execute, the answer of a poll. `retried` is
the one second attempt of `activeCall`. `txn`, `wire`, `accepted`, `key`, `stale`
are the outside: the state of a transaction at WaaS, requests still on their way,
requests acted on, whether the credential is accepted, whether the quote is over.

`Begin` to `PrepareFailed` are `existing`, `writeOperation` and the prepare
methods; `Execute` to `GiveUp` are `executePrepared`; `Poll` to `PollFailed` are
`refresh` (`getOperation`); the `...Signing` actions are the two signing methods.
`Crash` loses the handler and keeps what was written; a request stays on the wire.

`SubmitOnce` has three variables per operation: whether it is armed, how often it
was taken, what was reported. `PromiseKept` maps the journal to it: armed is a
durable status from `submitting` on, taken is what WaaS acted on, the verdict is a
terminal status. `SwapFunding` and `SwapRecovery` define a `PromiseKept` of their own,
where taken is what was mined.

### WalletCredentials

`wallet`, `creating`, `disabled`, `credential` and `dated` (its `expiresAt` is
recorded) are the durable `State`. `op` and `at` are the method the executor runs
and where it stands in `ensure`, `revoke` or `activeCall`. `status`, `age` and
`wallets` are what WaaS knows of keys and wallets, `wire` the requests sent and not
handled, `asked` counts CreateWallet requests. `Generate` to `NoWalletYet` are the
authentication in `ensure` (commit, complete, list all pages, use the one wallet),
`Create` to `CreateFails` the one creation, `SkipRevoke` to `Drop` are `revoke`
inside rotate and setDisabled, `SendWork` to `WorkEnds` are `activeCall`.
Somebody else may create a wallet for the identity, take it away, or revoke a key.

### SwapFunding

`swap[s]` is the durable record, `work` the copy a job holds in memory (the code
mutates an object and saves it at some of its awaits); `journal[k]` is the wallet's
status of a debit, `debit[k]` what became of it. `trails[s]` is the intent, with
`EXECUTING` split by its deposit leg; `flight[s]` is ExecuteIntent or RetryIntent
on its way. `left` and `quoteLeft` are the two quotes' remaining times.

`Quote`, `Confirm`, `GetSwap` are the commands. `Expire` and `Advance` are the
entry of `advance`: the child journal is read again first, because a restart may
have left the record behind it. Then one group of actions per case of its switch:
`prepare-funding`, `activate`, `fund` (read, check, submit, result), `observe` and
`repairDeposit`; `Ruled` is its catch. `Available` is `available()`, `Reserved` is
`reservedChain`. Ordinary transfers take part with `Prepare` and `Execute`, their
state is read by `PollDebit`.

### SwapRecovery

`swap` is the durable record as far as a recovery reads it, `work` the copy of the
running job, `journal`, `debit` and `open` are the wallet's statuses, the outside and
the quotes of four kinds of debits: the funding, the deployment of the owner's wallet,
the recovery transaction, and ordinary transfers. `signing` is the journal of the
authorization's signature. `holds[r]` is the review: not five minutes old, and the
balances as reviewed. `Init` starts from the states in which `SwapFunding` leaves a
swap (quoted and never paid, failed, to be paid, paid).

`PrepareRecovery` and `ConfirmRecovery` are the commands. `Expire` and `Advance` are
the entry of `advance`, `Fail`, `Changed` and `Ended` its catch: an error that passes,
one that rules the recovery out, and the rule that nothing is given up while something
of it may be out. `PrepareRecord` to `NotSponsored` are `prepareInternal` for both
kinds of transactions, then one group per case of the switch: `deploy-owner`,
`sign-recovery`, `build-recovery`, `submit-recovery`, `observe-recovery`. `Fund` to
`Observe` are the steps of the funding that can still happen to such a swap, in less
detail than in `SwapFunding`: their questions are answered there.

### QuoteChecks, RecoveryChecks and TrailsChecks

`QuoteChecks` follows a swap from `QuoteSwap` (`buildSwapRequest` with its policy) over
`AcceptQuote` or `RefuseQuote` (`validateSwapQuote`, one operator per group of its
conditions) to the stored `Record`, and says what `prepareTransfer` makes of it
(`Prepared`) and what the user sees of it (`View`). An answer is honest or differs from
an honest one in one field. The reference definitions are independent of the code:
the tolerance as an inequality without a division, the transfer as the chain sees it.

`RecoveryChecks` is the validation loop as a machine: `next` is the call looked at,
`allowed` what is left of the reviewed balances. `CheckCall` and `RefuseCall` are one
round of `validateRecoveryPayload`; `Authorize`, `Derive` and `RefuseMixed` are
`recoveryAuthorization` with its second validation of the derived transfers; `Permit`
and `RefuseBuilt` compare what Trails built with what was signed.

`TrailsChecks` puts both into one run; they share no state.

### Workspace

`catalogue` is the operations table (`none`, `reserved`, or the stored status). A
`call[c]` is one request of a browser with its stage: `reserve`, `enter` (waits for its
turn), `run` (the wallet method awaits), `done` (the method ended), `answered`, `error`.
`mine` is FALSE once the page that sent it is gone. `open`, `rows` and `dialog` are the
mounted page.

`OpenPage` to `ElsewherePolls` are the page and its timer, `Reserve`, `Enter`,
`AnswerSaved`, `Store`, `ReadList` and `Drop` are the routes, `Works`, `Returns` and
`Throws` join the journal's actions with the call that waits for them, `HostStops` is
the journal's crash with the request lost, `GetError` to `GetList` are the answers at
the page. A command goes on when its request is given up: only the page forgets it.

### SwapOutbox

`row` is the store's table, `line` the order of the due rows, `alarm` the Durable
Object's alarm, `fired` a wake-up that waits for the executor, `summary` the
catalogue, `wire` projections that timed out and may still be written. An entry (a
command or a tick) goes through `armed`, `work`, `commit`, `flush`, `mark`,
`schedule`: `AlarmRearms` is the first statement of `alarm()`, `Tick` takes the
first `Limit` due records of the line, `SaveWakes` and `SaveCommits` are the two halves
of `save` (a record that is due again goes to the end of the line, behind what waits), `Project` and `MarkClean` those of `flush`, `Schedule` is the end of `run`.
`Throw` and `Crash` end an entry anywhere. On Node the same store has no alarm:
`RunnerTick` finds due or dirty rows.

## 3. Runs

| Run | Instance | Shows |
|---|---|---|
| `journal` | one transaction, one signature | at most one effect per operation, true verdicts, complete listing, refinement of `SubmitOnce`; the outcome of what was accepted is learned |
| `workspace` | one transfer, two requests under way | whatever ran is listed; what catalogue and page show as final is true; the outcome is shown |
| `credentials` | two keys, a wallet and one of others, all five methods | at most one creation; the wallet is kept; a dated key is revoked before it is forgotten; a disabled wallet only revokes; a created wallet is adopted |
| `credentials_undated` | two keys, a second wallet | violation: a key whose expiry was not recorded is dropped while WaaS accepts it |
| `swap_funding` | one swap, one transfer, one chain | one debit per chain, the evidence is true, nothing leaves unauthorized; refinement of `SubmitOnce` and of `SwapContract` |
| `swap_live` | one swap | no confirmed swap is stuck; deposit and outcome are noticed; a missed deposit is repaired |
| `swap_margin` | one swap | violation: a deposit leaves with less than 30 seconds on the swap's quote |
| `swap_guard` | one swap | violation: a failed debit of an aborted intent reserves its chain for ever |
| `recovery` | two recoveries of a swap, one transfer, one chain | one debit out per chain, only after the funding; the chain stays reserved; nothing leaves unconfirmed; refinement of `SwapContract` |
| `recovery_live` | one recovery | a confirmed recovery ends |
| `checks` | two swaps, two intents; two assets, envelopes of up to three calls | what is stored and paid is what was asked; what is signed takes only what was reviewed; what is honest passes |
| `outbox` | two swaps saved and due again and again, ticks of one record, a late projection, both hosts | stored work has a wake-up; a clean row is shown; the catalogue never goes back; every due record advances, though a tick leaves some in line; stored versions are shown |

Each property is also checked against a changed definition of the code (a dropped
guard, a swapped order, a missing reset; the definitions marked "Mutant" in the
modules) and must then be violated, so a run that passes has exercised the code the
property is about. Where a property is liveness and safety in one run, both are
checked under the fair specification, which only removes infinite behaviours.

Type invariants and the invariants only proofs need are not part of the runs: they
are theorems, for every instance. So are further results, which TLC confirmed on the
same instances: `ClosedUnpaid` and `RecoveryOutcomeTrue` (the state predicates behind
`ContractKept`), `PromiseKept` of `SwapRecovery`, `AccountIsRight`, `NeverOvertaken`,
`DirectNeverRefused` and `SweepNeverRefusedTwice`.

### Bounds, and why they are enough

* *Journal.* Handlers of a wallet exclude each other; the transaction and the
  signature take the two paths there are and compete for the executor. `wire` and
  `accepted` are counters, and `AtMostOnce` bounds them. Two transactions do not
  meet anywhere else, and the theorems hold for any number.
* *Workspace.* Two requests under way are an old answer and a new one, a poll and an
  execute, a list and anything. The instance is cut (a state constraint) to an enabled
  wallet with an accepted credential, and to quotes that run out before their transfer
  is sent: the rest is the subject of `journal`.
* *Credentials.* A key is replaced one at a time and a name is used again only when
  nothing refers to it, so two names let an old and a new key coexist. The wallet of
  others is looked at while the host uses its own (a state constraint). Equal
  requests on the wire are merged: WaaS treats two of them as one.
* *Swap funding.* A reservation compares pairs of debits of one chain. The pair of
  two swaps is left to the proof of `OneDebitPerChain`, which holds for any number of
  swaps, transfers and chains.
* *Recovery.* Two recoveries, so that one can fail, or bring back a part, and another
  follow. The second one is looked at for a paid swap with a deployed owner and no
  transfer (a state constraint); with one recovery nothing is cut.
* *Checks.* Outputs 99, 100 and 101 with tolerances of 0.1 and 1 percent are where the
  division drops something, 0 and 1 where nothing is left. Balances of 0 to 2 and calls
  of 0 to 2 let one call, or two together, take everything, less and more. `MaxCalls`
  is 2 for the code's 64, with envelopes of three.
* *Outbox.* `Limit` is 1 where the code's tick takes three records. Both swaps are
  saved without end and come due again and again, at the same time too: then one
  stands in line while the other is advanced, as a fourth record does in the code. Two
  versions of each record are told apart (`MaxVersion`): what is shown can be older
  than, or level with, what is stored. Later saves keep the second number and mark the
  row dirty as before. What a confirmation makes due at once is bounded with them: it
  is a call of the user, and a user who called without end could keep a tick waiting.
  One projection of one swap may be late (`MaxLate`), enough to pass a newer one.

The proofs need none of these bounds.

## 4. Fairness

Liveness is checked under these assumptions, which are definitions named
`Fairness` in the modules:

* a handler does not stand still: every remote call has a timeout (`transport.ts`,
  the fetch of the Trails client), every await of storage ends (weak fairness of
  the handlers' steps);
* what is repeated for ever is answered at last: polls, alarms, the timer
  (strong fairness of the answered step, never of its success in general);
* the caller keeps polling an operation and keeps calling an enabled wallet: the
  host offers no background job for it, so the properties say what such a caller
  gets;
* time passes: keys, quotes, reviews and the 120 seconds between repairs run out;
* in `SwapRecovery` the error that passes is always possible, so what ends a recovery
  must be answered at last when it is tried again and again (`Settles`); which answer
  it is, is not assumed;
* in `Workspace` of the polls that a page keeps sending some get through: they enter,
  are answered, stored and seen (strong fairness of each of these steps). No fairness
  for clicks, for the execute request or for the first write to the catalogue;
* in `TrailsChecks` the checks run to their end and wait once for Trails;
* in `SwapOutbox` restarts become rare: at last each entry ends of itself, by an
  exception or by scheduling (a host that restarts during every entry finishes none).
  What is wanted again and again happens at last: a tick that keeps coming ends its
  work without an exception, the step of a record that keeps being taken up comes to
  its last save, a projection that keeps being sent reaches the catalogue. That time
  makes a record due is not assumed: what is due waits for ticks, not for the clock;
* in `SwapFunding` and `SwapRecovery`, what WaaS reports as executed has a transaction
  hash. The code asks for one operation until it is executed and no longer
  (`client.ts:497`, `swaps.ts:527`): an answer without the hash would leave the deposit
  or the recovery unconfirmed for ever. Nor does the evidence of a recovery stay
  pending for ever (`RECOVERY_EVIDENCE_PENDING`);
* nothing is assumed of users: confirming, disabling, executing are free.
  Properties that a disabled wallet cannot fulfil say so.

## 5. Proofs

All theorems hold for every value of the constants: sets of operations, keys,
wallets, swaps, transfers, any assignment of chains, any bounds. The assumptions are
those of the modules: `SigningIds` are identifiers; `None` is no key, wallet or
debit; `Wallets` is finite (the code counts them); swaps, recoveries and transfers
have different names; `Limit` and `MaxVersion` are positive; amounts are natural
numbers, and an intent's wallet is neither the owner's nor the zero address.

* **OperationJournalProofs.** `AtMostOnce` and its neighbours are not inductive: a
  request leaves because of what is durable when the handler stands at `send`
  (`HandlerInv`), and an answer may be recorded because of what WaaS has done by
  then (`AnswerInv`). `IInv` joins them; each invariant and `FinalStaysFinal`
  follow. `DisabledSendsNothing` needs one more: a handler past `ensure` belongs
  to an enabled wallet. `Refinement` proves `Spec => PromiseKept`, step by step
  under `IInv`.
* **WalletCredentialsProofs.** `CreationInv` (at the request nothing was asked yet
  and `creating` is durable) gives `OneCreation`. `WalletKept` rests on a lemma
  about sets of at most one element: `UseWallet` after the mismatch check can only
  bind the wallet already known. `DisabledInv` lists the steps no disabled wallet
  reaches. `KeyInv` gives `RetainedKeyRevoked`: once an expiry is recorded no
  CompleteAuth of that key is on its way, so a revoked key cannot come to life
  again while `revoke` awaits its answer.
* **SwapFundingProofs.** Three things move apart, the record, its copy in memory and
  the journal; `RecordOK` says what a record may claim given the journal and the
  debit, `CopyInv` that the copy may be saved at any step, `StepInv` what a step
  relies on without looking again (at `submit`: the chain is still available),
  `DebitInv` how far the journal may lag. `OneDebitPerChain` then follows from two
  facts: what holds a chain is exactly an uncertain journal status or a confirmed
  record still worked on whose deposit is not confirmed (`HoldsIsHeld`), and a
  step takes a new hold only for one debit that found the chain available
  (`OnlyOneTakesHold`). `ClosedUnpaid`, `EvidenceIsTrue` and
  `NothingUnauthorized` come from the same invariant. So does the refinement of
  `SubmitOnce` (`DebitsKeepPromise`): `MoveKeepsPromise` says which moves of a status
  and of a debit keep the promise, `PromiseStep` finds one of them in each action.
  `SwapsKeepContract` is the refinement of `SwapContract`. A record changes only by a save
  (`JobOnlySaves`) and a debit is mined only by the chain (`OnlyMining`), so it comes
  down to two lemmas: a save of what `RecordOK` allows is a step of the contract
  (`SaveKeepsContract`), and what is mined belongs to a confirmed swap that is still
  worked on (`MinedKeepsContract`).
* **SwapRecoveryProofs.** The same three things move apart, and a fourth joins them:
  the transfer that does not know of the recovery. `RecordOK` says that of a swap's
  recoveries only the active one can be out, how far it can be at each action, and
  what the others came to; `AloneInv` that beside the active one nothing is out on
  its chain, nor the funding; `StepInv` what the checks of a step leave true until
  the transaction is sent, the awaits between them included. Two lemmas carry most
  of it: a step in which nothing becomes uncertain keeps all that is said of a
  record (`LaterOK`, `KeptIInv`), and what leaves found its chain clear
  (`SubmitIInv`). That `RecordOK` holds of the copy as well as of the record is what
  lets every step save it, and a restart forget it. The properties of the
  `recovery` run follow from `IInv` (`OutIsUncertain`: what is really out is
  recorded as uncertain). `RecoveryKeepsPromise` is the refinement of `SubmitOnce` by the
  deployments, recovery transactions and transfers; it needs one fact more, that what is
  about to be sent is recorded as submitting and was not sent before (`SendInv`).
  `RecoveriesKeepContract` is the refinement of `SwapContract`: every record a job saves
  differs from the stored one in the status of the active recovery only (`WorkSavable`,
  `JobSaves`), `MoveKeepsContract` says that each such change is a step of the contract,
  and `MinedKeepsContract` that what is mined is a recovery still under way.
* **SwapOutboxProofs.** `WorkIsScheduled` needs that a tick runs with its alarm set
  again and that a commit follows its wake-up (`EntryArmed`): an exception or a
  restart then leaves an alarm, whatever it interrupts. `CleanIsProjected` needs
  that a row about to be marked was shown (`MarkedIsShown`). `NeverOvertaken`, the
  safety behind `DueIsAdvanced`, says that nothing overtakes a due record until it is
  saved again; it follows with `TypeOK` from `LineInv`, that the line holds the due
  records and each once. Its lemmas say what taking an element out of a sequence and
  appending one do to the places of the others (`RemoveAtIs`, `WithoutIs`, `AppendIs`).
* **TrailsChecksProofs.** `RecordInv` says that a stored record was made from a valid
  request and an acceptable answer, `AskingInv` that what is being asked is a valid
  request. `FundedAsAsked` is then substitution; `LossIsBounded` and
  `HonestIsAccepted` rest on the two directions of one lemma, which states the
  tolerance without a division (`FloorIsClosest`). `QuotesCompose` and
  `RecoveriesCompose` show that a behaviour of the two checks is one of each, so that
  the `Checks...` theorems state the properties of the run of the specification it runs.
* **RecoveryChecksProofs.** The validator compares one call at a time and never adds
  up. `AccountIsRight` is inductive together with the types: each accepted call moves
  its amount from `allowed` to `moved`. `AccountIsTotal` says that the account is the
  sum over the calls so far, and as long as they are direct refunds that nothing of the
  review is lost; `SignedInv` and `PayloadInv` carry both from the last call to the
  permitted transaction. `NeverMoreThanReviewed` and `SweepIsRefunded` follow. The sum is
  a recursive function over the positions of a payload; what it computes is proved by
  induction on the set of positions where a claim fails (`SetInduction`, from the
  library's theorem on minimal elements, since the induction theorems with an operator
  parameter cannot be used). `DirectNeverRefused` and `SweepNeverRefusedTwice` are the
  other direction, that what should pass does.
* **WorkspaceProofs.** `ImplementsJournal` shows that the page, the routes and the
  catalogue are only callers of the journal: `WorkspaceSpec => Spec`, so every theorem
  of OperationJournalProofs holds of the composition. `ShownIsTrue` then rests on one
  fact about the journal: a final status stays, so each copy of it, in a response, a
  row or the dialog, agrees with it for ever and copies may arrive in any order
  (`CallOK`, `ReviewInv`). `NothingUnlisted` needs that a row is written before the
  operation it is for is begun (`RowsInv`).

`PROJECT.json` lists the theorems with the properties they state. The strengthened
invariants were checked with TLC on the instances above before they were proved.

Only model-checked: the liveness properties, for which the prover has no rule of
fairness (`OutcomeLearned`, `CreatedIsAdopted`, `NeverStuck`, `DepositIsNoticed`,
`OutcomeIsSeen`, `MissedIsRepaired`, `RecoveryEnds`, `DueIsAdvanced`, `IsProjected`,
`OutcomeShown`, and of `RefundsAreAccepted` that the end is reached). Every invariant
and action property of the runs is a theorem.
The violations need no proof, each is a behaviour.

## 6. Where documents and code disagree

* **Keys without a recorded expiry** (`credentials_undated`). `revoke` asks WaaS
  only if `credential.expiresAt` is set. It is not after a lost CompleteAuth answer
  or a later failure of the authentication, and it is cleared after a failed
  CreateWallet. rotate, disable and enable then forget a key WaaS still accepts,
  while `client.ts:309` and the SDK's README say it is revoked. With a recorded
  expiry the claim holds, and is proved.
* **The margin of the quote** (`swap_margin`). `docs/SWAPS.md:133` asks for 30
  seconds on both quotes before a new funding submission. The swap's quote is
  checked when `advance` takes the record; the reads and the save that follow take
  time and nothing looks again.
* **The guard of a failed debit** (`swap_guard`). `docs/SWAPS.md:165` releases the
  source chain after on-chain reconciliation. A debit that failed leaves the record
  under attention with its reservation, and when Trails aborts the intent nothing
  clears it.
* **Rows the page does not poll** (`OutcomeShown` of `workspace` names the case, no run
  of its own). `docs/SPEC.md:149` wants submitted operations shown with their state. If
  the answer to an execute is lost before its route writes the catalogue
  (`app.ts:133`), or an older poll writes after it, the row stays `quoted`, and the
  page polls only rows that are pending, submitting or unknown (`main.tsx:596`). The
  transfer is in the journal and in the list, with a status that no background work
  corrects. The property says what holds: it is shown with its outcome, or as quoted.

## 7. Abstractions a reader should know

* The reads of one decision (balance, intent, receipt) happen together; the steps
  where an effect or a stale answer matters are separate.
* `paused` and the enabled options of swaps stop the same steps that a failing read
  stops, which is always possible. An intent that became INVALID is treated as
  ABORTED: the code does the same with both.
* `Repairable` looks at the confirmed funding, the wallet, the pause between attempts
  and the failed deposit of the intent; the transactions that depend on that deposit
  are taken as failed with it or on hold, and a refund as failed (`swaps.ts:622-632`).
* `nextAt` and its backoff order steps in time; in `SwapFunding` a record is due
  whenever it has an action, in `SwapOutbox` due, later or never.
* Authentication inside an operation succeeds or fails as one step of
  `OperationJournal`; its detail is `WalletCredentials`.
* A recovery's copies of its child operations are re-read from the journal before they
  are used, so `SwapRecovery` keeps only the one of the funding apart from it.
* Digests, hashes and encodings are what they encode. That two payloads with one hash
  are one payload is assumed in `RecoveryChecks`.
* One tab has a page in `Workspace`; other tabs only add polls. Signing a message takes
  the way of preparing and is left out.
* More than 1000 active records (`swaps.ts:74`): a model with a smaller bound would say
  no more than the line does. Several wallets on one Node timer (`node-runner.ts:26`):
  the twelve taken are ordered by `next_at`, and twelve that keep failing leave no
  place for the others; that is arithmetic, not an interleaving. Both are listed as
  hazards without a property.

## 8. Not modelled, and why

* *Attestation and transport*: cryptography and parsing without state. Their outcome
  is a failed request in every module that sends one.
* *Administrator sessions and OIDC issuer*: a session is a row with an expiry, the
  login window one counting statement; nothing happens between two steps. Tokens and
  key sets are cryptography. For the page an expired session is an error and a left
  page.
* *Trails client and chain readers*: parsing, headers and time limits; that a call
  answers, fails or is never heard of again is in the modules that call them.
* *Configuration, scripts, live acceptance*: read once, or run by an operator.
* *The rest of the dashboard*: the list of wallets, the swap pages and their timer, all
  presentation. The swap page sets its record from the answer to a command without
  comparing versions (`swaps.tsx:153`); the poll four seconds later replaces it.
* *Repository*: registering a wallet, snapshots, audit events and the quote window are
  single statements.
* *Node host*: batches over several wallets, and `stop()`.

What could still be added: the join of the two records of `SwapFunding` and
`SwapRecovery` into one (`SwapContract` is implemented by each, for its own part), and a
specification of a view that lags behind, for the catalogues of `Workspace` and
`SwapOutbox`.
