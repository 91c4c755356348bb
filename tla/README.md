# A TLA+ development of the RGB standard library

This directory holds TLA+ modules that model the state machines of `rgb-std`
(`src/`, `persistence/fs/src/`), the TLC configurations that check them on small
instances, and TLAPS proofs of what matters most for all instances.
`PROJECT.json` lists the same things for tools: components, runs, the lines
each definition models, a mutation for each property, findings, hazards, theorems.

## 1. The system and its parts

RGB puts contract state under transactions of a public chain. A contract is a
history of *operations*; an operation closes seals (outputs) of earlier ones
and becomes effective with a *witness* transaction that commits to it. The
library keeps, per contract, a *ledger* (what is applied to the state) and a
*pile* (which witness carries which operation, and how well each one is
confirmed), and has to keep the two in step while transactions are mined,
replaced and reorganised, while calls fail and while the process dies.

| Part (source) | State it keeps | Operations | Correct when |
|---|---|---|---|
| Witness status (`src/pile.rs`) | none; a type with two orders and a stored form of 8 bytes | `is_valid`, `best`, `worst`, `to_bytes`, `from_bytes` | a status reads back as written; best and worst are the minimum and maximum of one order |
| Contract (`src/contract.rs`) | ledger, pile, codex, id | `issue`, `load`, `call`, `include`, `consume`, `sync`, `state`, `witness_status`, `retrieve`, `consign` | ledger follows the witnesses, in memory and after a restart; a history stays a history; state and history can be shown and consigned |
| Pile (trait, `src/pile.rs`) | inclusions and statuses | `add_witness`, `add_seals`, `update_witness_status`, `commit_transaction`, readers | an inclusion is atomic and never lost, a recorded witness always has a status |
| PileFs (`persistence/fs/src/pile.rs`) | six files, `mine` also in memory | the same, and `new`, `load` | implements the trait's promise through a crash at any write |
| Contracts (`src/contracts.rs`) | cache of contracts over a stockpile | `issue`, `import`, `purge`, `include`, `consume`, `sync`, readers | what is cached is backed by disk; a sync that ends well is complete and durable; only a purge loses anything |
| StockpileDir (`persistence/fs/src/stockpile.rs`) | registry of ids, issuers, directories | `load`, `contract`, `import_contract`, `issue`, `purge` | registry, directories and cache agree |
| RgbWallet (`src/popls/bp.rs`) | the collection, a wallet, prefabs | `fulfill`, `check_request`, `prefab`, `bundle`, `include`, `consume` | no state of any contract is destroyed with the outputs a payment spends |
| Consignment (`src/consignment.rs`, `OpReader` of `src/contract.rs`) | position in a stream | reading of operations, seals, witnesses | reads each operation once and in order, up to the limit |
| Invoice (`invoice/src/`) | none; a beneficiary and its noise | `WitnessOut::noise` | what is paid to a beneficiary is found by it |
| Command line (`cli/src/`) | none | `dump_consignment` | dumps what the other readers read |
| Utilities, type library, other seal protocols | none | formatting, generation | not modelled, see section 7 |

How they interact: `RgbWallet` calls `Contracts`, which finds a `Contract` in
its cache or has the `Stockpile` load it, and calls it; `Contract` calls its
ledger and its pile one after the other; `PileFs` writes files. There are no
threads and no messages: every handler takes `&mut self` (the cache of
`Contracts` is behind a `RefCell`), so handlers do not overlap. What makes the
code hard is *between* the steps of a handler: two stores committed at
different moments, a call that fails half way, a process that dies or panics,
and what the caller does between two calls that belong together (`sync` after
`sync`, `fulfill` then `bundle` then `include` then the broadcast). A reorg,
finally, may undo and redo anything in any order.

Outside of the repository, and modelled only by what this code relies on, with
every outcome it does not rule out:

- the **ledger** (crate `hypersonic`): `call`, `apply`, `rollback`, `forward`,
  `commit_transaction`. It may commit when it applies an operation, or not
  (`LedgerMayCommit`); `rollback` undoes the descendants as well;
- **verification** of operations (crate `rgb-core`): an operation is applied
  only on existing inputs (`Applicable`), checks of scripts may fail at any
  operation (`FailConsume`);
- the **files** (crate `aora`): a write of an append-only file is durable,
  `mine.dat` is written by the commit;
- the **bitcoin wallet**: selects coins, signs, and broadcasts a transaction
  after `include` returned without an error.

## 2. Modules

| Module | What it is | Extends or instantiates |
|---|---|---|
| `WitnessStatus` | statuses, their order, stored form | |
| `WitnessStatusProofs` | lemmas on the order, the round trip | `WitnessStatus` |
| `HistoryStatus`, `MCHistoryStatus` | the reduction over witnesses and the fold over ancestors of `Contract::state`, iteration by iteration | `WitnessStatus` |
| `HistoryStatusProofs` | proofs about `HistoryStatus` | `HistoryStatus`, `WitnessStatusProofs` |
| `Pile` | abstract specification: the promise of the trait | `WitnessStatus` |
| `Contract`, `MCContract` | one contract, handler by handler | `WitnessStatus`, instance of `Pile` |
| `ContractProofs` | proofs about `Contract` | `Contract`, `WitnessStatusProofs` |
| `PileFs`, `MCPileFs` | the pile on the file system, write by write | `WitnessStatus`, instance of `Pile` |
| `PileFsProofs` | proofs about `PileFs` | `PileFs` |
| `Contracts`, `MCContracts` | cache, registry and directories of several contracts | `WitnessStatus` |
| `ContractsProofs` | proofs about `Contracts` | `Contracts` |
| `Wallet`, `MCWallet` | payments over allocations of several contracts, as a protocol of calls | |
| `WalletProofs` | proofs about `Wallet` | `Wallet` |
| `Purse` | abstract specification: where the state of a payer goes | |
| `Payment`, `MCPayment` | the amounts, seals and tokens of payments | instance of `Purse` |
| `PaymentProofs` | lemmas on sums over sets, proofs about `Payment` | `Payment` |
| `OperationSource` | abstract specification: what the evaluation expects of a reader of operations | |
| `Consignment`, `MCConsignment` | the three readers of a consignment | instance of `OperationSource` |
| `ConsignmentProofs` | proofs about `Consignment` | `Consignment` |

`Pile` is the seam: `PileFs` implements it from below (a crash between writes
leaves no inclusion half in effect, as seen through `Complete` pairs), and
`Contract` stays within it from above (it calls the pile in no way the promise
rules out). Both are refinements stated with `INSTANCE Pile WITH ...`, checked
by TLC and proved.

`OperationSource` is the seam between the byte stream and `Contract`: the actions
`BeginConsume`, `ApplyOperation`, `EndConsume` and `FailConsume` of `Contract` take one
operation after another, in order and each one once, and commit after the last;
`Consignment` shows that its readers give them that.

`Purse` is what a user may think of while paying: state is in the purse, put aside
for a transaction, delivered, stranded on a spent outpoint, or lost with a transaction
that was given up; it moves from the purse outwards, balanced by kind, and
only change comes back. Two exceptions are written into it: an operation may draw on what
is stranded or delivered in a bundle that is `blocked`, as it closes an outpoint the payer cannot spend,
and is never paid; and when it is `astray`, as the request names an outpoint its state is not on.
What a kind is and what it amounts to are operators the
abstract specification leaves open; `Payment` puts its names and sums there.

### State and actions against the code

**WitnessStatus.** A record with a kind and a height; `QuasiHeight` is the
code's number, `u64::MAX` is the parameter `U64Max`. `DistinctStatus` leaves out
the heights that collide with the three reserved values.

**HistoryStatus.** `best` and `worst` are the accumulators of the two loops; `Fold`
ends the inner one. `Report` is the closure `get_status` with its second argument,
the last `.worst(or)`: `ReportOwn` for global state and state on an existing output,
`ReportCopy` for the copy of state on an output of one witness transaction.

**Contract.** `known`, `valid` are the ledger's stash and applied operations,
`validDisk` what its last commit holds. `index`, `stand`, `hoard`, `mine`, `keep` are the
files of the pile, `mineDisk` the committed `mine`. `job` holds the handler that
is half way. `Call`, `CallSeals` are `Contract::call`, in the order of its two
writes; `Include`, `StandPush`, `MergeAnchor`, `Register` are `include`, which makes
`add_witness` write by write (the stored transaction comes with the anchor, and a new
entry of `mine` is not durable before the commit that follows); `BeginConsume`, then
for each block of the stream `ApplyOperation`, `ApplySeals`, `ApplyWitness` with the
steps of `include` behind it, or `NoWitness`, and `EndConsume` or `FailConsume` are
`consume_internal`; `SyncRollback` is `sync` up to the rollback (which commits the
ledger), then `SyncCommitPile`, then `SyncForward`; `SyncRollbackErr` and `SyncForwardErr`
are their errors, with any part of the work done. `Crash` ends the process and loads the
contract again, and is possible in every state. `Retrieve`, `HistoryStatus`,
`Listed` and `Consign` model the readers. A cell abstracts a piece of owned state: where
its seal is defined, and who knows the definition. The `issue` of the contract is `Init`.

The code does not keep ledger and witnesses in step in every case. An operation
may be called again after a sync rolled it back; it may be included or
consumed with a witness that is held as archived, or consumed without one; the process
may die between `apply_operation` and the commit of its witness; a rollback
may fail part way; the ledger may re-apply more than it was asked for.
None of these is excluded from the model. `exposed`, a history variable no guard reads,
collects the operations for which one of them has happened while all of their witnesses
were archived, and the properties are stated of all other operations whose inclusions
are complete (`Unprotected`). What must not happen is that an operation gets
there in any other way, by a sync above all.

**PileFs.** One variable per file (`stand` is the reverse of `index`), `mine`
twice. `add_witness` is five actions, one per write, in the order of the code,
then `CommitInclude`. `Crash` is possible between any two.

**Contracts.** `registered` is the set `StockpileDir` keeps, `dir` says for each
id whether there is no directory, one without all of its files, or a complete
one, `cache` the contracts in memory. Of what a contract holds only the status of
one witness all contracts share is kept (`disk`, `cache`), and whether its files
define the wallet's seals (`sealed`). A creation is three actions
(directory, files, registration), with a failure possible at each, and `sync` is
one action per contract, in any order. Where the code panics, the model goes to
`Dead`, from which only `Restart` leads on. An import has two identifiers, that of the
header, under which it is cached, and that of the articles, under which its directory
and its registration are; `Mismatched` lists pairs that differ. `copyOf` says whose
files a cached contract writes to, and the history variable `mixed` which identifiers
such an import has touched since the last start: the properties leave these out.

**Wallet.** `live` is the owned state of all contracts as allocations on
outpoints; `requests` what the caller got from `fulfill`; `job` the call of
`bundle`: the requests it was given one by one (`Prefab`), then the blank
requests for other contracts (`Blanks`), then those one by one. The requests come from an
iterator: beside any of those of `fulfill` it may yield one a user has `Written`, of any state
the contract shows and with any outpoints of transactions there are, as nothing compares
the two. `Include` links all operations of a bundle, `IncludeErr` only some. State on an
output of a transaction is `Shown` only when its operation is linked, and state that
arrived by the import of its contract (`hidden`) only when it is received again.
Amounts are not modelled, so that `fulfill` takes any non-empty selection and leaves change
or does not, and of the other state of its kind on the outpoints it selected leaves any
part out (`left`), as the code does when a sum overflows; which part that is is the
question of `Payment`.

**Payment.** The other half of the wallet: what the calls compute. An allocation
has a contract, a name, an amount and an authentication token; `live` is the
state of the contracts, `made` all outputs ever made, `defined` the seals the
payer's piles keep, by operation and number of the output. `Fulfill` selects
anything that is enough (`Coinselect` is a trait of the caller), adds the `Others`
on the same outpoints until they overflow `U64Max` (one by one: the order of the
iteration is that of hashes, so any maximal set), and computes the change; `Script`
is a request a user wrote, balanced or not, that uses any state the contract shows and
names any outpoints there are (`check_request` looks in the state of the contract, and
nothing compares `UsedState::outpoint` with the seal). Requests are plain values: they are kept in `requests`
whatever becomes of a bundle, and `BeginBundle` takes any of them in any order (`Selections`),
copies and stale ones as well. It resolves the seals,
`Prefab` is `check_request`, the seals and tokens, and the call of the contract;
`CheckErr`, `CheckPanics` and `CallErr` are its failures, after which the
transaction of the bundle never exists. `Blanks` makes the blank requests, `Pay`
includes and broadcasts, unless the bundle is `Blocked` by an outpoint that is spent or not the
payer's, and `Abandon` makes no transaction. The payee finds an output by its seal, which
comes with the consignment (`Consigned`), or by the resolver of `consume`
(`ResolvedByPayee`), which is asked only for a contract that is known (`PayeeKnows`). A token of an output is a term over what the code hashes:
two are equal when their terms are. An address is the transaction, the number of the
operation in its bundle and that of the output: `RepeatsToken` compares the outputs of
one operation, as the seal resolver of `consume` does. The state calculator (crate `hypersonic`) is a
sum that refuses to overflow and to go below zero.

**Consignment.** `file` is any consignment: a version that is supported or not,
a number of blocks in the stream, the number that is declared, a witness of the
genesis or none, an operation the evaluation will refuse or none, a signature that is
right or not. `pos` is how far the stream is read, `count` the counter of the
reader, `held` what the reader in memory has decoded, `given` what it has given to
the evaluation (for the dump, what it has written). `applied` is what the ledger holds
of the file, `durable` what of it is committed, `linked` what the pile holds:
`Evaluate` writes these operation by operation (`include` commits the pile each
time, the ledger may commit when it applies), so that an error leaves what was
read before it, `Commit` commits all of it, and `Again` opens the same file in the same
process or in a new one. `begun` is the directory of the contract, which an import that
failed leaves; a restart makes the contract known by it. `dumped` is the directory
the dump writes to: without `--force` it fails on the files of an earlier dump.
`Consume` chooses the reader by whether the contract is known:
`Decode*`, `CheckArticles`, `ReadHeld`, `HeldEnd` are the one in memory, `BeginStream`,
`ReadStream`, `StreamErr`, `StreamEnd`, `UpgradeApis` the stream, `Dump*` the command
line. A count of `U32Max` makes `OpReader` read a count where none is: `Counted` then
takes any number, and the rest of the stream is `torn`, so that nothing more can be
decoded from it.

## 3. Runs

| Run | Question | Instance, and why it is enough |
|---|---|---|
| `history_status` | Is the computed status the documented maximum over minima, for any order of iteration, and what is that of the copies? | 2 operations, every set of 5 statuses each; the fold is associative over operations, so two of them meet every pair of accumulators |
| `contract_sync` | Do ledger and statuses stay in step, in memory and on disk, and does the contract keep to the promise of its pile? | two operations that share a transaction, a replacement for one of them, syncs with 2 entries, a death between any two writes |
| `contract_rivals` | Do histories stay histories, and is their state shown valid? | a chain of two operations and a rival that spends the inputs of the first, so that they take turns; statuses tentative, mined and archived |
| `contract_include_claim` | `include` is said to put the operation into the state | as `contract_sync`; violated |
| `pile_fs` | Do the files keep their order through crashes, and is the trait implemented? | 2 operations, 2 witnesses: bundles, replacements, interrupted and repeated inclusions |
| `consignment` | Does each reader read a consignment as a whole, once, in order, and accept what is good? | all files of up to 4 operations; the limit is 2, so that files are within it, on it and above it, and the largest count is 4, so that a file of 4 hits the sentinel and one of 3 does not |
| `contracts` | Are cache, registry and directories coherent? | 2 contracts and a foreign directory, mismatched consignments, failures, panics and restarts anywhere |
| `contracts_known_claim` | Do calls panic for unknown ids only? | 2 contracts; violated |
| `contracts_resolve_claim` | Does `consume` resolve the wallet's seals? | 2 contracts; violated |
| `wallet` | Is state of other contracts left on spent outpoints? | 2 contracts, 2 kinds of state on an outpoint, the other contract imported by a payment that arrives, 2 bundles, in each a request of `fulfill` and one written by hand |
| `wallet_cover_claim` | Does a bundle cover all state on what it closes? | as `wallet`; violated |
| `payment` | Are amounts conserved, can every output be found by its owner, and does state move one way only? | 2 contracts, 2 kinds of state, 2 outpoints, `U64Max = 3` with three allocations of 5 in sum on one outpoint (one does not fit and a later one does) and a blank operation that overflows, 2 requests, bundled in any order, twice, late or never; one contract known to the payee (556 374 states) |

What the passing runs show:

- *Status of state*: a piece of state is archived exactly for a dead ancestor or as the copy
  on an archived transaction (`ArchivedIffDeadAncestor`), and `FoldMeetsFormula`.
- *Contract*: `StateWitnessed` and `DiskWitnessed` (no operation stays applied
  with archived witnesses only, now or after a restart at any step, but for those that came
  in by the ways above), `AnchorProvesOps` (a complete inclusion stays complete when others
  join it and when the process dies in between, and a repeated one is completed),
  `ReportedStateValid`, `HistoryConsignable`, `HistoriesConsistent` (no double
  spend and no gap, whatever took turns; checked with the two rivals),
  `OnlyLostWitnessDrops` (nothing leaves the state but for a lost last
  witness of a history, or a restart before a commit), `ConsumedApplied` (a consume that ends well has brought
  back what was rolled back).
- *Pile*: `WriteOrder`, and `ImplementsPile` twice.
- *Collection*: `CacheBacked`, `SyncReachesDisk` (a sync without an error is
  complete and durable, after any earlier failure), `OnlyPurgeLoses`.
- *Wallet*: `LeavesOnlyUnasked`, `OthersMoved`.
- *Payment*: `Conserved` (what a contract has issued is all there, whatever was
  bundled, failed or given up), `MadeToPass` (a request made for an invoice and a blank
  request pass the check of amounts, and no request of the same bundle takes the
  inputs of a blank one: the panic of `check_request` is never theirs),
  `LeftOnlyOverflow` (state of the invoiced kind stays on a spent outpoint only if
  it would have overflowed the change), `Accounted` (a live allocation is on an outpoint
  of the payer, or was left on one, or waits for its transaction, or the payee finds
  it; `Missed` says what its resolver misses: a token that a script repeats in one operation, and
  any token of a contract that is imported),
  `ImplementsPurse` (whatever fails and however old a request is, an operation gives as much of
  each kind as it takes and takes nothing made for a transaction that waits or was given up, and
  takes from the payee or from a spent outpoint only as `Purse` says: in a bundle
  that cannot be paid, or by a request with a wrong outpoint. Both cases are reached in the run).
- *Consignment*: `AcceptedWhole`, `StoredInOrder` (after errors, failed imports and
  restarts the ledger, its disk and the pile hold a beginning of the history each; not
  promised: the operations of a known contract are committed before the signature of
  their file is checked, the place "rejected"), `ImplementsSource`, `GoodAccepted`.

Bounds: `U64Max = 7` leaves room for four heights below the reserved values.
`MaxChanged` is 2: two entries are what it takes for two
witnesses of one operation, two operations of one witness, and a repeated
witness to change in one call. In `wallet`, `MaxTx = 2` and `MaxRequests = 1` let a request
be prepared before one bundle and used in the next, as a bundle of the request a user writes
alone (`MaxWritten = 1`, which is also the number of allocations it uses) does not take it;
and a bundle may have both. No other counter is bounded; all
other sets are finite by the instance.

In `payment` `MaxRequests = 2` is the number of requests of a behaviour and the length of
a bundle, so that two bundles of one request, with the change of the first spent by the second,
one bundle of two, and a request kept over a bundle of another one are all reached. `MaxTx = 2`
bounds the bundles, and `MaxUsed = 2` the state a request uses that a user writes: two allocations on
one outpoint, or on two of which one is wrong.

Deadlock is checked, except in `history_status`, where the computation ends,
and in `wallet` and `payment`, where a panic and the end of the transactions stop
the system.

**Fairness.** `FairSpec` of `Consignment` is `Spec /\ WF_vars(Reading)`: once a
call has chosen its reader, it runs to its end. This is what a loop of a
synchronous function on a thread does; nothing makes a user begin a call (`Consume`,
`Dump`, `Again` are not fair), and a process that dies in a call is module `Contract`. Under it `GoodAccepted` says that
a good consignment is accepted by each reader: no reader stops short, asks for
more than was declared, or is hindered by a call made before it (but a dump by the files of
another one). No
other specification assumes fairness. Each of their steps is a call of a user, or a
step of a call that may fail or die at any moment, and there is no retry, no queue
and no waiting. The one candidate for a liveness property, "an operation whose
witness is valid again is eventually back in the state", is not kept by the code
(finding 1 and the hazards at `contract.rs:588`).

## 4. Proofs

All theorems hold for any constants that meet the named assumptions
(`U64MaxAssumption`, `ContractAssumption`, `PileFsAssumption`,
`HistoryAssumption`, `ConsignmentAssumption`, `ContractsAssumption`,
`WalletAssumption`, `PaymentAssumption`): any number of operations, witnesses, cells and statuses, of
contracts, allocations and outpoints, any graph of ancestors that is reflexive and transitive and
contains the definers of spent cells, any relation of transactions and operations,
any limits of counts and any length of a stream, any amounts, invoices and payment
scripts.

- `WitnessStatusProofs`: the stored form reads back (`StoredStatusReadsBack`);
  the order is total on `DistinctStatus`, so that a finite set has a best and a
  worst one, and `BestIsValidIffOneIs`, `WorstIsValidIffAllAre` turn statuses into
  statements about validity. Everything below uses the order only through these.
- `ContractProofs`:
  - `Base` is inductive: types, what an inclusion has written so far
    (`InclusionAtHand`), that what an anchor proves is linked both ways
    (`LinksNested`), that what is applied or linked is in the stash (`StashHolds`),
    and what the commits of a sync have made equal (`SyncCommitted`).
    It gives `TypeCorrect` and `AnchorsSufficient`.
  - `HistoriesConsistent` is inductive over `Base`: `ApplyConsistent` and
    `RollbackConsistent` are its two lemmas. That a rollback or a re-application
    that fails leaves a history is what the model assumes of the ledger.
  - `DurableOpsStay` is a fact about each step under `Base`: only a sync shrinks the
    state, and it removes no more than what depends on an operation that lost its
    last valid witness.
  - `ConsumeApplies` needs that the genesis is never rolled back (it has no
    witness, and has no ancestor but itself) and that a consume under way has
    applied all it read (`GenesisStays`, `JobApplied`).
  - `LedgerFollowsWitnesses` and `RestartFollowsWitnesses` use `Synced`. Neither
    property is inductive: a crash brings back the old ledger and the old statuses, each
    at a moment of its own, and a commit carries the new ones to disk. So an operation in
    either ledger must have a valid witness in both versions of the statuses, and what
    is about to be re-applied must be valid (`JobLive`). The step that matters is
    `RollbackSynced`: an operation that dies is found by sync, as its links are complete,
    and is rolled back. `RegisterSynced` is why a repeated inclusion may bring
    an interrupted one into effect.
  - `HistoriesConsignable` and `StateShownValid` follow from these and from the
    closure under ancestors that `HistoriesConsistent` states.
  - `ContractImplementsPile`: each write is an `Attempt`, a `Record`, a
    `CommitStatuses`, or a stutter of `Pile`.
- `PileFsProofs`: `IInv` adds to `WriteOrder` what the half-way inclusion has
  written so far (`JobOrder`) and that a status in memory comes with a stored
  transaction (`StatusOrder`). `WriteOrder` alone is not inductive: what a write
  may rely on is in `job`. It gives `PileTypeCorrect`, `WritesOrdered` and, with
  a lemma on how each write changes the complete pairs, `PileFsImplementsPile`.

- `HistoryStatusProofs`: as the code folds one element at a time, its accumulators
  are variables and the proof is an invariant, not an induction over a set: `best`
  is the best of the witnesses read (`Reduced`), `worst` the worst of the
  statuses folded (`Folded`). As the quasi-heights of `DistinctStatus` are distinct,
  the extreme of a set is unique (`BestOfUnique`, `WorstOfUnique`) and grows with it
  (`BestOfOneMore`, `WorstOfOneMore`), whatever the order. It gives
  `HistoryTypeCorrect`, `FoldIsFormula` and `ArchivedByDeadAncestor`.
- `ConsignmentProofs`: a sequence that is read is known by its length, `Upto(n)`.
  The invariant has one part per reader: where the call is, `held` and `given` are
  `Upto` of `pos` (`InMemory`, `AsStream`, `AsDump`), and `count` is what is left of the
  number declared unless this is the sentinel. `AcceptedWhole` alone is not
  inductive, as it says nothing of a reader half way. For `StoresHoldBeginning` the
  stores are three lengths in order (`Stored`), and what this call has given is within
  the ledger (`Evaluated`): the next operation then extends each store by one
  or not at all (`EvaluateStored`). `ReadersImplementSource` maps
  each step to `Give`, `None`, `Fail`, `Open` or a stutter; `GoodAccepted` is liveness and
  stays with TLC.

- `ContractsProofs`: `CacheBacked` is not inductive alone. A creation is several
  steps, so what its directory holds at each of them is needed, and that the
  contract is not cached before the last (`Creating`). A mismatched import must not reach a
  third contract: what is mixed up writes only to the files of what is mixed up (`Apart`). `SyncReachesDisk` needs what a
  sync has done so far (`Syncing`), and `OnlyPurgeLoses` that memory and disk agree on
  whether the witness is known (`CacheKnows`): otherwise a call could write an older
  view over it. A call on one contract and its part of a sync are one relation
  of the two states, `Touch`, with its effect proved once (`TouchKeeps`).
- `WalletProofs`: `LeavesOnlyUnasked` speaks of bundles that were returned; the
  invariant follows an outpoint from the selection. An outpoint is settled once all
  that was ever assigned to it is resolved (`Settled`): only such outpoints are
  spent or selected by `fulfill`. A user may close others, but none that does not exist yet
  (`Existing`, `OnlyMade`), and since the output of the transaction in preparation does not
  (`OwnOutNotSettled`), nothing that a bundle makes lands on what it
  or another one closes. With that, a request for an invoice uses all of its kind where
  it selected but what it left (`Whole`), what applied requests use is gone (`Gone`), and the
  blank requests hold what the other contracts show (`Blanked`).

- `PaymentProofs`: an amount is a sum over a set, which the community modules compute
  by a fold, and no backend knows what a fold is. So the sums come first: the
  equation that defines a fold has one solution (`SumExists`, `SumUnique`), from
  which follows what a sum does when an element is added (`SumAdd`), over a union of disjoint sets
  (`SumUnion`) and through a bijection (`SumBijection`). These are inductions over
  the subsets of a finite set; as an induction theorem cannot be instantiated here, a
  family of sets stands for the predicate (`SubsetInduction`), and a minimal counterexample for the
  induction (`MinimalSubset`, from the well-foundedness of strict subsets).
  The invariant `Inv` then holds each property with what it needs:
  - `Conserved`: an operation replaces what it uses by outputs of the same sum
    (`PrefabConserved`). It needs that the outputs are new, so that nothing merges:
    no address is given twice (`Addresses`). A blank operation balances by what
    `BlankFacts` proves of its outputs, one for each name of which something is left.
  - `MadeToPass`: what `fulfill` computes balances (`InvoicedBalances`), and stays so
    while the request waits and when its seals are resolved (`Sound`, `ResolvedFacts`);
    blank requests are under as many contracts (`Apart`), so that none takes the
    inputs of another one.
  - `LeftOnlyOverflow` is a statement about the end of a bundle. Until then, what is left
    does not fit beside what a request of `fulfill` uses (`Whole`), however long it is kept:
    outputs appear only on outpoints of their own transaction (`OwnSeals`), and the outpoints
    of a request were there when it was made (`Existing` in `Sound`); and what an applied
    request uses is gone (`Applied`).
  - `Accounted`: an output is placed with the payer or the payee when its seal is
    resolved (`Placed`), has that owner after the operation is made (`Owned`, `MadePlaced`), and
    what a bundle closes stays among the spent outpoints (`OwnOutpoints`). Only an
    output of a script, or the first of a request, has a token of the payee, so that only a script repeats one.
  - `PaymentImplementsPurse` maps `Prefab` to `Operate`, `Pay` to `Deliver`, all that ends a
    bundle to `Abandon`, and the rest to a stutter. What is on an outpoint of the wallet
    was issued or made for a paid transaction (`ShownPaid`), so that state put aside and state
    in the purse are apart; this takes that a seal is on an output of the transaction
    of its operation (`OwnSeals`). A request of any age uses what was issued or made for a paid
    transaction (`Sound`), which is never what waits or was given up; that it is in the purse
    follows at the operation from `Straight` and from the outpoints the bundle closes being unspent.

What is only model-checked: `GoodAccepted`, which is liveness. The claims that are
violated need no proof. All safety invariants and action properties of the passing
runs, and the refinements (of `Pile` twice, `OperationSource` and `Purse`), are proved.

## 5. Findings

Four statements of the documentation that the modelled code does not keep; each
is a run that ends with a violation.

1. `include` does not bring a rolled back operation back into the state
   (`contract.rs:635`), although its documentation says so.
2. A failed import, followed by a restart, leaves an id that is known and for
   which every call panics, `sync` of all contracts included
   (`persistence/fs/src/stockpile.rs:190`).
3. `consume` drops the seal resolver when it imports a contract
   (`contracts.rs:449`).
4. `fulfill` and `bundle` leave state of another kind of the paying contract on
   the outpoints they close (`popls/bp.rs:675`). State of the same kind is left as well when
   its amount does not fit (`bp.rs:495`); that is no part of this run. `LeavesOnlyUnasked`
   states what is left beside these two.

Met while modelling, without a run of their own:

- A crash inside `add_witness` leaves a witness linked without the status that
  `witness_status` gets by `get_expect` (`persistence/fs/src/pile.rs:113`, `152`):
  `WriteOrder` says which prefixes of the writes a crash leaves, this one is the first.
- Of two entries of one `sync` on the same witness the last one need not stand
  (`contract.rs:536`); `tests/reorgs.rs:48` calls such a pair idempotent.
- `check_request` panics, with "unknown state included in the contract stock", for a
  bundle of two requests `fulfill` has made one after the other from the same
  allocations (`popls/bp.rs:558`): `fulfill` reserves nothing. `PrefabPanics` and
  `CheckPanics` are these steps.
- `consume` never compares the identifier in the header of a consignment, which it asks the
  registry for and caches the contract under (`contracts.rs:432`, `450`), with that of its
  articles, which the stockpile creates and registers (`stockpile.rs:190`). When they differ
  the contract is cached under an identifier that is not registered. `CacheBacked` states
  what holds beside that.
- `prefab` closes the outpoints its caller wrote, whatever state the request uses
  (`popls/bp.rs:594`). One that closes an output of a transaction not yet included destroys
  state no contract shows and no blank operation moves; likewise state that arrived by
  the import of its contract. `OthersMoved` says what is moved: all that is shown.
- The limit `MAX_CONSIGNMENT_OPS` is kept by the reader in memory only, and a witness
  of the genesis is refused in memory and by the dump and taken from a stream.
- The documentation of `Coinselect` speaks of a "Sorted vector by values"
  (`popls/bp.rs:76`); `fulfill` gives it state in the order of addresses.
- The documentation of the status of owned state (`contract.rs:128`) says that "the best
  confirmation is used" of several witnesses; the copy of state on the output of a
  replaced transaction has the status of that transaction (`contract.rs:494`), beside the
  copy on the live one. `FoldMeetsFormula` states what is computed for each.
- The documentation of `Pile::add_witness` says that a witness is registered as
  archived; `Contract::include` passes `Tentative`.

## 6. Plan

All of it is done, in the order of importance: `WitnessStatus`, `Contract` with its pile,
`PileFs`, proofs of these; `Contracts` with the stockpile; `Wallet`; `Consignment` and
its proofs; proofs of `HistoryStatus`; `Payment`; proofs of `Contracts`, of
`Wallet` and of `Payment`.

Left out on purpose: a composition of `Contract` with `PileFs` write by write. The
two are related through `Pile`, which one implements and the other keeps to, and
whose implementation is proved.

## 7. Not modelled

- `stl` (type library), `util`, the other commands of the command line, the file
  container of consignments: formatting, code generation and I/O, no state of
  their own.
- `popls/prime.rs`: a placeholder.
- The text form of invoices: formatting and parsing of data without a state.
- Articles, APIs, codex and their signatures; the computation of state by
  the contract's scripts: evaluated outside of the repository. A failure of any
  of them is `FailConsume`, or `refused` and `articles` of a file.
- State that is not fungible, and the order in which a coin selection prefers
  allocations: any selection that is enough is allowed.
- Global and aggregated state: derived by the ledger from the applied operations.
- The lookup of cells by authentication token in the ledger.

Of the hazards in `PROJECT.json`, those without a property say why there.
