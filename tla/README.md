# TLA+ models of the Armory main window (src/ArmoryQt.py)

This directory holds TLA+ models of the ledger-aggregation and blockchain-sync
logic in `src/ArmoryQt.py`, TLC configurations that model-check them on small
instances, and TLAPS proofs about them. `PROJECT.json` lists the components, the
runs, the mutants, the map from every model definition to the source lines it
translates, the findings, the hazards and the theorems.

## 1. The system

`ArmoryQt.py` is a single PyQt4/Twisted window class. The spec (`spec.md`)
splits the logic into six components. This is where each one sits in the code:

| component (spec) | code | state it owns |
|---|---|---|
| WalletRegistry (4.1) | `loadWalletsAndSettings` 237-316 | `walletMap`, `walletIndices`, `walletIDSet`, `walletIDList`, `walletBalances` (-1 each), `walletOfflines`, settings `Load_Count`/`First_Load` |
| BlockchainSyncCoordinator (4.2) | `loadBlockchain` 333-368; the poll in `Heartbeat` 551-556 | `latestBlockNum`, `walletBalances`, `walletSubLedgers`, `walletLedgers`; TheBDM (C++) |
| LedgerAggregator (4.4) | `createCombinedLedger` 417-481, `convertLedgerToTable` 485-525 | `combinedLedger`, the two fund labels, `ledgerTable` |
| ZeroConfTracker (4.3) | `createZeroConfLedger` 372-413 (never called); the factory's `zeroConfTx`/`zeroConfTxTime` | the factory maps (armoryengine) |
| NetworkConnectionManager (4.5) | `setupNetworking` 222-231 | the factory's connection |
| HeartbeatScheduler (4.6) | `Heartbeat` 544-568, `extraHeartbeatFunctions` 59-60 | the `callLater` chain |

How they interact:

* The constructor loads the wallets, then builds the widgets (the radio buttons
  are wired to `createCombinedLedger` at 152-154, "All wallets" checked), then
  calls `loadBlockchain` and converts the combined ledger into the table.
* `loadBlockchain` loads the block file into TheBDM and reads the tip. If the
  BDM initialized, it syncs every wallet, in `walletMap`'s iteration order. It
  writes `walletBalances[walletIndices[id]]` and *appends* to
  `walletSubLedgers` and `walletLedgers`. It then calls
  `createCombinedLedger(walletIDList)`.
* `createCombinedLedger` picks the wallet ids from the checked radio button. It
  refreshes `walletLedgers[index]` from each wallet, collects `[id, entry]`
  pairs and sorts them newest first. Inside a `try` that only catches
  `AttributeError`, it then sums the two totals against `latestBlockNum`, sets
  the labels and converts the table.
* `convertLedgerToTable` computes `nConf = latestBlockNum - height + 1`. A row
  with `nConf > 0` gets the *top* header's timestamp. Any other row gets
  `zeroConfTxTime[hash]`, which raises `KeyError` when there is no record.
* `Heartbeat` reads new blocks into TheBDM. It refreshes `latestBlockNum` only
  when no block was new. It overwrites `walletBalances` in a loop, runs
  `createCombinedLedger`, and reschedules itself as its last statement.

Things that are commented out in this revision: the first `callLater` of the
heartbeat (219), the initial `connectTCP` (231), and the zero-conf pairs in
`createCombinedLedger` (448, 450).

The code runs on one thread (the Qt/Twisted reactor). Concurrency is therefore
an interleaving of whole handlers: a radio click, a heartbeat, and the
collaborators that change between them. Those collaborators are bitcoind
appending blocks, and the network factory recording and dropping zero-conf
transactions.

## 2. Modules

* `ArmoryMain.tla` covers the main window after the wallets are loaded: the
  BlockchainSyncCoordinator, LedgerAggregator and HeartbeatScheduler, with the
  ZeroConfTracker and NetworkConnectionManager at their interface.
  * Variables: the block file (`diskTop`, `blockOf`), TheBDM (`bdmLoaded`,
    `bdmInit`, `bdmTop`, `wltTop` = the height the C++ wallets were scanned
    to), the window's fields under their code names, the checked radio button
    (`selection`), the heartbeat chain (`hb`: off/alive/dead), the connection
    (`conn`) and the factory's zero-conf map (`zcTx`).
  * Actions: `LoadBlockchain` (the whole of `loadBlockchain`, with the
    constructor's conversion), `SelectWallets(s)` (a radio click), and
    `StartHeartbeat`.
  * `Heartbeat` is one action for the whole method: poll, balance loop,
    `createCombinedLedger`, and a reschedule that an exception skips.
  * Environment actions: `MineBlock`, `Connect`, `ConnectionMade`,
    `ConnectionLost`, `ZeroConfTxSeen`, `ZeroConfTxConfirmed`.
  * `CreateCombinedLedger(ids, lat, top, hdr, wl)` is the method as one step.
    It either raises `IndexError` in the loop, or sets the totals and then
    either replaces the table or raises `KeyError` and keeps the old one.
    `CCLRaises` says whether it raised.
  * The sort is written as ranking. The entry at position k has k-1 entries
    before it in the order `SortsBefore`: height, then index in the block, then
    (stability) the wallet's position in the id list.
  * Data is abstracted: an entry is `[wlt, tx, h]`, a total is the set of
    entries summed into it, a balance is the wallet it was read from, and a
    timestamp is the height of the header it was read from.
* `WalletRegistry.tla` covers `loadWalletsAndSettings`. The input files (their
  ids, whether they read, the exclusion list) are chosen in `Init`.
  `ReadSettings` handles the counters and the path list. `LoadWallet` is one
  pass of the loop for one path, with three outcomes: raise, skip, register.
  `FinishLoading` ends the loop.
* `LedgerView.tla` is the abstract specification of what the window promises
  (spec 3, 4.2 and 4.4), written without reference to the code:
  * the chain grows by `Mine`;
  * a `Refresh(s)` moves the tracked tip forward, no further than the chain;
  * the wallets' ledgers are those of some height no later than that tip;
  * the view is every confirmed entry of exactly the wallets that the spec's
    watch-only policy chooses for `s`, newest first;
  * its rows take nConf from the tip, and the two totals split the entries at
    6 confirmations.

  `ArmoryMain` instantiates it as `LV` with a refinement mapping. The abstract
  watch-only wallets are `ListedWatchOnly`, the wallets `determineWalletType`
  calls WatchOnly (what `filt` tests, 425-429). The abstract
  view is `combinedLedger`, and the abstract rows are `ledgerTable` cut down to
  wallet, transaction and nConf (`TableRows`). The tip is `latestBlockNum`, the
  scan height is TheBDM's `wltTop`, and the totals are `totFund`/`unconfFund`.
  `LedgerViewRefined == LV!Spec`.
* `MC_ArmoryMain.tla` and `MC_WalletRegistry.tla` give the constants small
  values: wallets, transactions and paths as model values.
* `RankLemmas.tla` holds the two counting lemmas both proof modules rest on.
* `ArmoryMainProofs.tla` and `WalletRegistryProofs.tla` hold the TLAPS proofs
  of the invariants. `LedgerViewRefinementProofs.tla` holds the proof that
  `ArmoryMain` implements `LedgerView`.

Constants stand for what the code gets from outside. `MapOrder` is the
iteration order of the `walletMap` dict, which CPython does not tie to
insertion order. `EngineScansWallets` says whether `TheBDM.readBlkFileUpdate()`
also rescans the registered wallets. The C++ engine is not in this repository,
so the runs are done with both values where it matters.

## 3. Runs

### Passing runs

**`main`** (`ArmoryMain.cfg`, about 86,000 distinct states, about 10 s):
* `TypeOK`.
* `CombinedLedgerSorted`: the combined ledger holds each scanned entry of
  exactly the selected wallets, once, and never has a newer entry after an older
  one. This holds whichever handler last rebuilt it and whatever was mined
  since.
* `LedgerViewConsistent`: the table has one row per entry, in order, with
  `nConf = latestBlockNum - h + 1 >= 1`, and the two totals partition the
  entries at 6 confirmations.
* `HeartbeatSurvivesWhenLoaded`: once the chain has loaded, no heartbeat raises.

`EngineScansWallets = FALSE` in this run. With the other value the last two
fail (see `stale_table`); `main_rescan` checks what still holds then.

**`registry`** (`WalletRegistry.cfg`, 2,176 states):
* `TypeOK`.
* `FirstLoadedWins`: every id is held by the first readable, non-excluded file
  with it. The offline set is given by ids and paths.
* `IndicesMatchList`: `walletIndices` gives each id's position in
  `walletIDList`, and the balance list has one slot per id.

`CHECK_DEADLOCK FALSE` is set because loading ends, in `done` or `raised`.

**Refinement**: the `main` run also checks the property `LedgerViewRefined`. Every step of the window model is a step of `LedgerView`
under the mapping:
* a heartbeat or a radio click that rebuilds the ledger is a `Refresh`;
* `MineBlock` is `Mine`;
* everything else (the load, the connection, zero-conf records, a heartbeat
  that raised) leaves the mapped state alone.

This is the strongest statement the project checks. It says that whichever
handler last rebuilt the view, the view, the table and the totals agree with
each other and with a single scan height and tip. It also says that the tip
and the scan height never move backwards.

Because the mapping takes "watch-only" from `determineWalletType`, an
offline watch-only wallet counts as the user's on both sides, and the
refinement holds for any offline set. That this differs from spec 4.4's
watch-only flag is shown separately by `offline_mine`.

**`main_rescan`** (`MainRescan.cfg`, the `main` constants with
`EngineScansWallets = TRUE`, about 103,000 distinct states, about 20 s). With
an engine that rescans the wallets on a poll, the wallets can be scanned past
`latestBlockNum`, which is what breaks the three properties above
(`stale_table`). This run checks what the code still guarantees, stated for
either engine with `ScanWithinTip == wltTop <= latestBlockNum`:
* `HeartbeatDiesOnlyAheadOfTip`: after a successful load, the heartbeat is
  dead only if the scan is past the tip. So `IndexError` never kills it, and
  `KeyError` kills it only through a stale tip.
* `ViewConsistentWithinTip`: whenever the scan is within the tip, the table
  and totals are consistent with the ledger. A view left half-built by a
  `KeyError` never outlives the stale tip that caused it.
* `LedgerViewRefinedWithinTip`: the initial state is `LV!Init`, and every step
  between two states with the scan within the tip is a step of `LedgerView`
  or a stutter.

### Violation runs

Each violation run checks one statement of the spec or a code comment, and TLC
finds it broken. The findings in `PROJECT.json` give the lines.

| run | property | what TLC shows |
|---|---|---|
| `heartbeat_dies` | `HeartbeatNeverDies` | after a failed load, the first heartbeat raises `IndexError` and is never rescheduled |
| `stale_tip` | `ConfirmationsFollowTip` | after a poll that read a block, nConf is computed against the previous tip |
| `stale_table` | `LedgerViewConsistent` | with an engine that rescans, a new-block entry has nConf 0 and `KeyError` leaves the labels new and the table old |
| `balances` | `BalancesMirrorWallets` | the heartbeat replaces the balance list with one balance |
| `sub_ledgers` | `SubLedgersMirrorWallets` | sub-ledgers follow dict order, not `walletIndices` |
| `mined_listed` | `MinedTxEventuallyListed` | under fair heartbeats, a later-mined transaction is never listed when the poll does not rescan |
| `load_failure` | `LoadFailureSkipped` | an unreadable file, even an excluded one, aborts startup |
| `offline_mine` | `MineExcludesWatchOnly` | "My wallets" lists an offline watch-only wallet, since `filt` tests the wallet type, which is Offline, not WatchOnly |
| `tip_liveness` | `TipCatchesUp` | under the code's fairness (`CodeFairSpec`), the heartbeat never starts, so `latestBlockNum` never follows a block mined after the load |

`tip_liveness` uses two transactions and a chain up to 8 (`MCTxsSmall`),
because ENABLED `Heartbeat` evaluates `createCombinedLedger`.

### Bounds

The main run uses:
* two wallets, one of them watch-only, with the dict iterating them in the
  reverse of load order;
* three transactions: one in each wallet only, and one in both, so a sort tie
  on the key happens;
* transactions already mined at heights 1 or 6, or unmined;
* a chain that starts at 6 and may grow to 8.

These bounds make every case happen:
* an entry with fewer than 6 and with at least 6 confirmations;
* two blocks mined between heartbeats;
* a tie broken by wallet order;
* each radio button selecting a different set;
* the zero-conf record of a transaction present before and after it is mined.

`UnconfHeight` is 255 in place of 0xffffffff: TLC's integers are 32-bit
signed, and only "above every real height" matters.

The registry run uses:
* two ids and three paths;
* `Other_Wallets = <<p1>>`;
* a directory with p1 and p2 as wallet files and p3 a backup, so p1 is read
  twice.

`Init` enumerates every id assignment, readability and exclusion set.

### Fairness

Two fairness conditions are used:
* `CodeFairSpec` (`tip_liveness`) assumes weak fairness of `LoadBlockchain`
  and `Heartbeat` only. The constructor calls `loadBlockchain`, and the
  reactor fires a scheduled `callLater` while the program runs. Nothing in
  this revision schedules the first heartbeat (the `callLater` at 219 is
  commented out), so `StartHeartbeat` gets no fairness.
* `FairSpec` (`mined_listed`) adds weak fairness of `StartHeartbeat`. This is
  the scheduling spec 4.6 describes. The violation it finds does not depend on
  it: it is about what a running heartbeat fails to do.

No fairness is assumed of `MineBlock`. Mining is bounded by `MaxHeight`,
which stands for blocks arriving about every ten minutes against a 3-second
heartbeat: polls that find nothing new always come.

### Mutants

Each property of a passing run is broken by a plausible bug in the definition
it depends on:

| mutant | property it breaks |
|---|---|
| balances appended in dict order | `TypeOK` |
| the sort without `reverse=True` | `CombinedLedgerSorted` |
| the wallets rescanned on every poll | `HeartbeatSurvivesWhenLoaded` |
| nConf without the `+ 1` | `LedgerViewConsistent` |
| `Load_Count` without `% 10` | registry `TypeOK` |
| the exclusion list ignored | `FirstLoadedWins` |
| the index without `- 1` | `IndicesMatchList` |
| the wallets rescanned on every poll | `LedgerViewRefined` |
| the `IndexError` test off by one | `HeartbeatDiesOnlyAheadOfTip` |
| nConf without the `+ 1` | `ViewConsistentWithinTip` |
| the sort without `reverse=True` | `LedgerViewRefinedWithinTip` |

## 4. Proofs

`ArmoryMainProofs.tla` proves `TypeCorrect: Spec => []TypeOK` for every value
of the constants that satisfies the module's assumptions. The assumptions are:
* the wallet id list has no repeats;
* `MapOrder` lists the wallets;
* the transaction set is finite, and each transaction has a distinct rank;
* `UnconfHeight` exceeds `MaxHeight`.

The argument:

* `RankOntoLemma` (in `RankLemmas.tla`): for a strict total order R, given as a set of pairs, on a
  finite set S, every position k in 1..|S| is the rank of some element.
  * The rank of e is |{d : d R e}| + 1. It lies in 1..|S|, because the set
    below e is a proper subset of S.
  * It is injective, because d R e makes the set below d a proper subset of the
    set below e.
  * An injection from S into 1..|S| is onto, by `FS_Injection`.
  * The order is passed as a set of pairs rather than an operator parameter,
    so the provers can instantiate the lemma.
* `LedgerPairsType`: the collected pairs are finitely many entries, with
  heights in range. They are the image of a subset of `Elems(ids) \X Txs`, and
  a scanned transaction has height at most the scan height, below
  `UnconfHeight`.
* `SortsBeforeTotal`: the sort order is a strict total order on them. Distinct
  entries of one transaction have one height and distinct wallets, and
  `TxRank` is injective.
* `SortDescendingType`: so the sorted ledger is a sequence over the entries.
* `FilterWalletsType`: the "My wallets" and "Watching-only" filters are
  sequences of ids. This is the rank lemma on indices ordered by `<`.
* `CreateCombinedLedgerType` and `NextTypeOK`: one step per action, so TypeOK
  is inductive.

`TypeOK` is inductive as stated. No strengthening is needed, because every
conjunct bounds a value by constants.

`HeartbeatDiesOnlyAheadOfTipHolds` proves
`Spec => []HeartbeatDiesOnlyAheadOfTip` for either engine.

The property is not inductive on its own, because it says nothing about why a
heartbeat would not raise. The strengthening `LoadedInv` adds:
* the heartbeat is off until `loadBlockchain` ran;
* TheBDM's tip never passes the block file;
* after a successful load, `walletLedgers` has one slot per wallet (so there is
  no `IndexError`), and the scan height and `latestBlockNum` are at or below
  TheBDM's tip.

A heartbeat that ends with the scan within the new tip lists only entries
with `nConf >= 1`, so no row looks up `zeroConfTxTime` and there is no
`KeyError` (`CreateCombinedLedgerNoRaise`). A heartbeat that ends with the scan
past the tip may die, which the property allows. TLC checked
`TypeOK /\ LoadedInv` on the `main_rescan` instance before the proof was
written.

`WalletRegistryProofs.tla` proves `RegistryTypeCorrect: Spec => []TypeOK` and
`IndicesMatchListHolds: Spec => []IndicesMatchList` for the wallet loading
loop. They rest on `RegistryAssumption`: the id set is finite, and the settings and
the directory listing are sequences and values of their types.

* `TypeOK` is not inductive. `ReadSettings` keeps `next`, and the state before
  it could have any `next`. The strengthening `TypeInv` adds
  `pc = "settings" => next = 1`.
* The directory filter is a sequence of paths (`WalletFilePathsType`). This is
  `IndexRankOnto` of `RankLemmas`: in a finite set of integers, every position
  k in 1..|I| is 1 + the number of elements below some element.
* `IndexInv == TypeInv /\ IndicesMatchList` is inductive. Only a registration
  changes the list, and it appends the id and records the new length
  (`RegisterKeepsIndices`). TLC checked it on the `registry` instance (2,176
  states) first.

`FirstLoadedWinsHolds: Spec => []FirstLoadedWins` needs a stronger
invariant, `FirstInv`. `FirstLoadedWins` names "the first" position with
CHOOSE, and CHOOSE gives the provers nothing to work with as positions are
added. `FirstInv` therefore carries the witness itself (`HeldFirst(id)`):
* if the id is unheld, no position read so far is a loadable file with it;
* otherwise some read position holds the id's path and is at or below every
  loadable position with the id.

It also states that `walletIDSet` and `walletOfflines` agree with `walletMap`.
The steps that change the positions read are the skip and the registration.
Each adds one position, `next` (`PositionsStep`).
* A skipped file is excluded, or its id is already held, so the witness
  stays least.
* A registered id had no earlier loadable position, so `next` becomes its
  witness.

`HeldIsFirst` turns the witness back into the CHOOSE of `FirstPathOf`. TLC
checked `FirstInv` on the `registry` instance first.

`CombinedLedgerSortedHolds: Spec => []CombinedLedgerSorted` (in
`ArmoryMainProofs.tla`) holds for both values of `EngineScansWallets`.

The strengthening `SortedInv` says:
* `combinedLedger` is `SortDescending` of the selected wallets' entries at
  the scan height `wltTop`;
* `walletLedgers` has one slot per wallet once TheBDM is initialised;
* until then, the selection is "all" and nothing is scanned;
* TheBDM's tip and the scan height never pass the block file.

The steps:
* `SortDescendingSorted`: the rank listing of a set under `SortsBefore` lists
  exactly that set, once, and no neighbour pair is out of order. It comes from
  the generic lemmas `RankFacts` and `RankListSorted` of `RankLemmas.tla`:
  ranks are distinct and lie in 1..|S|, and R-earlier elements have smaller
  ranks.
* `CreateCombinedLedgerSorted`: `createCombinedLedger` leaves that sort. In
  its `IndexError` branch nothing is scanned yet, so the empty list is that
  sort too (`LedgerPairsUnscanned`).
* `MineKeepsPairs`: a block mined above the scan height changes no collected
  entry.

TLC checked `SortedInv` with both engine values before the proof was written.

`ViewConsistentWithinTipHolds: Spec => []ViewConsistentWithinTip` (in
`ArmoryMainProofs.tla`) holds for either engine.

The strengthening `ViewInv` is `LoadedInv` plus:
* before TheBDM is initialised, nothing is scanned (`wltTop = -1`), and the
  ledger, the table and both totals are empty;
* every combined-ledger entry lies at or below the scan height
  (`CreateCombinedLedgerScanned`);
* the property itself.

It is needed because the property alone does not say why a rebuild never
stops half way. Two cases can stop one:
* An `IndexError` keeps the old totals and table. It happens only before
  TheBDM is initialised, when they are empty.
* A `KeyError` in the conversion keeps the old table. It cannot happen in a
  step that ends with the scan within the tip, because every row then has
  `nConf >= 1`. A step that ends with the scan past the tip owes nothing.

The lemmas:
* `CreateCombinedLedgerView`: a rebuild with a slot per wallet, at a scan
  height at or below the tip, is consistent against that tip (`ViewAt`).
* `CreateCombinedLedgerUnscanned`: a rebuild before any scan leaves the view
  empty.

TLC checked `ViewInv` on the `main` instance (86,451 states) first.

`LedgerViewRefinedWithinTipHolds: Spec => LedgerViewRefinedWithinTip`
(`LedgerViewRefinementProofs.tla`) proves the refinement step by step, for
either engine and any set of offline wallets. A step is only required to map
when it starts and ends with the scan within the tip. With an engine that
does not rescan, every state is such a state (`LoadedInv` under `main`), and
`main` checks the unconditional `LedgerViewRefined`.

The proof:
* `RefinementInit`: the initial state maps to `LV!Init`.
* `RefinementStep`: each step between states with the scan within the tip
  maps as follows.
  * A successful `loadBlockchain`, a radio click and each `Heartbeat` are
    `LV!Refresh` steps (`CreateCombinedLedgerRefresh`, `EmptyRefresh`).
  * `MineBlock` is `LV!Mine`.
  * Every other step leaves the abstract variables unchanged.
* `FilterWalletsElems` and `SelectedIsChosen`: the wallets a button selects
  are `Chosen(s)`.
* `PairsAreSnapshot`: the collected entries are `Snapshot(s, wltTop)`.

The invariant `RefInv` is `ViewInv` plus two facts. Before the load, the
selection is "all". Until TheBDM initialises, `latestBlockNum` equals TheBDM's
tip, so the tip never moves backwards. TLC checked it on the `main` instance
first.

The instance brings its own copy of `Cardinality`, so `NewestFirstDef`
unfolds the abstract ordering predicate once, for the other steps to cite.

These stay with TLC:
* Liveness (`MinedTxEventuallyListed`, `TipCatchesUp`) and anything using
  ENABLED, which TLAPS cannot prove.
* Facts about recursive definitions, which would need induction the provers
  cannot instantiate. This is why the models use ranking instead of
  `SelectSeq` or a recursive sort.

## 5. Not modelled

* Widget construction and layout, the dialogs, and command-line parsing.
* Printing, and the formatting of amounts and dates.
* Wallet file parsing and encryption. A file is reduced to its id and whether
  it reads.
* The C++ engine's internals. It is reduced to its tip and the scan height of
  its wallets.
* Message delivery inside armoryengine's protocol.
* `createZeroConfLedger`, because nothing calls it.
* The `User_Mode` setting and `getWalletForAddr160`, which only read.
* The reconnect rate. The connection is never opened in this revision, and
  nothing in the ledger logic reads it.
