----------------------------- MODULE ArmoryMain -----------------------------
(***************************************************************************)
(* The main window of ArmoryQt.py after its wallets are loaded: the        *)
(* blockchain load (loadBlockchain), the combined ledger over a subset of  *)
(* wallets (createCombinedLedger, convertLedgerToTable), the radio buttons *)
(* that choose the subset, the periodic Heartbeat, and the collaborators   *)
(* that change under it: the block files on disk, the block data manager   *)
(* TheBDM, and the networking factory's zero-confirmation map.             *)
(*                                                                         *)
(* Data is abstracted to what the properties tell apart: a ledger entry is *)
(* a (wallet, transaction, height) record, a balance is the wallet it was  *)
(* read from, a total is the set of entries summed into it, a timestamp is *)
(* the height of the block whose header it was read from.                  *)
(***************************************************************************)
EXTENDS Integers, Sequences, FiniteSets

CONSTANTS
    WalletIDList,       \* self.walletIDList as loadWalletsAndSettings left it
    MapOrder,           \* the iteration order of the dict self.walletMap
    WatchOnly,          \* ids of wallets whose file says watchingOnly
    Offline,            \* self.walletOfflines
    Txs,                \* transactions that touch some loaded wallet
    TxWallets,          \* TxWallets[t]: the wallets whose ledger t enters
    TxRank,             \* position of t inside its block (LedgerEntry index)
    StartHeight,        \* height of the chain on disk when Armory starts
    InitHeights,        \* heights at which transactions may already be mined
    MaxHeight,          \* bound on the chain height (blocks mined by bitcoind)
    UnconfHeight,       \* the "not in a block" height, 0xffffffff in the code
    EngineScansWallets  \* does TheBDM.readBlkFileUpdate rescan the wallets?

Elems(s) == {s[k] : k \in DOMAIN s}

WalletIDs == Elems(WalletIDList)
NumWallets == Len(WalletIDList)

ASSUME WalletListAssumption ==
    /\ WalletIDList \in Seq(WalletIDs)
    /\ \A i, j \in DOMAIN WalletIDList : WalletIDList[i] = WalletIDList[j] => i = j
ASSUME MapOrderAssumption ==
    /\ MapOrder \in [1..NumWallets -> WalletIDs]
    /\ {MapOrder[i] : i \in 1..NumWallets} = WalletIDs
ASSUME WalletFlagsAssumption == WatchOnly \subseteq WalletIDs /\ Offline \subseteq WalletIDs
ASSUME TxAssumption ==
    /\ IsFiniteSet(Txs)
    /\ TxWallets \in [Txs -> SUBSET WalletIDs]
    /\ TxRank \in [Txs -> Nat]
    /\ \A t, u \in Txs : TxRank[t] = TxRank[u] => t = u
ASSUME HeightAssumption ==
    /\ StartHeight \in Nat /\ MaxHeight \in Nat /\ StartHeight <= MaxHeight
    /\ InitHeights \subseteq 0..StartHeight
    /\ UnconfHeight \in Nat /\ UnconfHeight > MaxHeight
ASSUME EngineAssumption == EngineScansWallets \in BOOLEAN

\* The confirmation count below which createCombinedLedger counts a value
\* as unconfirmed (the literal 6 in the code).
MinConfirmations == 6

\* The column of the zero-conf arrival time: a row whose timestamp was read
\* from zeroConfTxTime rather than from a block header.
ZeroConfTime == -1

Heights == 0..MaxHeight
Entry == [wlt : WalletIDs, tx : Txs, h : Heights]
Row == [wlt : WalletIDs, tx : Txs, nConf : Int, time : Heights \cup {ZeroConfTime},
        mine : BOOLEAN]

VARIABLES
    diskTop,          \* height of the last block bitcoind wrote to blk0001.dat
    blockOf,          \* blockOf[t]: height of the block holding t, or UnconfHeight
    bdmLoaded,        \* loadBlockchain has run (the window is constructed)
    bdmInit,          \* TheBDM.isInitialized()
    bdmTop,           \* TheBDM.getTopBlockHeader().getBlockHeight()
    wltTop,           \* last height scanned into the C++ wallets, -1 if never
    latestBlockNum,   \* self.latestBlockNum
    walletLedgers,    \* self.walletLedgers: per wallet index, its ledger's txs
    walletSubLedgers, \* self.walletSubLedgers: whose address ledgers, per slot
    walletBalances,   \* self.walletBalances: whose balance, per slot (or one id)
    combinedLedger,   \* self.combinedLedger: sequence of entries
    totFund,          \* entries summed into lblTotalFunds
    unconfFund,       \* entries summed into lblUnconfirmed
    ledgerTable,      \* self.ledgerTable: the rows on screen
    selection,        \* which of rdoAllWallets / rdoMyWallets / rdoWatchOnly
    hb,               \* the Heartbeat timer chain: "off", "alive" or "dead"
    conn,             \* the peer connection: "none", "connecting" or "up"
    zcTx              \* DOMAIN of NetworkingFactory.zeroConfTx / zeroConfTxTime

chainVars == <<diskTop, blockOf>>
bdmVars   == <<bdmLoaded, bdmInit, bdmTop, wltTop>>
viewVars  == <<latestBlockNum, walletLedgers, walletSubLedgers, walletBalances,
              combinedLedger, totFund, unconfFund, ledgerTable, selection, hb>>
netVars   == <<conn, zcTx>>
vars      == <<chainVars, bdmVars, viewVars, netVars>>

-----------------------------------------------------------------------------
(* Lookups in the loaded wallets.                                          *)

\* self.walletIndices[wltID]: the position of the wallet in walletIDList, less one.
WalletIndex(w) == CHOOSE i \in DOMAIN WalletIDList : WalletIDList[i] = w

\* determineWalletType(wlt, main)[0] (qtdefines): a watching-only wallet is
\* "Offline" when its id is in main.walletOfflines, else "WatchOnly".
WalletType(w) ==
    IF w \in WatchOnly THEN IF w \in Offline THEN "Offline" ELSE "WatchOnly"
                       ELSE "Mine"

\* filter(lambda x: filt(x, ..), self.walletIDList): the wallets whose type
\* is in keep, in walletIDList order -- the k-th is the one with k - 1
\* passing wallets before it.
FilterWallets(keep) ==
    LET I == {i \in DOMAIN WalletIDList : WalletType(WalletIDList[i]) \in keep}
    IN  [k \in 1..Cardinality(I) |->
           WalletIDList[CHOOSE i \in I : Cardinality({j \in I : j < i}) + 1 = k]]

\* The wltIDList that createCombinedLedger() builds from the checked radio
\* button: "My wallets" keeps every type but WatchOnly, "Watching-only" only it.
SelectedWallets(sel) ==
    CASE sel = "all"   -> WalletIDList
      [] sel = "mine"  -> FilterWallets({"Mine", "Offline"})
      [] sel = "watch" -> FilterWallets({"WatchOnly"})

\* wlt.getTxLedger(): the transactions of w the C++ wallet has scanned, i.e.
\* those mined in a block at or below the height it was last scanned to.
GetTxLedger(w, top) == {t \in Txs : w \in TxWallets[t] /\ blockOf[t] <= top}

\* The [wltID, le] pairs that the loop of createCombinedLedger collects.
LedgerPairs(ids, top) ==
    {[wlt |-> x[1], tx |-> x[2], h |-> blockOf[x[2]]] :
        x \in {y \in Elems(ids) \X Txs : y[2] \in GetTxLedger(y[1], top)}}

-----------------------------------------------------------------------------
(* combinedLedger.sort(key=lambda x: x[1], reverse=True): LedgerEntry      *)
(* compares by block height, then by index within the block; the sort is   *)
(* stable, so entries with equal keys (one transaction in two wallets)     *)
(* keep the order in which the loop appended them, i.e. wallet order.      *)

KeyGreater(a, b) == a.h > b.h \/ (a.h = b.h /\ TxRank[a.tx] > TxRank[b.tx])

Position(w, ids) == CHOOSE k \in DOMAIN ids : ids[k] = w

SortsBefore(a, b, ids) ==
    \/ KeyGreater(a, b)
    \/ a.h = b.h /\ a.tx = b.tx /\ Position(a.wlt, ids) < Position(b.wlt, ids)

SortRank(e, P, ids) == Cardinality({d \in P : SortsBefore(d, e, ids)}) + 1

\* Mutant: the sort without reverse=True (oldest first).
SortAscendingMutant(P, ids) ==
    [k \in 1..Cardinality(P) |-> CHOOSE e \in P : SortRank(e, P, ids) = Cardinality(P) + 1 - k]

SortDescending(P, ids) ==
    [k \in 1..Cardinality(P) |-> CHOOSE e \in P : SortRank(e, P, ids) = k]

-----------------------------------------------------------------------------
(* convertLedgerToTable with the given tip and header height.              *)

\* Mutant: the confirmation count without the + 1.
NumConfMutant(e, lat) == IF e.h >= UnconfHeight THEN 0 ELSE lat - e.h

NumConf(e, lat) == IF e.h >= UnconfHeight THEN 0 ELSE lat - e.h + 1

\* The row of an entry; its time column is the top header's timestamp when
\* nConf > 0, else the zero-conf arrival time; its "is this money mine?"
\* column is wlt.watchingOnly and (not wltID in self.walletOfflines).
LedgerRow(e, lat, top) ==
    [wlt |-> e.wlt, tx |-> e.tx, nConf |-> NumConf(e, lat),
     time |-> IF NumConf(e, lat) > 0 THEN top ELSE ZeroConfTime,
     mine |-> e.wlt \in WatchOnly /\ e.wlt \notin Offline]

\* zeroConfTxTime[le.getTxHash()] raises KeyError for this entry.
RowRaises(e, lat) == NumConf(e, lat) <= 0 /\ e.tx \notin zcTx

ConvertLedgerToTable(L, lat, top) == [k \in DOMAIN L |-> LedgerRow(L[k], lat, top)]

ConvertRaises(L, lat) == \E k \in DOMAIN L : RowRaises(L[k], lat)

-----------------------------------------------------------------------------
(* createCombinedLedger(ids) run against tip lat, scan height top and      *)
(* header height hdr, starting from walletLedgers = wl, as one step.  When walletLedgers has no slot for a   *)
(* wallet the loop raises IndexError before it extends combinedLedger; the *)
(* list is then the [] it was reset to, since walletLedgers is either      *)
(* empty or complete (WalletLedgersAllOrNone).  Otherwise the totals are   *)
(* computed, and the table is replaced unless a row raises KeyError.       *)
(* Returns whether the call raised.                                        *)

\* Mutant: the slot test off by one, as if the loop indexed one past the
\* wallet's slot.
CCLIndexErrorMutant(ids, wl) == Len(ids) > 0 /\ Len(wl) <= NumWallets

CCLIndexError(ids, wl) == Len(ids) > 0 /\ Len(wl) < NumWallets

CreateCombinedLedger(ids, lat, top, hdr, wl) ==
    IF CCLIndexError(ids, wl)
    THEN /\ combinedLedger' = <<>>
         /\ walletLedgers' = wl
         /\ UNCHANGED <<totFund, unconfFund, ledgerTable>>
    ELSE LET P == LedgerPairs(ids, top)
             L == SortDescending(P, ids)
         IN /\ walletLedgers' = [i \in DOMAIN wl |->
                                   IF \E k \in DOMAIN ids : WalletIndex(ids[k]) = i
                                   THEN GetTxLedger(WalletIDList[i], top)
                                   ELSE wl[i]]
            /\ combinedLedger' = L
            /\ unconfFund' = {e \in P : lat - e.h + 1 < MinConfirmations}
            /\ totFund' = {e \in P : lat - e.h + 1 >= MinConfirmations}
            /\ ledgerTable' = IF ConvertRaises(L, lat) THEN ledgerTable
                              ELSE ConvertLedgerToTable(L, lat, hdr)

\* Whether the call above raised (IndexError in the loop, KeyError in the table).
CCLRaises(ids, lat, top, wl) ==
    \/ CCLIndexError(ids, wl)
    \/ ConvertRaises(SortDescending(LedgerPairs(ids, top), ids), lat)

-----------------------------------------------------------------------------
Init ==
    /\ diskTop = StartHeight
    /\ blockOf \in [Txs -> InitHeights \cup {UnconfHeight}]
    /\ bdmLoaded = FALSE
    /\ bdmInit = FALSE
    /\ bdmTop = 0
    /\ wltTop = -1
    /\ latestBlockNum = 0
    /\ walletLedgers = <<>>
    /\ walletSubLedgers = <<>>
    /\ walletBalances = [i \in 1..NumWallets |-> "unset"]
    /\ combinedLedger = <<>>
    /\ totFund = {}
    /\ unconfFund = {}
    /\ ledgerTable = <<>>
    /\ selection = "all"
    /\ hb = "off"
    /\ conn = "none"
    /\ zcTx = {}


-----------------------------------------------------------------------------
\* Mutant: each synced balance appended in the dict's order, as the two
\* lists beside it are, after the -1 placeholders.
SyncedBalancesMutant == walletBalances \o MapOrder

\* self.walletBalances[wltIndex] = wlt.getBalance() for every wallet of the
\* dict: slot walletIndices[id] holds the balance of id.
SyncedBalances == [i \in 1..NumWallets |-> WalletIDList[i]]

(* The window's constructor ends with loadBlockchain(): BDM_LoadBlockchain- *)
(* File(), the tip read from the top header, then, if the BDM initialized, *)
(* every wallet synced and mirrored into the linear lists in the dict's    *)
(* iteration order, and createCombinedLedger(self.walletIDList).  The      *)
(* table the constructor then converts is the one that call produced.      *)
LoadBlockchain ==
    /\ ~bdmLoaded
    /\ \E ok \in BOOLEAN :
        /\ bdmLoaded' = TRUE
        /\ bdmInit' = ok
        /\ bdmTop' = IF ok THEN diskTop ELSE bdmTop
        /\ latestBlockNum' = bdmTop'
        /\ IF ok
           THEN /\ wltTop' = diskTop
                /\ walletBalances' = SyncedBalances
                /\ walletSubLedgers' = MapOrder
                /\ CreateCombinedLedger(WalletIDList, diskTop, diskTop, diskTop,
                       [k \in 1..NumWallets |-> GetTxLedger(MapOrder[k], diskTop)])
           ELSE UNCHANGED <<wltTop, walletBalances, walletSubLedgers, walletLedgers,
                            combinedLedger, totFund, unconfFund, ledgerTable>>
    /\ UNCHANGED <<chainVars, selection, hb, netVars>>

\* A click on one of the three radio buttons: createCombinedLedger() for the
\* wallets that button selects.  An exception in the slot is printed by Qt
\* and leaves the state as it was when raised.
SelectWallets(s) ==
    /\ bdmLoaded
    /\ selection' = s
    /\ CreateCombinedLedger(SelectedWallets(s), latestBlockNum, wltTop, bdmTop, walletLedgers)
    /\ UNCHANGED <<chainVars, bdmVars, latestBlockNum, walletSubLedgers, walletBalances,
                   hb, netVars>>

\* The first reactor.callLater(.., form.Heartbeat) (commented out at the end
\* of the constructor; the spec's heartbeat starts with the window).
StartHeartbeat ==
    /\ bdmLoaded
    /\ hb = "off"
    /\ hb' = "alive"
    /\ UNCHANGED <<chainVars, bdmVars, latestBlockNum, walletLedgers, walletSubLedgers,
                   walletBalances, combinedLedger, totFund, unconfFund, ledgerTable,
                   selection, netVars>>

\* Mutant: the wallets rescanned on every poll that reads blocks.
ScanTopMutant(top1) == IF bdmInit THEN top1 ELSE wltTop

\* The height the C++ wallets are scanned to after TheBDM.readBlkFileUpdate()
\* read the blocks up to top1.
ScanTop(top1) == IF bdmInit /\ EngineScansWallets THEN top1 ELSE wltTop

\* Mutant: the tip never refreshed by the poll (the else branch dropped).
PolledTipMutant(newBlks, top1) == latestBlockNum

\* self.latestBlockNum after the poll: the top header's height, read only
\* when TheBDM is initialized and readBlkFileUpdate() found no new block.
PolledTip(newBlks, top1) == IF bdmInit /\ newBlks = 0 THEN top1 ELSE latestBlockNum

\* One Heartbeat(): read new blocks into TheBDM, take the tip from the top
\* header only when none were new, overwrite walletBalances with each
\* wallet's balance in turn, run createCombinedLedger (the one extra
\* heartbeat function), and reschedule -- which an exception skips.
Heartbeat ==
    /\ hb = "alive"
    /\ LET newBlks == IF bdmInit THEN diskTop - bdmTop ELSE 0
           top1    == IF bdmInit THEN diskTop ELSE bdmTop
           lat1    == PolledTip(newBlks, top1)
           wtop1   == ScanTop(top1)
           ids     == SelectedWallets(selection)
       IN /\ bdmTop' = top1
          /\ latestBlockNum' = lat1
          /\ wltTop' = wtop1
          /\ walletBalances' = IF NumWallets = 0 THEN walletBalances
                               ELSE MapOrder[NumWallets]
          /\ CreateCombinedLedger(ids, lat1, wtop1, top1, walletLedgers)
          /\ hb' = IF CCLRaises(ids, lat1, wtop1, walletLedgers) THEN "dead" ELSE "alive"
    /\ UNCHANGED <<chainVars, bdmLoaded, bdmInit, walletSubLedgers, selection, netVars>>

-----------------------------------------------------------------------------
(* The environment.                                                        *)

\* bitcoind appends a block holding some not yet mined transactions.
MineBlock ==
    /\ diskTop < MaxHeight
    /\ \E S \in SUBSET {t \in Txs : blockOf[t] = UnconfHeight} :
        blockOf' = [t \in Txs |-> IF t \in S THEN diskTop + 1 ELSE blockOf[t]]
    /\ diskTop' = diskTop + 1
    /\ UNCHANGED <<bdmVars, viewVars, netVars>>

\* reactor.connectTCP(host, port, self.NetworkingFactory) (commented out in
\* setupNetworking), the connection being made, and its loss, on which
\* restartConnection connects again to the same peer at once.
Connect ==
    /\ conn = "none"
    /\ conn' = "connecting"
    /\ UNCHANGED <<chainVars, bdmVars, viewVars, zcTx>>

ConnectionMade ==
    /\ conn = "connecting"
    /\ conn' = "up"
    /\ UNCHANGED <<chainVars, bdmVars, viewVars, zcTx>>

ConnectionLost ==
    /\ conn = "up"
    /\ conn' = "connecting"
    /\ UNCHANGED <<chainVars, bdmVars, viewVars, zcTx>>

\* The factory records a transaction relayed by the peer (first seen wins).
ZeroConfTxSeen(t) ==
    /\ conn = "up"
    /\ blockOf[t] = UnconfHeight
    /\ t \notin zcTx
    /\ zcTx' = zcTx \cup {t}
    /\ UNCHANGED <<chainVars, bdmVars, viewVars, conn>>

\* The record of a transaction that has since been mined is dropped.
ZeroConfTxConfirmed(t) ==
    /\ t \in zcTx
    /\ blockOf[t] # UnconfHeight
    /\ zcTx' = zcTx \ {t}
    /\ UNCHANGED <<chainVars, bdmVars, viewVars, conn>>

-----------------------------------------------------------------------------
Next ==
    \/ LoadBlockchain
    \/ \E s \in {"all", "mine", "watch"} : SelectWallets(s)
    \/ StartHeartbeat
    \/ Heartbeat
    \/ MineBlock
    \/ Connect
    \/ ConnectionMade
    \/ ConnectionLost
    \/ \E t \in Txs : ZeroConfTxSeen(t) \/ ZeroConfTxConfirmed(t)

Spec == Init /\ [][Next]_vars

-----------------------------------------------------------------------------
(* Properties.                                                             *)

TypeOK ==
    /\ diskTop \in StartHeight..MaxHeight
    /\ blockOf \in [Txs -> Heights \cup {UnconfHeight}]
    /\ bdmLoaded \in BOOLEAN
    /\ bdmInit \in BOOLEAN
    /\ bdmTop \in Heights
    /\ wltTop \in -1..MaxHeight
    /\ latestBlockNum \in Heights
    /\ walletLedgers \in Seq(SUBSET Txs)
    /\ walletSubLedgers \in Seq(WalletIDs)
    /\ walletBalances \in [1..NumWallets -> WalletIDs \cup {"unset"}] \cup WalletIDs
    /\ combinedLedger \in Seq(Entry)
    /\ totFund \subseteq Entry
    /\ unconfFund \subseteq Entry
    /\ ledgerTable \in Seq(Row)
    /\ selection \in {"all", "mine", "watch"}
    /\ hb \in {"off", "alive", "dead"}
    /\ conn \in {"none", "connecting", "up"}
    /\ zcTx \subseteq Txs

\* createCombinedLedger's result, whichever handler last ran it and whatever
\* was mined or rescanned since: the combined ledger holds each scanned
\* entry of exactly the wallets the checked radio button selects, once,
\* newest first (spec 3 and 8: row count and ordering of the combined ledger).
CombinedLedgerSorted ==
    LET ids == SelectedWallets(selection)
    IN  /\ Elems(combinedLedger) = LedgerPairs(ids, wltTop)
        /\ Len(combinedLedger) = Cardinality(Elems(combinedLedger))
        /\ \A k \in 1..Len(combinedLedger) - 1 :
               ~KeyGreater(combinedLedger[k + 1], combinedLedger[k])

\* What the window shows agrees with itself: the table has one row per
\* combined-ledger entry, in its order, each with a positive confirmation
\* count taken from self.latestBlockNum, and the two fund labels split the
\* same entries at the 6-confirmation threshold (createCombinedLedger and
\* convertLedgerToTable, run by a click or a heartbeat after new blocks).
LedgerViewConsistent ==
    /\ Len(ledgerTable) = Len(combinedLedger)
    /\ \A k \in DOMAIN ledgerTable :
           /\ ledgerTable[k].wlt = combinedLedger[k].wlt
           /\ ledgerTable[k].tx = combinedLedger[k].tx
           /\ ledgerTable[k].nConf = latestBlockNum - combinedLedger[k].h + 1
           /\ ledgerTable[k].nConf >= 1
    /\ totFund \cup unconfFund = Elems(combinedLedger)
    /\ totFund \cap unconfFund = {}
    /\ \A e \in unconfFund : latestBlockNum - e.h + 1 < MinConfirmations

\* Once the chain has loaded, no heartbeat raises: the scanned ledgers never
\* run ahead of the tip the table is converted against, so no row needs a
\* zero-conf arrival time, and walletLedgers has a slot for every wallet
\* (Heartbeat, createCombinedLedger, convertLedgerToTable).
HeartbeatSurvivesWhenLoaded == bdmInit => hb # "dead"

-----------------------------------------------------------------------------
(* Refinement: the window implements the ledger view of LedgerView.tla.    *)
(* The tracked tip is self.latestBlockNum, the height the wallets' ledgers *)
(* were derived at is the C++ wallets' scan height, the view is            *)
(* self.combinedLedger, and the rows are the table's rows without their   *)
(* time and is-mine columns.                                               *)

\* The wallets the radio buttons treat as watching-only: those whose type
\* determineWalletType gives as WatchOnly (an offline one counts as mine).
ListedWatchOnly == {w \in WalletIDs : WalletType(w) = "WatchOnly"}

TableRows == [k \in DOMAIN ledgerTable |->
                [wlt |-> ledgerTable[k].wlt, tx |-> ledgerTable[k].tx,
                 nConf |-> ledgerTable[k].nConf]]

LV == INSTANCE LedgerView
        WITH Wallets <- WalletIDs, WatchOnlyWallets <- ListedWatchOnly,
             Unconfirmed <- UnconfHeight, sel <- selection, tip <- latestBlockNum,
             scanned <- wltTop, view <- combinedLedger, rows <- TableRows,
             confirmed <- totFund, unconfirmed <- unconfFund

\* Every step of the window -- blockchain load, radio click, heartbeat, a
\* block mined, a connection event -- is a refresh of the abstract view or
\* leaves it alone: the tip never moves backwards or past the chain, the
\* ledgers are never newer than the tip, and loadBlockchain, the click
\* handler and Heartbeat each rebuild the view, its rows and its totals
\* wholly from the selected wallets' ledgers (spec 3, 4.2 and 4.4).
LedgerViewRefined == LV!Spec

-----------------------------------------------------------------------------
(* The same three statements for either engine.  A poll that reads a new   *)
(* block leaves self.latestBlockNum behind (553-556); an engine that       *)
(* rescans the wallets in readBlkFileUpdate then scans them past it.       *)

\* The C++ wallets are scanned no higher than the tip the table is
\* converted against.
ScanWithinTip == wltTop <= latestBlockNum

\* Once the chain has loaded, the heartbeat is only ever stopped by a
\* convertLedgerToTable KeyError on an entry scanned past the tracked tip:
\* walletLedgers always has a slot per wallet, so the IndexError at 446
\* cannot stop it (Heartbeat, createCombinedLedger, callLater at 568).
HeartbeatDiesOnlyAheadOfTip == bdmInit /\ hb = "dead" => ~ScanWithinTip

\* Whatever the engine and whatever failed before, whenever the wallets are
\* scanned no higher than the tracked tip, the table, the combined ledger
\* and the two fund labels agree: a view left half-built by the KeyError
\* (labels new, table old) never survives the tip catching up.
ViewConsistentWithinTip == ScanWithinTip => LedgerViewConsistent

\* Every step of the window that starts and ends with the wallets scanned
\* no higher than the tracked tip is a refresh of the abstract view, a
\* mined block or a stutter; the window starts in the abstract initial state.
LedgerViewRefinedWithinTip ==
    /\ LV!Init
    /\ [][ScanWithinTip /\ ScanWithinTip' => [LV!Next]_LV!lvVars]_vars

-----------------------------------------------------------------------------
(* Statements of the spec that the code does not keep; each is checked by a *)
(* run that expects a violation.                                           *)

\* Spec 4.6(d): the heartbeat reschedules itself even when a step failed,
\* so once started it never stops (Heartbeat, reactor.callLater at its end).
HeartbeatNeverDies == hb # "dead"

\* Spec 3: a row's confirmation count is the chain tip's height less the
\* entry's height, plus one (convertLedgerToTable against Heartbeat's tip).
ConfirmationsFollowTip ==
    \A k \in DOMAIN ledgerTable :
        ledgerTable[k].nConf = bdmTop - combinedLedger[k].h + 1

\* The linear lists mirror the wallets by walletIndices (the comment in
\* loadBlockchain): once synced, slot i of walletBalances holds the balance
\* of wallet i ...
BalancesMirrorWallets ==
    bdmInit => walletBalances = [i \in 1..NumWallets |-> WalletIDList[i]]

\* ... and slot i of walletSubLedgers the address ledgers of wallet i.
SubLedgersMirrorWallets ==
    bdmInit => /\ Len(walletSubLedgers) = NumWallets
               /\ \A i \in 1..NumWallets : walletSubLedgers[i] = WalletIDList[i]

\* Spec 8: a transaction mined into a block after the chain loaded ends up
\* in the ledger of the wallets it touches, and so in the combined ledger
\* while all wallets are shown (Heartbeat's poll and rebuild).
MinedTxEventuallyListed ==
    \A t \in Txs, w \in WalletIDs :
        (bdmInit /\ w \in TxWallets[t] /\ blockOf[t] # UnconfHeight /\ selection = "all")
          ~> (\/ [wlt |-> w, tx |-> t, h |-> blockOf[t]] \in Elems(combinedLedger)
              \/ selection # "all")

\* Spec 4.4: "mine" excludes the watch-only wallets -- while "My wallets" is
\* checked, no entry of a watching-only wallet is listed (the filt helper of
\* createCombinedLedger keeps every wallet whose type is not WatchOnly).
MineExcludesWatchOnly ==
    selection = "mine" => \A k \in DOMAIN combinedLedger : combinedLedger[k].wlt \notin WatchOnly

\* Spec 4.2: the tracked tip follows the chain.  Whenever the chain has
\* loaded and a block at height h is on disk, self.latestBlockNum reaches
\* h -- which only Heartbeat's poll (551-556) can bring about.
TipCatchesUp ==
    \A h \in Heights : (bdmInit /\ diskTop >= h) ~> latestBlockNum >= h

\* The scheduling the spec describes (4.6): the window's construction ends
\* with the blockchain load, the heartbeat starts with the window, and the
\* timer fires every few seconds once scheduled.
FairSpec == Spec /\ WF_vars(LoadBlockchain) /\ WF_vars(StartHeartbeat) /\ WF_vars(Heartbeat)

\* The scheduling this revision has: the load and a scheduled heartbeat are
\* fair, but nothing ever makes the first reactor.callLater (commented out
\* at the end of the constructor), so the start gets no fairness.
CodeFairSpec == Spec /\ WF_vars(LoadBlockchain) /\ WF_vars(Heartbeat)

=============================================================================
