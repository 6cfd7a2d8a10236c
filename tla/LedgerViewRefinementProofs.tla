--------------------- MODULE LedgerViewRefinementProofs ---------------------
(***************************************************************************)
(* The window refines the ledger view of LedgerView.tla while the wallets *)
(* are scanned no higher than the tracked tip (LedgerViewRefinedWithinTip *)
(* of ArmoryMain): loadBlockchain, a radio click and each Heartbeat are a  *)
(* Refresh of the abstract view, a block mined is a Mine, and every other *)
(* step leaves the view alone.                                             *)
(***************************************************************************)
EXTENDS ArmoryMainProofs

(***************************************************************************)
(* The wallets filter(...) keeps are exactly the listed ones of a kept     *)
(* type: the k-th is the one of rank k among the passing indices, and     *)
(* every passing index has a rank.                                         *)
(***************************************************************************)
LEMMA FilterWalletsElems ==
    ASSUME NEW keep
    PROVE  Elems(FilterWallets(keep)) = {w \in WalletIDs : WalletType(w) \in keep}
<1> DEFINE I == {i \in DOMAIN WalletIDList : WalletType(WalletIDList[i]) \in keep}
           R == {pr \in I \X I : pr[1] < pr[2]}
           Pick(k) == CHOOSE i \in I : Cardinality({j \in I : j < i}) + 1 = k
<1>1. I \subseteq 1..NumWallets /\ IsFiniteSet(I)
  <2>1. I \subseteq 1..NumWallets
    BY WalletListAssumption DEF NumWallets
  <2>2. IsFiniteSet(1..NumWallets)
    BY WalletListAssumption, FS_Interval DEF NumWallets
  <2> QED
    BY <2>1, <2>2, FS_Subset
<1>2. \A i \in I : RankIn(i, I, R) = Cardinality({j \in I : j < i}) + 1
  BY DEF RankIn
<1>3. IsStrictTotal(I, R)
  BY <1>1 DEF IsStrictTotal
<1> HIDE DEF R
<1>4. /\ Cardinality(I) \in Nat
      /\ \A i \in I : RankIn(i, I, R) \in 1..Cardinality(I)
      /\ \A a, b \in I : RankIn(a, I, R) = RankIn(b, I, R) => a = b
  BY <1>1, <1>3, RankFacts
<1>5. FilterWallets(keep) = [k \in 1..Cardinality(I) |-> WalletIDList[Pick(k)]]
  BY DEF FilterWallets
<1>6. \A k \in 1..Cardinality(I) : Pick(k) \in I
  BY <1>1, IndexRankOnto
<1>7. \A i \in I : Pick(RankIn(i, I, R)) = i
  <2> SUFFICES ASSUME NEW i \in I PROVE Pick(RankIn(i, I, R)) = i
    OBVIOUS
  <2>1. Pick(RankIn(i, I, R)) \in I
        /\ RankIn(Pick(RankIn(i, I, R)), I, R) = RankIn(i, I, R)
    BY <1>2
  <2> QED
    BY <1>4, <2>1
<1>8. Elems(FilterWallets(keep)) = {WalletIDList[i] : i \in I}
  <2>1. \A k \in 1..Cardinality(I) : WalletIDList[Pick(k)] \in {WalletIDList[i] : i \in I}
    BY <1>6
  <2>2. \A i \in I : \E k \in 1..Cardinality(I) : WalletIDList[Pick(k)] = WalletIDList[i]
    BY <1>4, <1>7
  <2> HIDE DEF Pick
  <2> QED
    BY <1>4, <1>5, <2>1, <2>2 DEF Elems
<1>9. {WalletIDList[i] : i \in I} = {w \in WalletIDs : WalletType(w) \in keep}
  BY DEF WalletIDs, Elems
<1> QED
  BY <1>8, <1>9

(***************************************************************************)
(* Each radio button selects the wallets the abstract view chooses: all of *)
(* them, those whose type is not WatchOnly (an offline watching-only       *)
(* wallet among them), or those whose type is WatchOnly.                   *)
(***************************************************************************)
LEMMA SelectedIsChosen ==
    ASSUME NEW s \in {"all", "mine", "watch"}
    PROVE  Elems(SelectedWallets(s)) = LV!Chosen(s)
<1>1. CASE s = "all"
  BY <1>1 DEF SelectedWallets, LV!Chosen, WalletIDs
<1>2. CASE s = "mine"
  <2>1. Elems(SelectedWallets(s)) = {w \in WalletIDs : WalletType(w) \in {"Mine", "Offline"}}
    BY <1>2, FilterWalletsElems DEF SelectedWallets
  <2> QED
    BY <1>2, <2>1 DEF LV!Chosen, WalletType, ListedWatchOnly
<1>3. CASE s = "watch"
  <2>1. Elems(SelectedWallets(s)) = {w \in WalletIDs : WalletType(w) \in {"WatchOnly"}}
    BY <1>3, FilterWalletsElems DEF SelectedWallets
  <2> QED
    BY <1>3, <2>1 DEF LV!Chosen, ListedWatchOnly
<1> QED
  BY <1>1, <1>2, <1>3

(***************************************************************************)
(* The entries createCombinedLedger collects for the selected wallets are  *)
(* the abstract snapshot of the chosen subset at the same height.         *)
(***************************************************************************)
LEMMA PairsAreSnapshot ==
    ASSUME NEW s \in {"all", "mine", "watch"}, NEW top
    PROVE  LedgerPairs(SelectedWallets(s), top) = LV!Snapshot(s, top)
<1>1. Elems(SelectedWallets(s)) = LV!Chosen(s)
  BY SelectedIsChosen
<1> QED
  BY <1>1 DEF LedgerPairs, GetTxLedger, LV!Snapshot

(***************************************************************************)
(* The abstract ordering predicate, unfolded.                              *)
(***************************************************************************)
LEMMA NewestFirstDef ==
    ASSUME NEW v, NEW S,
           Len(v) = Cardinality(S), {v[k] : k \in DOMAIN v} = S,
           \A k \in 1..Len(v) - 1 : ~KeyGreater(v[k + 1], v[k])
    PROVE  LV!NewestFirst(v, S)
BY DEF LV!NewestFirst, LV!Newer, KeyGreater, LV!Cardinality, Cardinality

(***************************************************************************)
(* One run of createCombinedLedger for the wallets of button s, with a    *)
(* slot per wallet, against a tip lat that has not moved back nor past    *)
(* the chain, and at a scan height top at or below it and not below the  *)
(* previous one, is a Refresh(s) of the abstract view.                    *)
(***************************************************************************)
LEMMA CreateCombinedLedgerRefresh ==
    ASSUME TypeOK, NEW s \in {"all", "mine", "watch"},
           NEW lat \in Heights, NEW top \in -1..MaxHeight, NEW hdr \in Heights,
           NEW wl \in Seq(SUBSET Txs), Len(wl) = NumWallets,
           CreateCombinedLedger(SelectedWallets(s), lat, top, hdr, wl),
           latestBlockNum <= lat, lat <= diskTop, wltTop <= top, top <= lat,
           latestBlockNum' = lat, wltTop' = top, selection' = s,
           diskTop' = diskTop, blockOf' = blockOf
    PROVE  LV!Refresh(s)
<1> DEFINE ids == SelectedWallets(s)
           P == LedgerPairs(ids, top)
<1>1. ids \in Seq(WalletIDs)
  BY SelectedWalletsType
<1>2. NumWallets \in Nat
  BY WalletListAssumption DEF NumWallets
<1>3. ~CCLIndexError(ids, wl)
  BY <1>2 DEF CCLIndexError
<1>4. /\ ViewAt(lat)
      /\ ledgerTable' \in Seq(Row)
      /\ combinedLedger' = SortDescending(P, ids)
  BY <1>1, CreateCombinedLedgerView, CreateCombinedLedgerType, CreateCombinedLedgerSorted,
     <1>3, HeightAssumption DEF Heights
<1>5. /\ Elems(combinedLedger') = P
      /\ Len(combinedLedger') = Cardinality(Elems(combinedLedger'))
      /\ \A k \in 1..Len(combinedLedger') - 1 :
             ~KeyGreater(combinedLedger'[k + 1], combinedLedger'[k])
  BY <1>1, <1>4, SortDescendingSorted DEF TypeOK
<1>6. P = LV!Snapshot(s, top)
  BY PairsAreSnapshot
<1>7. LV!NewestFirst(combinedLedger', LV!Snapshot(s, wltTop'))
  <2>1. LV!Snapshot(s, wltTop') = P
    BY <1>6
  <2>2. Len(combinedLedger') = Cardinality(P)
    BY <1>5
  <2>3. {combinedLedger'[k] : k \in DOMAIN combinedLedger'} = P
    BY <1>5 DEF Elems
  <2>5. LV!NewestFirst(combinedLedger', P)
    BY <1>5, <2>2, <2>3, NewestFirstDef
  <2> HIDE DEF P
  <2> QED
    BY <2>1, <2>5
<1>8. /\ unconfFund' = {e \in P : lat - e.h + 1 < MinConfirmations}
      /\ totFund' = {e \in P : lat - e.h + 1 >= MinConfirmations}
  BY <1>3 DEF CreateCombinedLedger
<1>9. TableRows' = [k \in DOMAIN combinedLedger' |->
                      [wlt |-> combinedLedger'[k].wlt, tx |-> combinedLedger'[k].tx,
                       nConf |-> LV!Confirmations(combinedLedger'[k], latestBlockNum')]]
  <2>1. combinedLedger' \in Seq(Entry)
    BY <1>1, CreateCombinedLedgerType, HeightAssumption DEF Heights
  <2>2. DOMAIN ledgerTable' = DOMAIN combinedLedger'
    BY <1>4, <2>1 DEF ViewAt
  <2> QED
    BY <1>4, <2>2 DEF TableRows, ViewAt, LV!Confirmations
<1>10. /\ latestBlockNum' \in latestBlockNum..diskTop
       /\ wltTop' \in wltTop..latestBlockNum'
  BY DEF TypeOK, Heights
<1> QED
  BY <1>6, <1>7, <1>8, <1>9, <1>10 DEF LV!Refresh, LV!Confirmations, MinConfirmations

(***************************************************************************)
(* Before anything is scanned, a handler that leaves the view empty and   *)
(* moves the tip forward within the chain is a Refresh of the empty view. *)
(***************************************************************************)
LEMMA EmptyRefresh ==
    ASSUME TypeOK, NEW s,
           combinedLedger' = <<>>, ledgerTable' = <<>>, totFund' = {}, unconfFund' = {},
           wltTop = -1, wltTop' = -1, latestBlockNum' \in latestBlockNum..diskTop,
           selection' = s, diskTop' = diskTop, blockOf' = blockOf
    PROVE  LV!Refresh(s)
<1>1. LV!Snapshot(s, wltTop') = {}
  <2>0. \A t \in Txs : ~(blockOf[t] <= -1)
    <3> SUFFICES ASSUME NEW t \in Txs PROVE ~(blockOf[t] <= -1)
      OBVIOUS
    <3>1. blockOf[t] \in 0..MaxHeight \cup {UnconfHeight}
      BY DEF TypeOK, Heights
    <3> QED
      BY <3>1, HeightAssumption
  <2>1. \A C : {q \in C \X Txs : q[1] \in TxWallets[q[2]] /\ blockOf[q[2]] <= -1} = {}
    BY <2>0
  <2> QED
    BY <2>1 DEF LV!Snapshot
<1>2. LV!NewestFirst(combinedLedger', LV!Snapshot(s, wltTop'))
  BY <1>1, FS_EmptySet, NewestFirstDef
<1>3. TableRows' = [k \in DOMAIN combinedLedger' |->
                      [wlt |-> combinedLedger'[k].wlt, tx |-> combinedLedger'[k].tx,
                       nConf |-> LV!Confirmations(combinedLedger'[k], latestBlockNum')]]
  BY DEF TableRows
<1>4. /\ unconfFund' = {e \in LV!Snapshot(s, wltTop') : LV!Confirmations(e, latestBlockNum') < 6}
      /\ totFund' = {e \in LV!Snapshot(s, wltTop') : LV!Confirmations(e, latestBlockNum') >= 6}
  BY <1>1
<1>5. wltTop' \in wltTop..latestBlockNum'
  BY DEF TypeOK, Heights
<1> QED
  BY <1>2, <1>3, <1>4, <1>5 DEF LV!Refresh

(***************************************************************************)
(* What the refinement needs beyond ViewInv: the radio buttons can only be *)
(* clicked once the window exists, so before loadBlockchain the selection *)
(* is "all"; and self.latestBlockNum follows TheBDM's tip until TheBDM is *)
(* initialized (the unsuccessful load copies it, the heartbeat keeps it). *)
(***************************************************************************)
RefRest ==
    /\ ~bdmLoaded => selection = "all"
    /\ ~bdmInit => latestBlockNum = bdmTop

RefInv == ViewInv /\ RefRest

THEOREM RefInvInit == Init => RefInv
BY ViewInvInit DEF Init, RefInv, RefRest

THEOREM RefInvNext == RefInv /\ [Next]_vars => RefInv'
<1> SUFFICES ASSUME RefInv, [Next]_vars PROVE RefRest'
  BY ViewInvNext DEF RefInv
<1>0. TypeOK /\ LoadedInv /\ RefRest
  BY DEF RefInv, ViewInv, IInv
<1>1. CASE LoadBlockchain
  BY <1>0, <1>1 DEF LoadBlockchain, RefRest, LoadedInv
<1>2. ASSUME NEW sel \in {"all", "mine", "watch"}, SelectWallets(sel)
      PROVE  RefRest'
  BY <1>0, <1>2 DEF SelectWallets, RefRest, bdmVars
<1>3. CASE Heartbeat
  BY <1>0, <1>3 DEF Heartbeat, PolledTip, RefRest
<1>4. CASE StartHeartbeat \/ MineBlock \/ Connect \/ ConnectionMade \/ ConnectionLost
  BY <1>0, <1>4 DEF StartHeartbeat, MineBlock, Connect, ConnectionMade, ConnectionLost,
                    RefRest, bdmVars, viewVars
<1>5. ASSUME NEW t \in Txs, ZeroConfTxSeen(t) \/ ZeroConfTxConfirmed(t)
      PROVE  RefRest'
  BY <1>0, <1>5 DEF ZeroConfTxSeen, ZeroConfTxConfirmed, RefRest, bdmVars, viewVars
<1>6. CASE UNCHANGED vars
  BY <1>0, <1>6 DEF vars, RefRest, bdmVars, viewVars
<1> QED
  BY <1>1, <1>2, <1>3, <1>4, <1>5, <1>6 DEF Next

(***************************************************************************)
(* Armory starts in the abstract view's initial state.                     *)
(***************************************************************************)
THEOREM RefinementInit == Init => LV!Init
<1> SUFFICES ASSUME Init PROVE LV!Init
  OBVIOUS
<1>1. TableRows = <<>>
  BY DEF Init, TableRows
<1> QED
  BY <1>1 DEF Init, LV!Init

(***************************************************************************)
(* Each step of the window that starts and ends with the scan within the  *)
(* tip maps to a step of the abstract view or to a stutter: loadBlockchain *)
(* (when TheBDM initializes), a radio click and each Heartbeat are Refresh *)
(* steps, a block mined is Mine, and the rest -- a failed load, the first  *)
(* callLater, the connection and zero-conf events -- change none of the    *)
(* abstract variables.                                                     *)
(***************************************************************************)
THEOREM RefinementStep ==
    RefInv /\ [Next]_vars /\ ScanWithinTip /\ ScanWithinTip' => [LV!Next]_LV!lvVars
<1> SUFFICES ASSUME RefInv, [Next]_vars, ScanWithinTip, ScanWithinTip'
             PROVE  [LV!Next]_LV!lvVars
  OBVIOUS
<1> USE HeightAssumption
<1>0. TypeOK /\ LoadedInv /\ ViewRest /\ RefRest
  BY DEF RefInv, ViewInv, IInv
<1>1. CASE LoadBlockchain
  <2> DEFINE wl == [k \in 1..NumWallets |-> GetTxLedger(MapOrder[k], diskTop)]
  <2> PICK ok \in BOOLEAN :
        /\ bdmLoaded' = TRUE
        /\ bdmInit' = ok
        /\ bdmTop' = IF ok THEN diskTop ELSE bdmTop
        /\ latestBlockNum' = bdmTop'
        /\ IF ok
           THEN /\ wltTop' = diskTop
                /\ walletBalances' = SyncedBalances
                /\ walletSubLedgers' = MapOrder
                /\ CreateCombinedLedger(WalletIDList, diskTop, diskTop, diskTop, wl)
           ELSE UNCHANGED <<wltTop, walletBalances, walletSubLedgers, walletLedgers,
                            combinedLedger, totFund, unconfFund, ledgerTable>>
    BY <1>1 DEF LoadBlockchain
  <2>1. /\ ~bdmLoaded /\ ~bdmInit /\ selection = "all" /\ wltTop = -1
        /\ latestBlockNum = bdmTop /\ bdmTop <= diskTop
        /\ UNCHANGED <<diskTop, blockOf, selection>>
    BY <1>0, <1>1 DEF LoadBlockchain, LoadedInv, ViewRest, RefRest, chainVars
  <2>2. CASE ok
    <3>1. /\ CreateCombinedLedger(SelectedWallets("all"), diskTop, diskTop, diskTop, wl)
          /\ wltTop' = diskTop /\ latestBlockNum' = diskTop /\ diskTop \in Heights
      BY <1>0, <2>2 DEF TypeOK, Heights, SelectedWallets
    <3>2. NumWallets \in Nat
      BY WalletListAssumption DEF NumWallets
    <3>3. wl \in Seq(SUBSET Txs) /\ Len(wl) = NumWallets
      BY <3>2 DEF GetTxLedger
    <3>4. /\ latestBlockNum <= diskTop /\ wltTop <= diskTop
          /\ diskTop \in -1..MaxHeight /\ diskTop <= diskTop
      BY <1>0, <2>1, <3>1 DEF TypeOK, Heights
    <3>5. LV!Refresh("all")
      BY <1>0, <2>1, <3>1, <3>3, <3>4, CreateCombinedLedgerRefresh
    <3> QED
      BY <3>5 DEF LV!Next
  <2>3. CASE ~ok
    <3>1. UNCHANGED <<latestBlockNum, wltTop, combinedLedger, ledgerTable, totFund, unconfFund>>
      BY <2>1, <2>3
    <3> QED
      BY <2>1, <3>1 DEF LV!lvVars, TableRows
  <2> QED
    BY <2>2, <2>3
<1>2. ASSUME NEW sel \in {"all", "mine", "watch"}, SelectWallets(sel)
      PROVE  [LV!Next]_LV!lvVars
  <2>1. /\ UNCHANGED <<diskTop, blockOf, bdmInit, wltTop, latestBlockNum>>
        /\ selection' = sel
        /\ CreateCombinedLedger(SelectedWallets(sel), latestBlockNum, wltTop, bdmTop,
                                walletLedgers)
    BY <1>2 DEF SelectWallets, chainVars, bdmVars
  <2>2. CASE bdmInit
    <3>1. /\ Len(walletLedgers) = NumWallets /\ wltTop <= latestBlockNum
          /\ latestBlockNum <= bdmTop /\ bdmTop <= diskTop
          /\ walletLedgers \in Seq(SUBSET Txs) /\ latestBlockNum \in Heights
          /\ wltTop \in -1..MaxHeight /\ bdmTop \in Heights
      BY <1>0, <2>2 DEF LoadedInv, TypeOK, ScanWithinTip
    <3>2. /\ latestBlockNum <= latestBlockNum /\ latestBlockNum <= diskTop
          /\ wltTop <= wltTop /\ wltTop' = wltTop /\ latestBlockNum' = latestBlockNum
          /\ diskTop' = diskTop /\ blockOf' = blockOf
      BY <1>0, <2>1, <3>1 DEF TypeOK, Heights
    <3>3. LV!Refresh(sel)
      BY <1>0, <2>1, <3>1, <3>2, CreateCombinedLedgerRefresh
    <3> QED
      BY <3>3 DEF LV!Next
  <2>3. CASE ~bdmInit
    <3>1. /\ combinedLedger' = <<>> /\ ledgerTable' = <<>>
          /\ totFund' = {} /\ unconfFund' = {} /\ wltTop = -1
      BY <1>0, <2>1, <2>3, CreateCombinedLedgerUnscanned DEF ViewRest
    <3>2. latestBlockNum' \in latestBlockNum..diskTop
      BY <1>0, <2>1, <2>3 DEF RefRest, LoadedInv, TypeOK, Heights
    <3>3. LV!Refresh(sel)
      BY <1>0, <2>1, <3>1, <3>2, EmptyRefresh
    <3> QED
      BY <3>3 DEF LV!Next
  <2> QED
    BY <2>2, <2>3
<1>3. CASE Heartbeat
  <2> DEFINE newBlks == IF bdmInit THEN diskTop - bdmTop ELSE 0
             top1    == IF bdmInit THEN diskTop ELSE bdmTop
             lat1    == PolledTip(newBlks, top1)
             wtop1   == ScanTop(top1)
             ids     == SelectedWallets(selection)
  <2>1. /\ latestBlockNum' = lat1 /\ wltTop' = wtop1 /\ bdmTop' = top1
        /\ CreateCombinedLedger(ids, lat1, wtop1, top1, walletLedgers)
        /\ UNCHANGED <<diskTop, blockOf, bdmInit, selection>>
    BY <1>3 DEF Heartbeat, chainVars
  <2>2. CASE bdmInit
    <3>1. /\ Len(walletLedgers) = NumWallets /\ wltTop <= bdmTop
          /\ latestBlockNum <= bdmTop /\ bdmTop <= diskTop
          /\ walletLedgers \in Seq(SUBSET Txs) /\ wltTop \in -1..MaxHeight
      BY <1>0, <2>2 DEF LoadedInv, TypeOK
    <3>2. /\ latestBlockNum <= lat1 /\ lat1 <= diskTop /\ wltTop <= wtop1
          /\ lat1 \in Heights /\ top1 \in Heights /\ wtop1 \in -1..MaxHeight
      BY <1>0, <2>2, <3>1 DEF TypeOK, Heights, PolledTip, ScanTop
    <3>3. wtop1 <= lat1
      BY <2>1 DEF ScanWithinTip
    <3>4. LV!Refresh(selection)
      <4>1. /\ selection \in {"all", "mine", "watch"}
            /\ selection' = selection
            /\ diskTop' = diskTop /\ blockOf' = blockOf
        BY <1>0, <2>1 DEF TypeOK
      <4> QED
        BY <1>0, <2>1, <3>1, <3>2, <3>3, <4>1, CreateCombinedLedgerRefresh
    <3> QED
      BY <1>0, <3>4 DEF LV!Next, TypeOK
  <2>3. CASE ~bdmInit
    <3>0. wtop1 = wltTop
      BY <2>3 DEF ScanTop
    <3>1. /\ combinedLedger' = <<>> /\ ledgerTable' = <<>>
          /\ totFund' = {} /\ unconfFund' = {} /\ wltTop = -1 /\ wltTop' = -1
      BY <1>0, <2>1, <2>3, <3>0, CreateCombinedLedgerUnscanned DEF ViewRest
    <3>2. latestBlockNum' \in latestBlockNum..diskTop
      BY <1>0, <2>1, <2>3 DEF RefRest, LoadedInv, TypeOK, Heights, PolledTip
    <3>3. LV!Refresh(selection)
      BY <1>0, <2>1, <3>1, <3>2, EmptyRefresh
    <3> QED
      BY <1>0, <3>3 DEF LV!Next, TypeOK
  <2> QED
    BY <2>2, <2>3
<1>4. CASE MineBlock
  BY <1>4 DEF MineBlock, LV!Next, LV!Mine, bdmVars, viewVars, TableRows
<1>5. CASE StartHeartbeat \/ Connect \/ ConnectionMade \/ ConnectionLost
  <2>1. UNCHANGED <<diskTop, blockOf, selection, latestBlockNum, wltTop, combinedLedger,
                   ledgerTable, totFund, unconfFund>>
    BY <1>5 DEF StartHeartbeat, Connect, ConnectionMade, ConnectionLost,
                chainVars, bdmVars, viewVars
  <2> QED
    BY <2>1 DEF LV!lvVars, TableRows
<1>6. ASSUME NEW t \in Txs, ZeroConfTxSeen(t) \/ ZeroConfTxConfirmed(t)
      PROVE  [LV!Next]_LV!lvVars
  <2>1. UNCHANGED <<diskTop, blockOf, selection, latestBlockNum, wltTop, combinedLedger,
                   ledgerTable, totFund, unconfFund>>
    BY <1>6 DEF ZeroConfTxSeen, ZeroConfTxConfirmed, chainVars, bdmVars, viewVars
  <2> QED
    BY <2>1 DEF LV!lvVars, TableRows
<1>7. CASE UNCHANGED vars
  <2>1. UNCHANGED <<diskTop, blockOf, selection, latestBlockNum, wltTop, combinedLedger,
                   ledgerTable, totFund, unconfFund>>
    BY <1>7 DEF vars, chainVars, bdmVars, viewVars
  <2> QED
    BY <2>1 DEF LV!lvVars, TableRows
<1> QED
  BY <1>1, <1>2, <1>3, <1>4, <1>5, <1>6, <1>7 DEF Next

(***************************************************************************)
(* For every value of the constants, whichever engine and whichever        *)
(* wallets are offline: the window starts in the abstract view's initial  *)
(* state, and every step between states in which the wallets are scanned  *)
(* no higher than self.latestBlockNum is a refresh of the ledger view of   *)
(* spec 3, 4.2 and 4.4 (with "watching-only" as determineWalletType says), *)
(* a mined block, or a stutter.                                            *)
(***************************************************************************)
THEOREM LedgerViewRefinedWithinTipHolds == Spec => LedgerViewRefinedWithinTip
<1>1. Init => LV!Init
  BY RefinementInit
<1>2. Init => RefInv
  BY RefInvInit
<1>3. RefInv /\ [Next]_vars => RefInv'
  BY RefInvNext
<1>4. RefInv /\ [Next]_vars => (ScanWithinTip /\ ScanWithinTip' => [LV!Next]_LV!lvVars)
  BY RefinementStep
<1> QED
  BY <1>1, <1>2, <1>3, <1>4, PTL DEF Spec, LedgerViewRefinedWithinTip

=============================================================================
