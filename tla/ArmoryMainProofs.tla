-------------------------- MODULE ArmoryMainProofs --------------------------
(***************************************************************************)
(* Proofs about ArmoryMain.  The combined ledger and the filtered wallet    *)
(* lists are both built by ranking a finite set under a strict total order *)
(* (the k-th element is the one with k - 1 elements before it), so the     *)
(* lemmas of RankLemmas show that ranking is onto 1..Cardinality(S).       *)
(***************************************************************************)
EXTENDS ArmoryMain, RankLemmas, FiniteSetTheorems, TLAPS

(***************************************************************************)
(* The elements of a sequence form a finite set.                           *)
(***************************************************************************)
LEMMA ElemsFinite ==
    ASSUME NEW T, NEW s \in Seq(T)
    PROVE  IsFiniteSet(Elems(s)) /\ Elems(s) \subseteq T
<1>1. IsFiniteSet(1..Len(s))
  BY FS_Interval
<1>2. [k \in 1..Len(s) |-> s[k]] \in Surjection(1..Len(s), Elems(s))
  BY DEF Elems, Surjection
<1>. QED
  BY <1>1, <1>2, FS_Surjection DEF Elems

(***************************************************************************)
(* The entries createCombinedLedger collects for the wallets ids at a scan *)
(* height top are finitely many ledger entries.                            *)
(***************************************************************************)
LEMMA LedgerPairsType ==
    ASSUME NEW ids \in Seq(WalletIDs), NEW top \in -1..MaxHeight,
           blockOf \in [Txs -> Heights \cup {UnconfHeight}]
    PROVE  /\ IsFiniteSet(LedgerPairs(ids, top))
           /\ LedgerPairs(ids, top) \subseteq Entry
           /\ \A e \in LedgerPairs(ids, top) : e.wlt \in Elems(ids) /\ e.h = blockOf[e.tx]
<1> DEFINE X == {y \in Elems(ids) \X Txs : y[2] \in GetTxLedger(y[1], top)}
           g == [x \in X |-> [wlt |-> x[1], tx |-> x[2], h |-> blockOf[x[2]]]]
<1>1. IsFiniteSet(Elems(ids)) /\ Elems(ids) \subseteq WalletIDs
  BY ElemsFinite
<1>2. IsFiniteSet(X)
  <2>1. IsFiniteSet(Elems(ids) \X Txs)
    BY <1>1, TxAssumption, FS_Product
  <2> QED
    BY <2>1, FS_Subset
<1>3. LedgerPairs(ids, top) = {g[x] : x \in X}
  BY DEF LedgerPairs
<1>4. g \in Surjection(X, LedgerPairs(ids, top))
  BY <1>3 DEF Surjection
<1>5. ASSUME NEW x \in X PROVE g[x] \in Entry
  <2>1. x[1] \in WalletIDs /\ x[2] \in Txs
    BY <1>1
  <2>2. blockOf[x[2]] \in Heights
    BY <2>1, HeightAssumption DEF GetTxLedger, Heights
  <2> QED
    BY <2>1, <2>2 DEF Entry
<1> QED
  BY <1>2, <1>3, <1>4, <1>5, FS_Surjection

(***************************************************************************)
(* The order in which the stable reverse sort of createCombinedLedger      *)
(* leaves the entries is a strict total order on any set of entries of     *)
(* the listed wallets in which a transaction has one height.               *)
(***************************************************************************)
LEMMA SortsBeforeTotal ==
    ASSUME NEW ids \in Seq(WalletIDs), NEW P \in SUBSET Entry,
           \A e \in P : e.wlt \in Elems(ids),
           \A a, b \in P : a.tx = b.tx => a.h = b.h
    PROVE  LET R == {pr \in P \X P : SortsBefore(pr[1], pr[2], ids)}
           IN  /\ \A x \in P : <<x, x>> \notin R
               /\ \A x, y, z \in P : <<x, y>> \in R /\ <<y, z>> \in R => <<x, z>> \in R
               /\ \A x, y \in P : x # y => <<x, y>> \in R \/ <<y, x>> \in R
<1>1. ASSUME NEW e \in P
      PROVE  Position(e.wlt, ids) \in 1..Len(ids) /\ ids[Position(e.wlt, ids)] = e.wlt
  BY DEF Elems, Position
<1>2. \A e \in P : TxRank[e.tx] \in Nat /\ e.h \in Int
  BY TxAssumption DEF Entry, Heights
<1>3. \A x \in P : ~SortsBefore(x, x, ids)
  <2> SUFFICES ASSUME NEW x \in P PROVE ~SortsBefore(x, x, ids)
    OBVIOUS
  <2>1. Position(x.wlt, ids) \in Nat
    BY <1>1
  <2> QED
    BY <1>2, <2>1 DEF SortsBefore, KeyGreater
<1>4. \A x, y, z \in P : SortsBefore(x, y, ids) /\ SortsBefore(y, z, ids) => SortsBefore(x, z, ids)
  <2> SUFFICES ASSUME NEW x \in P, NEW y \in P, NEW z \in P,
                      SortsBefore(x, y, ids), SortsBefore(y, z, ids)
               PROVE  SortsBefore(x, z, ids)
    OBVIOUS
  <2>1. /\ Position(x.wlt, ids) \in Nat /\ Position(y.wlt, ids) \in Nat
        /\ Position(z.wlt, ids) \in Nat
    BY <1>1
  <2>2. /\ TxRank[x.tx] \in Nat /\ TxRank[y.tx] \in Nat /\ TxRank[z.tx] \in Nat
        /\ x.h \in Int /\ y.h \in Int /\ z.h \in Int
    BY <1>2
  <2> QED
    BY <2>1, <2>2 DEF SortsBefore, KeyGreater
<1>5. ASSUME NEW x \in P, NEW y \in P, x # y
      PROVE  SortsBefore(x, y, ids) \/ SortsBefore(y, x, ids)
  <2>1. CASE x.tx = y.tx
    <3>1. x.h = y.h
      BY <2>1
    <3>2. x.wlt # y.wlt
      BY <2>1, <3>1, <1>5 DEF Entry
    <3>3. Position(x.wlt, ids) # Position(y.wlt, ids)
      BY <1>1, <3>2
    <3> QED
      BY <1>1, <2>1, <3>1, <3>3 DEF SortsBefore
  <2>2. CASE x.tx # y.tx
    BY <2>2, <1>2, TxAssumption DEF SortsBefore, KeyGreater, Entry
  <2> QED
    BY <2>1, <2>2
<1> DEFINE R == {pr \in P \X P : SortsBefore(pr[1], pr[2], ids)}
<1>6. \A x, y \in P : <<x, y>> \in R <=> SortsBefore(x, y, ids)
  OBVIOUS
<1> HIDE DEF R
<1> QED
  BY <1>3, <1>4, <1>5, <1>6

(***************************************************************************)
(* The sorted combined ledger lists every collected entry exactly once.    *)
(***************************************************************************)
LEMMA SortDescendingType ==
    ASSUME NEW ids \in Seq(WalletIDs), NEW P \in SUBSET Entry, IsFiniteSet(P),
           \A e \in P : e.wlt \in Elems(ids),
           \A a, b \in P : a.tx = b.tx => a.h = b.h
    PROVE  /\ SortDescending(P, ids) \in Seq(P)
           /\ Len(SortDescending(P, ids)) = Cardinality(P)
<1> DEFINE R == {pr \in P \X P : SortsBefore(pr[1], pr[2], ids)}
<1>1. /\ \A x \in P : <<x, x>> \notin R
      /\ \A x, y, z \in P : <<x, y>> \in R /\ <<y, z>> \in R => <<x, z>> \in R
      /\ \A x, y \in P : x # y => <<x, y>> \in R \/ <<y, x>> \in R
  BY SortsBeforeTotal
<1>2. \A e \in P : {d \in P : <<d, e>> \in R} = {d \in P : SortsBefore(d, e, ids)}
  OBVIOUS
<1> HIDE DEF R
<1>3. \A k \in 1..Cardinality(P) : \E e \in P : Cardinality({d \in P : <<d, e>> \in R}) + 1 = k
  <2>1. IsStrictTotal(P, R)
    BY <1>1 DEF IsStrictTotal
  <2>2. RankOnto(P, R)
    BY <2>1, RankOntoLemma
  <2> QED
    BY <2>2 DEF RankOnto
<1>4. \A k \in 1..Cardinality(P) : \E e \in P : SortRank(e, P, ids) = k
  BY <1>2, <1>3 DEF SortRank
<1>5. Cardinality(P) \in Nat
  BY FS_CardinalityType
<1> QED
  BY <1>4, <1>5 DEF SortDescending

(***************************************************************************)
(* The wallets a radio button filters out of walletIDList are a sequence  *)
(* of loaded wallet ids.                                                   *)
(***************************************************************************)
LEMMA FilterWalletsType ==
    ASSUME NEW keep
    PROVE  FilterWallets(keep) \in Seq(WalletIDs)
<1> DEFINE I == {i \in DOMAIN WalletIDList : WalletType(WalletIDList[i]) \in keep}
           R == {pr \in I \X I : pr[1] < pr[2]}
<1>1. I \subseteq 1..NumWallets /\ IsFiniteSet(I)
  <2>1. I \subseteq 1..NumWallets
    BY WalletListAssumption DEF NumWallets
  <2>2. IsFiniteSet(1..NumWallets)
    BY WalletListAssumption, FS_Interval DEF NumWallets
  <2> QED
    BY <2>1, <2>2, FS_Subset
<1>2. /\ \A x \in I : <<x, x>> \notin R
      /\ \A x, y, z \in I : <<x, y>> \in R /\ <<y, z>> \in R => <<x, z>> \in R
      /\ \A x, y \in I : x # y => <<x, y>> \in R \/ <<y, x>> \in R
  BY <1>1
<1>3. \A i \in I : {d \in I : <<d, i>> \in R} = {j \in I : j < i}
  OBVIOUS
<1> HIDE DEF R
<1>4. \A k \in 1..Cardinality(I) : \E i \in I : Cardinality({d \in I : <<d, i>> \in R}) + 1 = k
  <2>1. IsStrictTotal(I, R)
    BY <1>2 DEF IsStrictTotal
  <2>2. RankOnto(I, R)
    BY <1>1, <2>1, RankOntoLemma
  <2> QED
    BY <2>2 DEF RankOnto
<1>5. \A k \in 1..Cardinality(I) : \E i \in I : Cardinality({j \in I : j < i}) + 1 = k
  BY <1>3, <1>4
<1>6. Cardinality(I) \in Nat
  BY <1>1, FS_CardinalityType
<1>7. \A i \in I : WalletIDList[i] \in WalletIDs
  BY WalletListAssumption
<1> DEFINE Pick(k) == CHOOSE i \in I : Cardinality({j \in I : j < i}) + 1 = k
<1>8. \A k \in 1..Cardinality(I) : Pick(k) \in I
  BY <1>5
<1>9. FilterWallets(keep) = [k \in 1..Cardinality(I) |-> WalletIDList[Pick(k)]]
  BY DEF FilterWallets
<1>10. [k \in 1..Cardinality(I) |-> WalletIDList[Pick(k)]] \in [1..Cardinality(I) -> WalletIDs]
  BY <1>7, <1>8
<1> HIDE DEF Pick
<1> QED
  BY <1>6, <1>9, <1>10

-----------------------------------------------------------------------------
(* Type correctness.                                                       *)

(***************************************************************************)
(* Each radio button selects a sequence of loaded wallet ids.              *)
(***************************************************************************)
LEMMA SelectedWalletsType ==
    ASSUME NEW sel \in {"all", "mine", "watch"}
    PROVE  SelectedWallets(sel) \in Seq(WalletIDs)
<1>1. CASE sel = "all"
  BY <1>1, WalletListAssumption DEF SelectedWallets
<1>2. CASE sel = "mine"
  BY <1>2, FilterWalletsType DEF SelectedWallets
<1>3. CASE sel = "watch"
  BY <1>3, FilterWalletsType DEF SelectedWallets
<1> QED
  BY <1>1, <1>2, <1>3

(***************************************************************************)
(* createCombinedLedger, from any well-typed state and with well-typed     *)
(* arguments, leaves the ledgers, the totals and the table well-typed.     *)
(***************************************************************************)
LEMMA CreateCombinedLedgerType ==
    ASSUME TypeOK,
           NEW ids \in Seq(WalletIDs), NEW lat \in Heights,
           NEW top \in -1..MaxHeight, NEW hdr \in Heights,
           NEW wl \in Seq(SUBSET Txs),
           CreateCombinedLedger(ids, lat, top, hdr, wl)
    PROVE  /\ walletLedgers' \in Seq(SUBSET Txs)
           /\ combinedLedger' \in Seq(Entry)
           /\ totFund' \subseteq Entry
           /\ unconfFund' \subseteq Entry
           /\ ledgerTable' \in Seq(Row)
<1>1. CASE CCLIndexError(ids, wl)
  BY <1>1 DEF CreateCombinedLedger, TypeOK
<1>2. CASE ~CCLIndexError(ids, wl)
  <2> DEFINE P == LedgerPairs(ids, top)
             L == SortDescending(P, ids)
  <2>1. /\ IsFiniteSet(P) /\ P \subseteq Entry
        /\ \A e \in P : e.wlt \in Elems(ids) /\ e.h = blockOf[e.tx]
    BY LedgerPairsType DEF TypeOK
  <2>2. L \in Seq(Entry)
    <3>1. \A a, b \in P : a.tx = b.tx => a.h = b.h
      BY <2>1
    <3>2. L \in Seq(P)
      BY <2>1, <3>1, SortDescendingType
    <3> QED
      BY <2>1, <3>2
  <2>3. walletLedgers' \in Seq(SUBSET Txs)
    <3>1. walletLedgers' = [i \in 1..Len(wl) |->
                              IF \E k \in DOMAIN ids : WalletIndex(ids[k]) = i
                              THEN GetTxLedger(WalletIDList[i], top) ELSE wl[i]]
      BY <1>2 DEF CreateCombinedLedger
    <3> QED
      BY <3>1 DEF GetTxLedger
  <2>4. totFund' \subseteq Entry /\ unconfFund' \subseteq Entry
    BY <1>2, <2>1 DEF CreateCombinedLedger
  <2>5. ConvertLedgerToTable(L, lat, hdr) \in Seq(Row)
    <3>1. \A k \in DOMAIN L : LedgerRow(L[k], lat, hdr) \in Row
      <4> SUFFICES ASSUME NEW k \in DOMAIN L PROVE LedgerRow(L[k], lat, hdr) \in Row
        OBVIOUS
      <4>1. L[k] \in Entry
        BY <2>2
      <4>2. NumConf(L[k], lat) \in Int
        BY <4>1, HeightAssumption DEF NumConf, Entry, Heights
      <4> QED
        BY <4>1, <4>2 DEF LedgerRow, Row, Entry, ZeroConfTime
    <3> QED
      BY <2>2, <3>1 DEF ConvertLedgerToTable
  <2>6. ledgerTable' \in Seq(Row)
    BY <1>2, <2>5 DEF CreateCombinedLedger, TypeOK
  <2>7. combinedLedger' \in Seq(Entry)
    BY <1>2, <2>2 DEF CreateCombinedLedger
  <2> QED
    BY <2>3, <2>4, <2>6, <2>7
<1> QED
  BY <1>1, <1>2

(***************************************************************************)
(* Armory starts in a well-typed state.                                    *)
(***************************************************************************)
THEOREM InitTypeOK == Init => TypeOK
<1> SUFFICES ASSUME Init PROVE TypeOK
  OBVIOUS
<1>1. walletBalances \in [1..NumWallets -> WalletIDs \cup {"unset"}]
  BY DEF Init
<1>2. blockOf \in [Txs -> Heights \cup {UnconfHeight}]
  <2>1. InitHeights \cup {UnconfHeight} \subseteq Heights \cup {UnconfHeight}
    BY HeightAssumption DEF Heights
  <2> QED
    BY <2>1 DEF Init
<1>3. diskTop \in StartHeight..MaxHeight /\ bdmTop \in Heights /\ wltTop \in -1..MaxHeight
      /\ latestBlockNum \in Heights
  BY HeightAssumption DEF Init, Heights
<1>4. /\ walletLedgers \in Seq(SUBSET Txs) /\ walletSubLedgers \in Seq(WalletIDs)
      /\ combinedLedger \in Seq(Entry) /\ ledgerTable \in Seq(Row)
  BY DEF Init
<1>5. walletBalances \in [1..NumWallets -> WalletIDs \cup {"unset"}] \cup WalletIDs
  BY <1>1
<1> QED
  BY <1>2, <1>3, <1>4, <1>5 DEF Init, TypeOK

(***************************************************************************)
(* Every handler of the window (the blockchain load, a radio-button click, *)
(* the heartbeat) and every step of bitcoind and of the network factory    *)
(* keeps the state well-typed.                                             *)
(***************************************************************************)
THEOREM NextTypeOK == TypeOK /\ [Next]_vars => TypeOK'
<1> SUFFICES ASSUME TypeOK, [Next]_vars PROVE TypeOK'
  OBVIOUS
<1> USE HeightAssumption
<1>1. CASE LoadBlockchain
  <2> PICK ok \in BOOLEAN :
        /\ bdmLoaded' = TRUE
        /\ bdmInit' = ok
        /\ bdmTop' = IF ok THEN diskTop ELSE bdmTop
        /\ latestBlockNum' = bdmTop'
        /\ IF ok
           THEN /\ wltTop' = diskTop
                /\ walletBalances' = SyncedBalances
                /\ walletSubLedgers' = MapOrder
                /\ CreateCombinedLedger(WalletIDList, diskTop, diskTop, diskTop,
                       [k \in 1..NumWallets |-> GetTxLedger(MapOrder[k], diskTop)])
           ELSE UNCHANGED <<wltTop, walletBalances, walletSubLedgers, walletLedgers,
                            combinedLedger, totFund, unconfFund, ledgerTable>>
    BY <1>1 DEF LoadBlockchain
  <2>1. UNCHANGED <<chainVars, selection, hb, netVars>>
    BY <1>1 DEF LoadBlockchain
  <2>2. diskTop \in Heights /\ bdmTop' \in Heights /\ latestBlockNum' \in Heights
    BY DEF TypeOK, Heights
  <2>3. CASE ok
    <3>1. NumWallets \in Nat
      BY WalletListAssumption DEF NumWallets
    <3>2. [k \in 1..NumWallets |-> GetTxLedger(MapOrder[k], diskTop)] \in Seq(SUBSET Txs)
      BY <3>1 DEF GetTxLedger
    <3>3. /\ walletLedgers' \in Seq(SUBSET Txs)
          /\ combinedLedger' \in Seq(Entry)
          /\ totFund' \subseteq Entry
          /\ unconfFund' \subseteq Entry
          /\ ledgerTable' \in Seq(Row)
      <4>1. CreateCombinedLedger(WalletIDList, diskTop, diskTop, diskTop,
                [k \in 1..NumWallets |-> GetTxLedger(MapOrder[k], diskTop)])
        BY <2>3
      <4>2. diskTop \in -1..MaxHeight
        BY DEF TypeOK
      <4> QED
        BY <2>2, <3>2, <4>1, <4>2, WalletListAssumption, CreateCombinedLedgerType
    <3>4. walletSubLedgers' \in Seq(WalletIDs)
      BY <2>3, <3>1, MapOrderAssumption
    <3>5. walletBalances' \in [1..NumWallets -> WalletIDs \cup {"unset"}]
      BY <2>3, WalletListAssumption DEF NumWallets, SyncedBalances
    <3> QED
      BY <2>1, <2>2, <2>3, <3>3, <3>4, <3>5 DEF TypeOK, Heights, chainVars, netVars
  <2>4. CASE ~ok
    BY <2>1, <2>2, <2>4 DEF TypeOK, chainVars, netVars
  <2> QED
    BY <2>3, <2>4
<1>2. ASSUME NEW sel \in {"all", "mine", "watch"}, SelectWallets(sel)
      PROVE  TypeOK'
  <2>1. /\ walletLedgers' \in Seq(SUBSET Txs)
        /\ combinedLedger' \in Seq(Entry)
        /\ totFund' \subseteq Entry
        /\ unconfFund' \subseteq Entry
        /\ ledgerTable' \in Seq(Row)
    BY <1>2, SelectedWalletsType, CreateCombinedLedgerType DEF SelectWallets, TypeOK, Heights
  <2> QED
    BY <1>2, <2>1 DEF SelectWallets, TypeOK, chainVars, bdmVars, netVars
<1>3. CASE StartHeartbeat
  BY <1>3 DEF StartHeartbeat, TypeOK, chainVars, bdmVars, netVars
<1>4. CASE Heartbeat
  <2> DEFINE newBlks == IF bdmInit THEN diskTop - bdmTop ELSE 0
             top1    == IF bdmInit THEN diskTop ELSE bdmTop
             lat1    == PolledTip(newBlks, top1)
             wtop1   == ScanTop(top1)
             ids     == SelectedWallets(selection)
  <2>1. top1 \in Heights /\ lat1 \in Heights /\ wtop1 \in -1..MaxHeight
    BY DEF TypeOK, Heights, ScanTop, PolledTip
  <2>2. ids \in Seq(WalletIDs)
    BY SelectedWalletsType DEF TypeOK
  <2>3. CreateCombinedLedger(ids, lat1, wtop1, top1, walletLedgers)
    BY <1>4 DEF Heartbeat
  <2>4. /\ walletLedgers' \in Seq(SUBSET Txs)
        /\ combinedLedger' \in Seq(Entry)
        /\ totFund' \subseteq Entry
        /\ unconfFund' \subseteq Entry
        /\ ledgerTable' \in Seq(Row)
    BY <2>1, <2>2, <2>3, CreateCombinedLedgerType DEF TypeOK
  <2>5. walletBalances' \in [1..NumWallets -> WalletIDs \cup {"unset"}] \cup WalletIDs
    <3>1. NumWallets # 0 => MapOrder[NumWallets] \in WalletIDs
      BY MapOrderAssumption, WalletListAssumption DEF NumWallets
    <3> QED
      BY <1>4, <3>1 DEF Heartbeat, TypeOK
  <2>6. /\ bdmTop' = top1 /\ latestBlockNum' = lat1 /\ wltTop' = wtop1
        /\ hb' \in {"off", "alive", "dead"}
        /\ UNCHANGED <<chainVars, bdmLoaded, bdmInit, walletSubLedgers, selection, netVars>>
    BY <1>4 DEF Heartbeat
  <2> QED
    BY <2>1, <2>4, <2>5, <2>6 DEF TypeOK, chainVars, netVars
<1>5. CASE MineBlock
  <2>1. blockOf' \in [Txs -> Heights \cup {UnconfHeight}]
    BY <1>5 DEF MineBlock, TypeOK, Heights
  <2> QED
    BY <1>5, <2>1 DEF MineBlock, TypeOK, bdmVars, viewVars, netVars
<1>6. CASE Connect \/ ConnectionMade \/ ConnectionLost
  BY <1>6 DEF Connect, ConnectionMade, ConnectionLost, TypeOK, chainVars, bdmVars, viewVars
<1>7. ASSUME NEW t \in Txs, ZeroConfTxSeen(t) \/ ZeroConfTxConfirmed(t)
      PROVE  TypeOK'
  BY <1>7 DEF ZeroConfTxSeen, ZeroConfTxConfirmed, TypeOK, chainVars, bdmVars, viewVars
<1>8. CASE UNCHANGED vars
  BY <1>8 DEF vars, TypeOK, chainVars, bdmVars, viewVars, netVars
<1> QED
  BY <1>1, <1>2, <1>3, <1>4, <1>5, <1>6, <1>7, <1>8 DEF Next

(***************************************************************************)
(* Every reachable state of the window is well-typed.                      *)
(***************************************************************************)
THEOREM TypeCorrect == Spec => []TypeOK
BY InitTypeOK, NextTypeOK, PTL DEF Spec

-----------------------------------------------------------------------------
(* The heartbeat survives once the chain has loaded.                       *)

(***************************************************************************)
(* What decides whether a heartbeat can raise, strengthened to be          *)
(* inductive: the heartbeat only runs after loadBlockchain; TheBDM's tip   *)
(* never passes the block file; and after a successful load walletLedgers *)
(* has a slot per wallet, the scan height and self.latestBlockNum are no   *)
(* higher than TheBDM's tip, and a dead heartbeat left the wallets scanned *)
(* past the tracked tip -- nothing after its death moves either height.    *)
(***************************************************************************)
LoadedInv ==
    /\ bdmInit => bdmLoaded
    /\ ~bdmLoaded => hb = "off"
    /\ bdmTop <= diskTop
    /\ bdmInit => /\ Len(walletLedgers) = NumWallets
                  /\ wltTop <= bdmTop
                  /\ latestBlockNum <= bdmTop
                  /\ HeartbeatDiesOnlyAheadOfTip

IInv == TypeOK /\ LoadedInv

(***************************************************************************)
(* Every collected entry lies at or below the scan height.                 *)
(***************************************************************************)
LEMMA LedgerPairsScanned ==
    ASSUME NEW ids, NEW top, NEW e \in LedgerPairs(ids, top)
    PROVE  e.h = blockOf[e.tx] /\ blockOf[e.tx] <= top
BY DEF LedgerPairs, GetTxLedger

(***************************************************************************)
(* createCombinedLedger keeps one walletLedgers slot per wallet.           *)
(***************************************************************************)
LEMMA CreateCombinedLedgerLength ==
    ASSUME NEW ids, NEW lat, NEW top, NEW hdr,
           NEW wl \in Seq(SUBSET Txs), Len(wl) = NumWallets,
           CreateCombinedLedger(ids, lat, top, hdr, wl)
    PROVE  Len(walletLedgers') = NumWallets
<1>1. CASE CCLIndexError(ids, wl)
  BY <1>1 DEF CreateCombinedLedger
<1>2. CASE ~CCLIndexError(ids, wl)
  <2>1. walletLedgers' = [i \in 1..Len(wl) |->
                            IF \E k \in DOMAIN ids : WalletIndex(ids[k]) = i
                            THEN GetTxLedger(WalletIDList[i], top) ELSE wl[i]]
    BY <1>2 DEF CreateCombinedLedger
  <2> QED
    BY <2>1
<1> QED
  BY <1>1, <1>2

(***************************************************************************)
(* createCombinedLedger raises neither IndexError nor KeyError when        *)
(* walletLedgers has a slot per wallet and the wallets are scanned no      *)
(* higher than the tip the table is converted against.                     *)
(***************************************************************************)
LEMMA CreateCombinedLedgerNoRaise ==
    ASSUME TypeOK,
           NEW ids \in Seq(WalletIDs), NEW lat \in Heights,
           NEW top \in -1..MaxHeight, top <= lat,
           NEW wl \in Seq(SUBSET Txs), Len(wl) = NumWallets
    PROVE  ~CCLRaises(ids, lat, top, wl)
<1> DEFINE P == LedgerPairs(ids, top)
           L == SortDescending(P, ids)
<1>1. ~CCLIndexError(ids, wl)
  BY DEF CCLIndexError
<1>2. L \in Seq(P)
  <2>1. /\ IsFiniteSet(P) /\ P \subseteq Entry
        /\ \A e \in P : e.wlt \in Elems(ids) /\ e.h = blockOf[e.tx]
    BY LedgerPairsType DEF TypeOK
  <2> QED
    BY <2>1, SortDescendingType
<1>3. ASSUME NEW e \in P PROVE ~RowRaises(e, lat)
  <2>1. e.h = blockOf[e.tx] /\ blockOf[e.tx] <= top
    BY LedgerPairsScanned
  <2>2. e.h \in Int
    BY <2>1, LedgerPairsType DEF TypeOK, Entry, Heights
  <2>3. NumConf(e, lat) = lat - e.h + 1
    BY <2>1, <2>2, HeightAssumption DEF NumConf, Heights
  <2> QED
    BY <2>1, <2>2, <2>3 DEF RowRaises, Heights
<1>4. ~ConvertRaises(L, lat)
  BY <1>2, <1>3 DEF ConvertRaises
<1> QED
  BY <1>1, <1>4 DEF CCLRaises

(***************************************************************************)
(* Armory starts in a state of the invariant.                              *)
(***************************************************************************)
THEOREM IInvInit == Init => IInv
BY InitTypeOK, HeightAssumption DEF Init, IInv, LoadedInv

(***************************************************************************)
(* Whatever the engine, every step keeps the invariant.                    *)
(***************************************************************************)
THEOREM IInvNext == IInv /\ [Next]_vars => IInv'
<1> SUFFICES ASSUME IInv, [Next]_vars PROVE LoadedInv'
  BY NextTypeOK DEF IInv
<1> USE HeightAssumption
<1>0. TypeOK /\ LoadedInv
  BY DEF IInv
<1>1. CASE LoadBlockchain
  <2> PICK ok \in BOOLEAN :
        /\ bdmLoaded' = TRUE
        /\ bdmInit' = ok
        /\ bdmTop' = IF ok THEN diskTop ELSE bdmTop
        /\ latestBlockNum' = bdmTop'
        /\ IF ok
           THEN /\ wltTop' = diskTop
                /\ walletBalances' = SyncedBalances
                /\ walletSubLedgers' = MapOrder
                /\ CreateCombinedLedger(WalletIDList, diskTop, diskTop, diskTop,
                       [k \in 1..NumWallets |-> GetTxLedger(MapOrder[k], diskTop)])
           ELSE UNCHANGED <<wltTop, walletBalances, walletSubLedgers, walletLedgers,
                            combinedLedger, totFund, unconfFund, ledgerTable>>
    BY <1>1 DEF LoadBlockchain
  <2>1. hb' = "off" /\ diskTop' = diskTop
    BY <1>0, <1>1 DEF LoadBlockchain, LoadedInv, chainVars
  <2>2. CASE ok
    <3>1. NumWallets \in Nat
      BY WalletListAssumption DEF NumWallets
    <3>2. [k \in 1..NumWallets |-> GetTxLedger(MapOrder[k], diskTop)] \in Seq(SUBSET Txs)
      BY <3>1 DEF GetTxLedger
    <3>3. Len([k \in 1..NumWallets |-> GetTxLedger(MapOrder[k], diskTop)]) = NumWallets
      BY <3>1
    <3>4. Len(walletLedgers') = NumWallets
      BY <2>2, <3>2, <3>3, CreateCombinedLedgerLength
    <3>5. diskTop \in Int
      BY <1>0 DEF TypeOK
    <3> QED
      BY <2>1, <2>2, <3>4, <3>5 DEF LoadedInv, HeartbeatDiesOnlyAheadOfTip
  <2>3. CASE ~ok
    BY <1>0, <2>1, <2>3 DEF LoadedInv
  <2> QED
    BY <2>2, <2>3
<1>2. ASSUME NEW sel \in {"all", "mine", "watch"}, SelectWallets(sel)
      PROVE  LoadedInv'
  <2>1. UNCHANGED <<diskTop, bdmLoaded, bdmInit, bdmTop, wltTop, latestBlockNum, hb>>
    BY <1>2 DEF SelectWallets, chainVars, bdmVars
  <2>2. bdmInit => Len(walletLedgers') = NumWallets
    <3> SUFFICES ASSUME bdmInit PROVE Len(walletLedgers') = NumWallets
      OBVIOUS
    <3>1. walletLedgers \in Seq(SUBSET Txs) /\ Len(walletLedgers) = NumWallets
      BY <1>0 DEF TypeOK, LoadedInv
    <3> QED
      BY <1>2, <3>1, CreateCombinedLedgerLength DEF SelectWallets
  <2> QED
    BY <1>0, <2>1, <2>2 DEF LoadedInv, HeartbeatDiesOnlyAheadOfTip, ScanWithinTip
<1>3. CASE StartHeartbeat
  BY <1>0, <1>3 DEF StartHeartbeat, LoadedInv, HeartbeatDiesOnlyAheadOfTip, chainVars, bdmVars
<1>4. CASE Heartbeat
  <2> DEFINE newBlks == IF bdmInit THEN diskTop - bdmTop ELSE 0
             top1    == IF bdmInit THEN diskTop ELSE bdmTop
             lat1    == PolledTip(newBlks, top1)
             wtop1   == ScanTop(top1)
             ids     == SelectedWallets(selection)
  <2>1. /\ bdmTop' = top1 /\ latestBlockNum' = lat1 /\ wltTop' = wtop1
        /\ CreateCombinedLedger(ids, lat1, wtop1, top1, walletLedgers)
        /\ hb' = IF CCLRaises(ids, lat1, wtop1, walletLedgers) THEN "dead" ELSE "alive"
        /\ UNCHANGED <<diskTop, bdmLoaded, bdmInit>>
    BY <1>4 DEF Heartbeat, chainVars
  <2>2. bdmLoaded
    BY <1>0, <1>4 DEF Heartbeat, LoadedInv
  <2>3. top1 <= diskTop
    BY <1>0 DEF LoadedInv, TypeOK, Heights
  <2>4. CASE bdmInit
    <3>1. /\ Len(walletLedgers) = NumWallets /\ wltTop <= bdmTop
          /\ latestBlockNum <= bdmTop /\ bdmTop <= diskTop
      BY <1>0, <2>4 DEF LoadedInv
    <3>2. /\ top1 = diskTop /\ lat1 \in Heights /\ lat1 <= top1
          /\ wtop1 \in -1..MaxHeight /\ wtop1 <= top1
      BY <1>0, <2>4, <3>1 DEF TypeOK, Heights, PolledTip, ScanTop
    <3>3. Len(walletLedgers') = NumWallets
      BY <1>0, <2>1, <3>1, CreateCombinedLedgerLength DEF TypeOK
    <3>4. wtop1 <= lat1 => ~CCLRaises(ids, lat1, wtop1, walletLedgers)
      <4>1. ids \in Seq(WalletIDs) /\ walletLedgers \in Seq(SUBSET Txs)
        BY <1>0, SelectedWalletsType DEF TypeOK
      <4> QED
        BY <1>0, <3>1, <3>2, <4>1, CreateCombinedLedgerNoRaise
    <3>5. HeartbeatDiesOnlyAheadOfTip'
      <4>1. hb' = "dead" => ~(wtop1 <= lat1)
        BY <2>1, <3>4
      <4> QED
        BY <2>1, <4>1 DEF HeartbeatDiesOnlyAheadOfTip, ScanWithinTip
    <3>6. /\ diskTop' = diskTop /\ bdmInit' = bdmInit /\ bdmLoaded' = bdmLoaded
          /\ bdmTop' = top1 /\ wltTop' = wtop1 /\ latestBlockNum' = lat1
      BY <2>1
    <3>7. /\ bdmTop' <= diskTop' /\ wltTop' <= bdmTop' /\ latestBlockNum' <= bdmTop'
          /\ bdmInit' /\ bdmLoaded'
      BY <1>0, <2>2, <2>4, <3>2, <3>6 DEF TypeOK, Heights
    <3> QED
      BY <3>3, <3>5, <3>7 DEF LoadedInv
  <2>5. CASE ~bdmInit
    BY <2>1, <2>2, <2>3, <2>5 DEF LoadedInv
  <2> QED
    BY <2>4, <2>5
<1>5. CASE MineBlock
  <2>1. /\ diskTop' = diskTop + 1
        /\ UNCHANGED <<bdmLoaded, bdmInit, bdmTop, wltTop, latestBlockNum, walletLedgers, hb>>
    BY <1>5 DEF MineBlock, bdmVars, viewVars
  <2>2. diskTop \in Int /\ bdmTop \in Int
    BY <1>0 DEF TypeOK, Heights
  <2> QED
    BY <1>0, <2>1, <2>2 DEF LoadedInv, HeartbeatDiesOnlyAheadOfTip, ScanWithinTip
<1>6. CASE Connect \/ ConnectionMade \/ ConnectionLost
  BY <1>0, <1>6 DEF Connect, ConnectionMade, ConnectionLost, LoadedInv, HeartbeatDiesOnlyAheadOfTip, ScanWithinTip, chainVars, bdmVars, viewVars
<1>7. ASSUME NEW t \in Txs, ZeroConfTxSeen(t) \/ ZeroConfTxConfirmed(t)
      PROVE  LoadedInv'
  BY <1>0, <1>7 DEF ZeroConfTxSeen, ZeroConfTxConfirmed, LoadedInv, HeartbeatDiesOnlyAheadOfTip, ScanWithinTip, chainVars, bdmVars, viewVars
<1>8. CASE UNCHANGED vars
  BY <1>0, <1>8 DEF vars, LoadedInv, HeartbeatDiesOnlyAheadOfTip, ScanWithinTip, chainVars, bdmVars, viewVars, netVars
<1> QED
  BY <1>1, <1>2, <1>3, <1>4, <1>5, <1>6, <1>7, <1>8 DEF Next

(***************************************************************************)
(* For every value of the constants, whichever engine: once loadBlockchain *)
(* has initialized TheBDM, a Heartbeat can only be stopped by the KeyError *)
(* of a row scanned past self.latestBlockNum -- never by the IndexError at *)
(* 446 -- so with the scan within the tip the heartbeat chain never breaks.*)
(***************************************************************************)
THEOREM HeartbeatDiesOnlyAheadOfTipHolds == Spec => []HeartbeatDiesOnlyAheadOfTip
<1>1. Init => IInv
  BY IInvInit
<1>2. IInv /\ [Next]_vars => IInv'
  BY IInvNext
<1>3. IInv => HeartbeatDiesOnlyAheadOfTip
  BY DEF IInv, LoadedInv, HeartbeatDiesOnlyAheadOfTip
<1> QED
  BY <1>1, <1>2, <1>3, PTL DEF Spec

-----------------------------------------------------------------------------
(* The combined ledger is sorted.                                          *)

(***************************************************************************)
(* The combined ledger is exactly the stable reverse sort of the entries   *)
(* the selected wallets' ledgers hold at the scan height.  It is kept by   *)
(* every handler because each one that touches it rebuilds it from the    *)
(* current selection and scan height, and by bitcoind because a new block *)
(* lies above the scan height.  What makes that so: TheBDM's tip and the  *)
(* scan height never pass the chain; before a successful load nothing is  *)
(* scanned (an IndexError then leaves the empty list, which is the sort    *)
(* of no entries); after one, walletLedgers has a slot per wallet, so no  *)
(* IndexError; and before the load the selection is still "all".          *)
(***************************************************************************)
SelectedLedger == SortDescending(LedgerPairs(SelectedWallets(selection), wltTop),
                                 SelectedWallets(selection))

SortedInv ==
    /\ TypeOK
    /\ bdmTop <= diskTop
    /\ wltTop <= diskTop
    /\ bdmInit => bdmLoaded
    /\ ~bdmLoaded => selection = "all"
    /\ ~bdmInit => wltTop = -1
    /\ bdmInit => Len(walletLedgers) = NumWallets
    /\ combinedLedger = SelectedLedger

(***************************************************************************)
(* The sorted list of a set of collected entries holds each of them once   *)
(* and never a newer one after an older one: position k holds the entry   *)
(* of rank k, and RankListSorted does the rest.                            *)
(***************************************************************************)
LEMMA SortDescendingSorted ==
    ASSUME NEW ids \in Seq(WalletIDs), NEW top \in -1..MaxHeight,
           blockOf \in [Txs -> Heights \cup {UnconfHeight}]
    PROVE  LET L == SortDescending(LedgerPairs(ids, top), ids)
           IN  /\ Elems(L) = LedgerPairs(ids, top)
               /\ Len(L) = Cardinality(Elems(L))
               /\ \A k \in 1..Len(L) - 1 : ~KeyGreater(L[k + 1], L[k])
<1> DEFINE P == LedgerPairs(ids, top)
           L == SortDescending(P, ids)
           R == {pr \in P \X P : SortsBefore(pr[1], pr[2], ids)}
<1>1. /\ IsFiniteSet(P) /\ P \subseteq Entry
      /\ \A e \in P : e.wlt \in Elems(ids) /\ e.h = blockOf[e.tx]
  BY LedgerPairsType
<1>2. \A a, b \in P : a.tx = b.tx => a.h = b.h
  BY <1>1
<1>3. IsStrictTotal(P, R)
  <2>1. /\ \A x \in P : <<x, x>> \notin R
        /\ \A x, y, z \in P : <<x, y>> \in R /\ <<y, z>> \in R => <<x, z>> \in R
        /\ \A x, y \in P : x # y => <<x, y>> \in R \/ <<y, x>> \in R
    BY <1>1, <1>2, SortsBeforeTotal
  <2> QED
    BY <2>1 DEF IsStrictTotal
<1>4. \A e \in P : SortRank(e, P, ids) = RankIn(e, P, R)
  BY DEF SortRank, RankIn
<1>5. Cardinality(P) \in Nat
  BY <1>1, FS_CardinalityType
<1>6. \A k \in 1..Cardinality(P) : \E e \in P : SortRank(e, P, ids) = k
  <2>1. RankOnto(P, R)
    BY <1>1, <1>3, RankOntoLemma
  <2> QED
    BY <1>4, <2>1 DEF RankOnto, RankIn
<1>7. /\ L \in [1..Cardinality(P) -> P]
      /\ \A k \in 1..Cardinality(P) : RankIn(L[k], P, R) = k
  <2>1. \A k \in 1..Cardinality(P) : L[k] \in P /\ SortRank(L[k], P, ids) = k
    BY <1>6 DEF SortDescending
  <2>2. L = [k \in 1..Cardinality(P) |-> L[k]]
    BY DEF SortDescending
  <2> QED
    BY <1>4, <2>1, <2>2
<1> HIDE DEF L, R, P
<1>8. /\ {L[k] : k \in 1..Cardinality(P)} = P
      /\ \A k \in 1..Cardinality(P) - 1 : <<L[k + 1], L[k]>> \notin R
  <2>1. /\ IsFiniteSet(P) /\ IsStrictTotal(P, R)
        /\ L \in [1..Cardinality(P) -> P]
        /\ \A k \in 1..Cardinality(P) : RankIn(L[k], P, R) = k
    BY <1>1, <1>3, <1>7
  <2> QED
    BY <2>1, RankListSorted
<1>9. L \in Seq(P) /\ Len(L) = Cardinality(P)
  BY <1>5, <1>7
<1>10. Elems(L) = P
  BY <1>8, <1>9 DEF Elems
<1>11. ASSUME NEW k \in 1..Len(L) - 1 PROVE ~KeyGreater(L[k + 1], L[k])
  <2>1. <<L[k + 1], L[k]>> \notin R /\ L[k] \in P /\ L[k + 1] \in P
    BY <1>5, <1>7, <1>8, <1>9
  <2> QED
    BY <2>1 DEF R, SortsBefore
<1> QED
  BY <1>9, <1>10, <1>11 DEF L, P

(***************************************************************************)
(* Nothing is collected from wallets that were never scanned.              *)
(***************************************************************************)
LEMMA LedgerPairsUnscanned ==
    ASSUME NEW ids, blockOf \in [Txs -> Heights \cup {UnconfHeight}]
    PROVE  LedgerPairs(ids, -1) = {}
BY HeightAssumption DEF LedgerPairs, GetTxLedger, Heights

(***************************************************************************)
(* createCombinedLedger leaves the sort of the collected entries in        *)
(* combinedLedger, unless it raised IndexError -- and then nothing was     *)
(* scanned, so the empty list it leaves is that sort too.                  *)
(***************************************************************************)
LEMMA CreateCombinedLedgerSorted ==
    ASSUME TypeOK, NEW ids, NEW lat, NEW top, NEW hdr, NEW wl,
           top = -1 \/ ~CCLIndexError(ids, wl),
           CreateCombinedLedger(ids, lat, top, hdr, wl)
    PROVE  combinedLedger' = SortDescending(LedgerPairs(ids, top), ids)
<1>1. CASE ~CCLIndexError(ids, wl)
  BY <1>1 DEF CreateCombinedLedger
<1>2. CASE CCLIndexError(ids, wl)
  <2>1. top = -1 /\ combinedLedger' = <<>>
    BY <1>2 DEF CreateCombinedLedger
  <2>2. LedgerPairs(ids, top) = {}
    BY <2>1, LedgerPairsUnscanned DEF TypeOK
  <2>3. Cardinality({}) = 0
    BY FS_EmptySet
  <2>4. SortDescending(LedgerPairs(ids, top), ids) = [k \in 1..0 |-> CHOOSE e \in {} : TRUE]
    BY <2>2, <2>3 DEF SortDescending
  <2> QED
    BY <2>1, <2>4
<1> QED
  BY <1>1, <1>2

(***************************************************************************)
(* A block mined above the scan height changes no collected entry.         *)
(***************************************************************************)
LEMMA MineKeepsPairs ==
    ASSUME TypeOK, MineBlock, wltTop <= diskTop, NEW ids
    PROVE  LedgerPairs(ids, wltTop)' = LedgerPairs(ids, wltTop)
<1>1. PICK S \in SUBSET {t \in Txs : blockOf[t] = UnconfHeight} :
        blockOf' = [t \in Txs |-> IF t \in S THEN diskTop + 1 ELSE blockOf[t]]
  BY DEF MineBlock
<1>2. wltTop' = wltTop /\ diskTop \in Int /\ wltTop \in Int
  BY DEF MineBlock, bdmVars, TypeOK, Heights
<1>3. \A t \in Txs : /\ blockOf'[t] <= wltTop <=> blockOf[t] <= wltTop
                     /\ blockOf[t] <= wltTop => blockOf'[t] = blockOf[t]
  <2> SUFFICES ASSUME NEW t \in Txs
               PROVE  /\ blockOf'[t] <= wltTop <=> blockOf[t] <= wltTop
                      /\ blockOf[t] <= wltTop => blockOf'[t] = blockOf[t]
    OBVIOUS
  <2>1. CASE t \in S
    <3>1. blockOf[t] = UnconfHeight /\ blockOf'[t] = diskTop + 1
      BY <1>1, <2>1
    <3> QED
      BY <1>2, <3>1, HeightAssumption DEF TypeOK
  <2>2. CASE t \notin S
    BY <1>1, <2>2
  <2> QED
    BY <2>1, <2>2
<1>4. \A w : GetTxLedger(w, wltTop)' = GetTxLedger(w, wltTop)
  BY <1>2, <1>3 DEF GetTxLedger
<1> QED
  BY <1>2, <1>3, <1>4 DEF LedgerPairs, GetTxLedger

(***************************************************************************)
(* Armory starts with an empty ledger and nothing scanned.                 *)
(***************************************************************************)
THEOREM SortedInvInit == Init => SortedInv
<1> SUFFICES ASSUME Init PROVE SortedInv
  OBVIOUS
<1>1. TypeOK
  BY InitTypeOK
<1>2. LedgerPairs(SelectedWallets(selection), wltTop) = {}
  BY <1>1, LedgerPairsUnscanned DEF Init, TypeOK
<1>3. SelectedLedger = <<>>
  <2>1. Cardinality({}) = 0
    BY FS_EmptySet
  <2> QED
    BY <1>2, <2>1 DEF SelectedLedger, SortDescending
<1> QED
  BY <1>1, <1>3, HeightAssumption DEF Init, SortedInv

(***************************************************************************)
(* Every step keeps the combined ledger equal to the sort of the selected  *)
(* wallets' scanned entries, whatever TheBDM's poll does to the scan      *)
(* height.                                                                 *)
(***************************************************************************)
THEOREM SortedInvNext == SortedInv /\ [Next]_vars => SortedInv'
<1> SUFFICES ASSUME SortedInv, [Next]_vars PROVE SortedInv'
  OBVIOUS
<1>0. TypeOK /\ TypeOK'
  BY NextTypeOK DEF SortedInv
<1> USE HeightAssumption
<1> DEFINE Sel == SelectedWallets(selection)
<1>1. CASE LoadBlockchain
  <2> DEFINE wl == [k \in 1..NumWallets |-> GetTxLedger(MapOrder[k], diskTop)]
  <2> PICK ok \in BOOLEAN :
        /\ bdmLoaded' = TRUE
        /\ bdmInit' = ok
        /\ bdmTop' = IF ok THEN diskTop ELSE bdmTop
        /\ latestBlockNum' = bdmTop'
        /\ IF ok
           THEN /\ wltTop' = diskTop
                /\ walletBalances' = SyncedBalances
                /\ walletSubLedgers' = MapOrder
                /\ CreateCombinedLedger(WalletIDList, diskTop, diskTop, diskTop, wl)
           ELSE UNCHANGED <<wltTop, walletBalances, walletSubLedgers, walletLedgers,
                            combinedLedger, totFund, unconfFund, ledgerTable>>
    BY <1>1 DEF LoadBlockchain
  <2>1. ~bdmLoaded /\ ~bdmInit /\ selection = "all" /\ wltTop = -1
        /\ UNCHANGED <<diskTop, blockOf, selection>>
    BY <1>1 DEF LoadBlockchain, SortedInv, chainVars
  <2>2. CASE ok
    <3>0. /\ CreateCombinedLedger(WalletIDList, diskTop, diskTop, diskTop, wl)
          /\ wltTop' = diskTop /\ bdmTop' = diskTop /\ bdmInit' /\ bdmLoaded'
          /\ diskTop \in Int
      BY <1>0, <2>2 DEF TypeOK
    <3>1. NumWallets \in Nat
      BY WalletListAssumption DEF NumWallets
    <3>2. wl \in Seq(SUBSET Txs) /\ Len(wl) = NumWallets
      BY <3>1 DEF GetTxLedger
    <3>3. ~CCLIndexError(WalletIDList, wl)
      BY <3>1, <3>2 DEF CCLIndexError
    <3>4. combinedLedger' = SortDescending(LedgerPairs(WalletIDList, diskTop), WalletIDList)
      BY <1>0, <3>0, <3>3, CreateCombinedLedgerSorted
    <3>5. Len(walletLedgers') = NumWallets
      BY <3>0, <3>2, CreateCombinedLedgerLength
    <3>6. SelectedWallets(selection') = WalletIDList
      BY <2>1 DEF SelectedWallets
    <3>7. combinedLedger' = SelectedLedger'
      BY <2>1, <3>0, <3>4, <3>6 DEF SelectedLedger, LedgerPairs, GetTxLedger
    <3> QED
      BY <1>0, <2>1, <3>0, <3>5, <3>7 DEF SortedInv
  <2>3. CASE ~ok
    <3>1. UNCHANGED <<wltTop, walletLedgers, combinedLedger, bdmTop>>
      BY <2>3
    <3>2. SelectedLedger' = SelectedLedger
      BY <2>1, <3>1 DEF SelectedLedger, SelectedWallets, LedgerPairs, GetTxLedger
    <3> QED
      BY <1>0, <2>1, <2>3, <3>1, <3>2 DEF SortedInv
  <2> QED
    BY <2>2, <2>3
<1>2. ASSUME NEW s \in {"all", "mine", "watch"}, SelectWallets(s)
      PROVE  SortedInv'
  <2>1. /\ selection' = s
        /\ CreateCombinedLedger(SelectedWallets(s), latestBlockNum, wltTop, bdmTop, walletLedgers)
        /\ UNCHANGED <<diskTop, blockOf, bdmLoaded, bdmInit, bdmTop, wltTop>>
    BY <1>2 DEF SelectWallets, chainVars, bdmVars
  <2>2. wltTop = -1 \/ ~CCLIndexError(SelectedWallets(s), walletLedgers)
    BY DEF SortedInv, CCLIndexError
  <2>3. combinedLedger' = SortDescending(LedgerPairs(SelectedWallets(s), wltTop), SelectedWallets(s))
    BY <1>0, <2>1, <2>2, CreateCombinedLedgerSorted
  <2>4. combinedLedger' = SelectedLedger'
    BY <2>1, <2>3 DEF SelectedLedger, LedgerPairs, GetTxLedger
  <2>5. bdmInit => Len(walletLedgers') = NumWallets
    <3> SUFFICES ASSUME bdmInit PROVE Len(walletLedgers') = NumWallets
      OBVIOUS
    <3>1. walletLedgers \in Seq(SUBSET Txs) /\ Len(walletLedgers) = NumWallets
      BY <1>0 DEF SortedInv, TypeOK
    <3> QED
      BY <2>1, <3>1, CreateCombinedLedgerLength
  <2> QED
    BY <1>0, <1>2, <2>1, <2>4, <2>5 DEF SortedInv, SelectWallets
<1>3. CASE StartHeartbeat
  <2>1. UNCHANGED <<diskTop, blockOf, bdmLoaded, bdmInit, bdmTop, wltTop, walletLedgers,
                    combinedLedger, selection>>
    BY <1>3 DEF StartHeartbeat, chainVars, bdmVars
  <2>2. SelectedLedger' = SelectedLedger
    BY <2>1 DEF SelectedLedger, SelectedWallets, LedgerPairs, GetTxLedger
  <2> QED
    BY <1>0, <2>1, <2>2 DEF SortedInv
<1>4. CASE Heartbeat
  <2> DEFINE newBlks == IF bdmInit THEN diskTop - bdmTop ELSE 0
             top1    == IF bdmInit THEN diskTop ELSE bdmTop
             lat1    == PolledTip(newBlks, top1)
             wtop1   == ScanTop(top1)
  <2>1. /\ bdmTop' = top1 /\ wltTop' = wtop1
        /\ CreateCombinedLedger(Sel, lat1, wtop1, top1, walletLedgers)
        /\ UNCHANGED <<diskTop, blockOf, bdmLoaded, bdmInit, selection>>
    BY <1>4 DEF Heartbeat, chainVars
  <2>2. top1 <= diskTop /\ wtop1 <= diskTop
    BY <1>0 DEF SortedInv, ScanTop, TypeOK, Heights
  <2>3. (~bdmInit => wtop1 = -1) /\ (bdmInit => ~CCLIndexError(Sel, walletLedgers))
    BY DEF SortedInv, ScanTop, CCLIndexError
  <2>4. combinedLedger' = SortDescending(LedgerPairs(Sel, wtop1), Sel)
    BY <1>0, <2>1, <2>3, CreateCombinedLedgerSorted
  <2>5. combinedLedger' = SelectedLedger'
    BY <2>1, <2>4 DEF SelectedLedger, LedgerPairs, GetTxLedger
  <2>6. bdmInit => Len(walletLedgers') = NumWallets
    <3> SUFFICES ASSUME bdmInit PROVE Len(walletLedgers') = NumWallets
      OBVIOUS
    <3>1. walletLedgers \in Seq(SUBSET Txs) /\ Len(walletLedgers) = NumWallets
      BY <1>0 DEF SortedInv, TypeOK
    <3> QED
      BY <2>1, <3>1, CreateCombinedLedgerLength
  <2> QED
    BY <1>0, <2>1, <2>2, <2>3, <2>5, <2>6 DEF SortedInv
<1>5. CASE MineBlock
  <2>1. /\ diskTop' = diskTop + 1
        /\ UNCHANGED <<bdmLoaded, bdmInit, bdmTop, wltTop, walletLedgers, combinedLedger,
                       selection>>
    BY <1>5 DEF MineBlock, bdmVars, viewVars
  <2>2. LedgerPairs(Sel, wltTop)' = LedgerPairs(Sel, wltTop)
    <3>1. \A ids : LedgerPairs(ids, wltTop)' = LedgerPairs(ids, wltTop)
      BY <1>0, <1>5, MineKeepsPairs DEF SortedInv
    <3> QED
      BY <2>1, <3>1 DEF LedgerPairs
  <2>3. SelectedLedger' = SelectedLedger
    BY <2>1, <2>2 DEF SelectedLedger
  <2>4. diskTop \in Int /\ bdmTop \in Int /\ wltTop \in Int
    BY <1>0 DEF TypeOK, Heights
  <2> QED
    BY <2>1, <2>3, <2>4, <1>0 DEF SortedInv
<1>6. CASE \/ Connect \/ ConnectionMade \/ ConnectionLost
           \/ \E t \in Txs : ZeroConfTxSeen(t) \/ ZeroConfTxConfirmed(t)
           \/ UNCHANGED vars
  <2>1. UNCHANGED <<diskTop, blockOf, bdmLoaded, bdmInit, bdmTop, wltTop, walletLedgers,
                    combinedLedger, selection>>
    BY <1>6 DEF Connect, ConnectionMade, ConnectionLost, ZeroConfTxSeen,
                ZeroConfTxConfirmed, vars, chainVars, bdmVars, viewVars
  <2>2. SelectedLedger' = SelectedLedger
    BY <2>1 DEF SelectedLedger, SelectedWallets, LedgerPairs, GetTxLedger
  <2> QED
    BY <1>0, <2>1, <2>2 DEF SortedInv
<1> QED
  BY <1>1, <1>2, <1>3, <1>4, <1>5, <1>6 DEF Next

(***************************************************************************)
(* Spec 3 and 8, for every set of wallets, transactions and heights and    *)
(* whether or not TheBDM's poll rescans the wallets: the combined ledger   *)
(* holds each scanned entry of exactly the selected wallets, once, newest  *)
(* first (createCombinedLedger's stable reverse sort, run by the load, a   *)
(* radio click or a heartbeat).                                            *)
(***************************************************************************)
THEOREM CombinedLedgerSortedHolds == Spec => []CombinedLedgerSorted
<1>1. SortedInv => CombinedLedgerSorted
  <2> SUFFICES ASSUME SortedInv PROVE CombinedLedgerSorted
    OBVIOUS
  <2>1. SelectedWallets(selection) \in Seq(WalletIDs) /\ wltTop \in -1..MaxHeight
        /\ blockOf \in [Txs -> Heights \cup {UnconfHeight}]
    BY SelectedWalletsType DEF SortedInv, TypeOK
  <2> QED
    BY <2>1, SortDescendingSorted DEF SortedInv, SelectedLedger, CombinedLedgerSorted
<1> QED
  BY SortedInvInit, SortedInvNext, <1>1, PTL DEF Spec


-----------------------------------------------------------------------------
(* The window's view agrees with itself.                                   *)

(***************************************************************************)
(* LedgerViewConsistent read against a tip lat, for the view variables     *)
(* createCombinedLedger has just written.                                  *)
(***************************************************************************)
ViewAt(lat) ==
    /\ Len(ledgerTable') = Len(combinedLedger')
    /\ \A k \in DOMAIN ledgerTable' :
           /\ ledgerTable'[k].wlt = combinedLedger'[k].wlt
           /\ ledgerTable'[k].tx = combinedLedger'[k].tx
           /\ ledgerTable'[k].nConf = lat - combinedLedger'[k].h + 1
           /\ ledgerTable'[k].nConf >= 1
    /\ totFund' \cup unconfFund' = Elems(combinedLedger')
    /\ totFund' \cap unconfFund' = {}
    /\ \A e \in unconfFund' : lat - e.h + 1 < MinConfirmations

(***************************************************************************)
(* The view is consistent whenever the scan is within the tip, because     *)
(* every handler that changes the tip or the scan height also rebuilds the *)
(* ledger, the totals and the table, and a rebuild with the scan within    *)
(* the tip never raises half way: before TheBDM is initialized nothing is  *)
(* scanned and the view is empty, and after it walletLedgers has a slot    *)
(* per wallet (LoadedInv) and each row's nConf is at least 1, so the       *)
(* conversion never looks up a zero-conf time.  A rebuild with the scan    *)
(* past the tip may raise KeyError and leave the table behind the labels,  *)
(* but only while the scan stays past the tip; the step that brings the    *)
(* tip level with it is a heartbeat, which rebuilds everything.            *)
(***************************************************************************)
ViewRest ==
    /\ ~bdmInit => /\ wltTop = -1
                   /\ combinedLedger = <<>> /\ ledgerTable = <<>>
                   /\ totFund = {} /\ unconfFund = {}
    /\ \A k \in DOMAIN combinedLedger : combinedLedger[k].h <= wltTop
    /\ ViewConsistentWithinTip

ViewInv == IInv /\ ViewRest

(***************************************************************************)
(* createCombinedLedger run with a slot per wallet and a scan height at or *)
(* below the tip rebuilds a consistent view against that tip, of entries  *)
(* at or below the scan height.                                            *)
(***************************************************************************)
LEMMA CreateCombinedLedgerView ==
    ASSUME TypeOK,
           NEW ids \in Seq(WalletIDs), NEW lat \in Heights,
           NEW top \in -1..MaxHeight, top <= lat, NEW hdr,
           NEW wl \in Seq(SUBSET Txs), Len(wl) = NumWallets,
           CreateCombinedLedger(ids, lat, top, hdr, wl)
    PROVE  /\ ViewAt(lat)
           /\ \A k \in DOMAIN combinedLedger' : combinedLedger'[k].h <= top
<1> DEFINE P == LedgerPairs(ids, top)
           L == SortDescending(P, ids)
<1>1. ~CCLIndexError(ids, wl) /\ ~ConvertRaises(L, lat)
  BY CreateCombinedLedgerNoRaise DEF CCLRaises
<1>2. /\ combinedLedger' = L
      /\ ledgerTable' = ConvertLedgerToTable(L, lat, hdr)
      /\ unconfFund' = {e \in P : lat - e.h + 1 < MinConfirmations}
      /\ totFund' = {e \in P : lat - e.h + 1 >= MinConfirmations}
  BY <1>1 DEF CreateCombinedLedger
<1>3. /\ IsFiniteSet(P) /\ P \subseteq Entry
      /\ \A e \in P : e.wlt \in Elems(ids) /\ e.h = blockOf[e.tx]
  BY LedgerPairsType DEF TypeOK
<1>4. L \in Seq(P) /\ Elems(L) = P
  <2>1. L \in Seq(P)
    BY <1>3, SortDescendingType
  <2>2. Elems(L) = P
    BY SortDescendingSorted DEF TypeOK
  <2> QED
    BY <2>1, <2>2
<1>5. \A e \in P : e.h \in Heights /\ e.h <= top
  BY <1>3, LedgerPairsScanned DEF Entry
<1>6. ASSUME NEW k \in DOMAIN L
      PROVE  /\ NumConf(L[k], lat) = lat - L[k].h + 1
             /\ lat - L[k].h + 1 >= 1
  <2>1. L[k] \in P
    BY <1>4
  <2>2. L[k].h \in Heights /\ L[k].h <= top
    BY <2>1, <1>5
  <2> QED
    BY <2>2, HeightAssumption DEF NumConf, Heights
<1>7. \A e \in P : lat - e.h + 1 \in Int
  BY <1>5 DEF Heights
<1>8. /\ DOMAIN ledgerTable' = DOMAIN combinedLedger'
      /\ \A k \in DOMAIN combinedLedger' :
             ledgerTable'[k] = LedgerRow(combinedLedger'[k], lat, hdr)
  BY <1>2 DEF ConvertLedgerToTable
<1>9. Len(ledgerTable') = Len(combinedLedger')
  <2>1. ledgerTable' = [k \in 1..Len(L) |-> LedgerRow(L[k], lat, hdr)]
    BY <1>2, <1>4 DEF ConvertLedgerToTable
  <2> QED
    BY <1>2, <1>4, <2>1
<1>10. ASSUME NEW k \in DOMAIN ledgerTable'
       PROVE  /\ ledgerTable'[k].wlt = combinedLedger'[k].wlt
              /\ ledgerTable'[k].tx = combinedLedger'[k].tx
              /\ ledgerTable'[k].nConf = lat - combinedLedger'[k].h + 1
              /\ ledgerTable'[k].nConf >= 1
  <2>1. k \in DOMAIN L /\ ledgerTable'[k] = LedgerRow(L[k], lat, hdr)
    BY <1>2, <1>8
  <2>2. /\ ledgerTable'[k].wlt = L[k].wlt /\ ledgerTable'[k].tx = L[k].tx
        /\ ledgerTable'[k].nConf = NumConf(L[k], lat)
    BY <2>1 DEF LedgerRow
  <2>3. NumConf(L[k], lat) = lat - L[k].h + 1 /\ lat - L[k].h + 1 >= 1
    BY <2>1, <1>6
  <2> QED
    BY <1>2, <2>2, <2>3
<1>11. /\ totFund' \cup unconfFund' = Elems(combinedLedger')
       /\ totFund' \cap unconfFund' = {}
       /\ \A e \in unconfFund' : lat - e.h + 1 < MinConfirmations
  BY <1>2, <1>4, <1>7 DEF MinConfirmations
<1>12. \A k \in DOMAIN combinedLedger' : combinedLedger'[k].h <= top
  BY <1>2, <1>4, <1>5
<1> QED
  BY <1>9, <1>10, <1>11, <1>12 DEF ViewAt

(***************************************************************************)
(* With a slot per wallet, createCombinedLedger lists only entries at or   *)
(* below the scan height, whatever the tip: neither exception stops it     *)
(* from writing the combined ledger.                                       *)
(***************************************************************************)
LEMMA CreateCombinedLedgerScanned ==
    ASSUME TypeOK,
           NEW ids \in Seq(WalletIDs), NEW lat, NEW top \in -1..MaxHeight, NEW hdr,
           NEW wl \in Seq(SUBSET Txs), Len(wl) = NumWallets,
           CreateCombinedLedger(ids, lat, top, hdr, wl)
    PROVE  \A k \in DOMAIN combinedLedger' : combinedLedger'[k].h <= top
<1> DEFINE P == LedgerPairs(ids, top)
<1>1. ~CCLIndexError(ids, wl)
  BY DEF CCLIndexError
<1>2. combinedLedger' = SortDescending(P, ids)
  BY <1>1 DEF CreateCombinedLedger
<1>3. /\ IsFiniteSet(P) /\ P \subseteq Entry
      /\ \A e \in P : e.wlt \in Elems(ids) /\ e.h = blockOf[e.tx]
  BY LedgerPairsType DEF TypeOK
<1>4. SortDescending(P, ids) \in Seq(P)
  BY <1>3, SortDescendingType
<1>5. \A e \in P : e.h <= top
  BY LedgerPairsScanned
<1> QED
  BY <1>2, <1>4, <1>5

(***************************************************************************)
(* Before anything is scanned, createCombinedLedger leaves the view empty, *)
(* whether it raises IndexError (and leaves the empty totals and table)   *)
(* or not (and rebuilds them from no entries).                             *)
(***************************************************************************)
LEMMA CreateCombinedLedgerUnscanned ==
    ASSUME TypeOK, NEW ids, NEW lat, NEW hdr, NEW wl,
           combinedLedger = <<>>, ledgerTable = <<>>, totFund = {}, unconfFund = {},
           CreateCombinedLedger(ids, lat, -1, hdr, wl)
    PROVE  /\ combinedLedger' = <<>> /\ ledgerTable' = <<>>
           /\ totFund' = {} /\ unconfFund' = {}
<1>1. CASE CCLIndexError(ids, wl)
  BY <1>1 DEF CreateCombinedLedger
<1>2. CASE ~CCLIndexError(ids, wl)
  <2>1. LedgerPairs(ids, -1) = {}
    BY LedgerPairsUnscanned DEF TypeOK
  <2>2. SortDescending(LedgerPairs(ids, -1), ids) = <<>>
    <3>1. Cardinality({}) = 0
      BY FS_EmptySet
    <3>2. Cardinality(LedgerPairs(ids, -1)) = 0
      BY <2>1, <3>1
    <3>3. 1..Cardinality(LedgerPairs(ids, -1)) = {}
      BY <3>2
    <3> QED
      BY <3>3 DEF SortDescending
  <2>3. ConvertLedgerToTable(<<>>, lat, hdr) = <<>>
    BY DEF ConvertLedgerToTable
  <2> QED
    BY <1>2, <2>1, <2>2, <2>3 DEF CreateCombinedLedger
<1> QED
  BY <1>1, <1>2

(***************************************************************************)
(* An empty view is consistent against any tip.                            *)
(***************************************************************************)
LEMMA EmptyViewConsistent ==
    ASSUME combinedLedger' = <<>>, ledgerTable' = <<>>, totFund' = {}, unconfFund' = {}
    PROVE  LedgerViewConsistent'
BY DEF LedgerViewConsistent, Elems

(***************************************************************************)
(* Armory starts with an empty view and nothing scanned.                   *)
(***************************************************************************)
THEOREM ViewInvInit == Init => ViewInv
<1> SUFFICES ASSUME Init PROVE ViewInv
  OBVIOUS
<1>1. IInv
  BY IInvInit
<1>2. LedgerViewConsistent
  BY DEF Init, LedgerViewConsistent, Elems
<1> QED
  BY <1>1, <1>2 DEF Init, ViewInv, ViewRest, ViewConsistentWithinTip

(***************************************************************************)
(* The view variables at the tip: LedgerViewConsistent after a step is    *)
(* ViewAt of the new tip.                                                  *)
(***************************************************************************)
LEMMA ViewAtTip ==
    ASSUME ViewAt(latestBlockNum')
    PROVE  LedgerViewConsistent'
BY DEF ViewAt, LedgerViewConsistent

(***************************************************************************)
(* Whatever the engine, every step keeps the invariant.                    *)
(***************************************************************************)
THEOREM ViewInvNext == ViewInv /\ [Next]_vars => ViewInv'
<1> SUFFICES ASSUME ViewInv, [Next]_vars PROVE ViewRest'
  BY IInvNext DEF ViewInv
<1> USE HeightAssumption
<1>0. TypeOK /\ LoadedInv /\ ViewRest
  BY DEF ViewInv, IInv
<1>1. CASE LoadBlockchain
  <2> DEFINE wl == [k \in 1..NumWallets |-> GetTxLedger(MapOrder[k], diskTop)]
  <2> PICK ok \in BOOLEAN :
        /\ bdmLoaded' = TRUE
        /\ bdmInit' = ok
        /\ bdmTop' = IF ok THEN diskTop ELSE bdmTop
        /\ latestBlockNum' = bdmTop'
        /\ IF ok
           THEN /\ wltTop' = diskTop
                /\ walletBalances' = SyncedBalances
                /\ walletSubLedgers' = MapOrder
                /\ CreateCombinedLedger(WalletIDList, diskTop, diskTop, diskTop, wl)
           ELSE UNCHANGED <<wltTop, walletBalances, walletSubLedgers, walletLedgers,
                            combinedLedger, totFund, unconfFund, ledgerTable>>
    BY <1>1 DEF LoadBlockchain
  <2>1. ~bdmInit
    BY <1>0, <1>1 DEF LoadBlockchain, LoadedInv
  <2>2. CASE ok
    <3>1. /\ CreateCombinedLedger(WalletIDList, diskTop, diskTop, diskTop, wl)
          /\ wltTop' = diskTop /\ latestBlockNum' = diskTop /\ bdmInit'
          /\ diskTop \in Heights
      BY <1>0, <2>2 DEF TypeOK, Heights
    <3>2. NumWallets \in Nat
      BY WalletListAssumption DEF NumWallets
    <3>3. wl \in Seq(SUBSET Txs) /\ Len(wl) = NumWallets
      BY <3>2 DEF GetTxLedger
    <3>4. /\ ViewAt(diskTop)
          /\ \A k \in DOMAIN combinedLedger' : combinedLedger'[k].h <= diskTop
      <4>1. /\ WalletIDList \in Seq(WalletIDs)
            /\ diskTop \in -1..MaxHeight /\ diskTop <= diskTop
        BY <3>1, WalletListAssumption DEF Heights
      <4> QED
        BY <1>0, <3>1, <3>3, <4>1, CreateCombinedLedgerView
    <3>5. LedgerViewConsistent'
      BY <3>1, <3>4, ViewAtTip
    <3> QED
      BY <3>1, <3>4, <3>5 DEF ViewRest, ViewConsistentWithinTip
  <2>3. CASE ~ok
    <3>1. /\ combinedLedger' = <<>> /\ ledgerTable' = <<>>
          /\ totFund' = {} /\ unconfFund' = {}
          /\ wltTop' = -1 /\ ~bdmInit'
      BY <1>0, <2>1, <2>3 DEF ViewRest
    <3> QED
      BY <3>1, EmptyViewConsistent DEF ViewRest, ViewConsistentWithinTip
  <2> QED
    BY <2>2, <2>3
<1>2. ASSUME NEW sel \in {"all", "mine", "watch"}, SelectWallets(sel)
      PROVE  ViewRest'
  <2>1. /\ UNCHANGED <<bdmInit, wltTop, latestBlockNum>>
        /\ CreateCombinedLedger(SelectedWallets(sel), latestBlockNum, wltTop, bdmTop,
                                walletLedgers)
    BY <1>2 DEF SelectWallets, bdmVars
  <2>2. CASE bdmInit
    <3>1. /\ Len(walletLedgers) = NumWallets
          /\ walletLedgers \in Seq(SUBSET Txs) /\ latestBlockNum \in Heights
          /\ wltTop \in -1..MaxHeight
          /\ SelectedWallets(sel) \in Seq(WalletIDs)
      BY <1>0, <2>2, SelectedWalletsType DEF LoadedInv, TypeOK
    <3>2. \A k \in DOMAIN combinedLedger' : combinedLedger'[k].h <= wltTop
      BY <1>0, <2>1, <3>1, CreateCombinedLedgerScanned
    <3>3. ScanWithinTip' => LedgerViewConsistent'
      <4> SUFFICES ASSUME ScanWithinTip' PROVE LedgerViewConsistent'
        OBVIOUS
      <4>1. wltTop <= latestBlockNum
        BY <2>1 DEF ScanWithinTip
      <4>2. ViewAt(latestBlockNum)
        BY <1>0, <2>1, <3>1, <4>1, CreateCombinedLedgerView
      <4> QED
        BY <2>1, <4>2, ViewAtTip
    <3> QED
      BY <2>1, <2>2, <3>2, <3>3 DEF ViewRest, ViewConsistentWithinTip
  <2>3. CASE ~bdmInit
    <3>1. /\ combinedLedger' = <<>> /\ ledgerTable' = <<>>
          /\ totFund' = {} /\ unconfFund' = {}
      BY <1>0, <2>1, <2>3, CreateCombinedLedgerUnscanned DEF ViewRest
    <3> QED
      BY <1>0, <2>1, <2>3, <3>1, EmptyViewConsistent DEF ViewRest, ViewConsistentWithinTip
  <2> QED
    BY <2>2, <2>3
<1>3. CASE Heartbeat
  <2> DEFINE newBlks == IF bdmInit THEN diskTop - bdmTop ELSE 0
             top1    == IF bdmInit THEN diskTop ELSE bdmTop
             lat1    == PolledTip(newBlks, top1)
             wtop1   == ScanTop(top1)
             ids     == SelectedWallets(selection)
  <2>1. /\ latestBlockNum' = lat1 /\ wltTop' = wtop1
        /\ CreateCombinedLedger(ids, lat1, wtop1, top1, walletLedgers)
        /\ UNCHANGED bdmInit
    BY <1>3 DEF Heartbeat
  <2>2. CASE bdmInit
    <3>1. /\ Len(walletLedgers) = NumWallets /\ wltTop <= bdmTop
          /\ latestBlockNum <= bdmTop /\ bdmTop <= diskTop
          /\ walletLedgers \in Seq(SUBSET Txs) /\ ids \in Seq(WalletIDs)
      BY <1>0, <2>2, SelectedWalletsType DEF LoadedInv, TypeOK
    <3>2. lat1 \in Heights /\ wtop1 \in -1..MaxHeight
      BY <1>0, <2>2, <3>1 DEF TypeOK, Heights, PolledTip, ScanTop
    <3>3. \A k \in DOMAIN combinedLedger' : combinedLedger'[k].h <= wtop1
      BY <1>0, <2>1, <3>1, <3>2, CreateCombinedLedgerScanned
    <3>4. ScanWithinTip' => LedgerViewConsistent'
      <4> SUFFICES ASSUME ScanWithinTip' PROVE LedgerViewConsistent'
        OBVIOUS
      <4>1. wtop1 <= lat1
        BY <2>1 DEF ScanWithinTip
      <4>2. ViewAt(lat1)
        BY <1>0, <2>1, <3>1, <3>2, <4>1, CreateCombinedLedgerView
      <4> QED
        BY <2>1, <4>2, ViewAtTip
    <3> QED
      BY <2>1, <2>2, <3>3, <3>4 DEF ViewRest, ViewConsistentWithinTip
  <2>3. CASE ~bdmInit
    <3>1. wtop1 = -1 /\ wltTop = -1
      BY <1>0, <2>3 DEF ScanTop, ViewRest
    <3>2. /\ combinedLedger' = <<>> /\ ledgerTable' = <<>>
          /\ totFund' = {} /\ unconfFund' = {}
      BY <1>0, <2>1, <2>3, <3>1, CreateCombinedLedgerUnscanned DEF ViewRest
    <3> QED
      BY <1>0, <2>1, <2>3, <3>1, <3>2, EmptyViewConsistent DEF ViewRest, ViewConsistentWithinTip
  <2> QED
    BY <2>2, <2>3
<1>4. CASE StartHeartbeat \/ MineBlock \/ Connect \/ ConnectionMade \/ ConnectionLost
  <2>1. UNCHANGED <<bdmInit, wltTop, latestBlockNum, combinedLedger, ledgerTable,
                   totFund, unconfFund>>
    BY <1>4 DEF StartHeartbeat, MineBlock, Connect, ConnectionMade, ConnectionLost,
                bdmVars, viewVars
  <2> QED
    BY <1>0, <2>1 DEF ViewRest, ViewConsistentWithinTip, ScanWithinTip, LedgerViewConsistent
<1>5. ASSUME NEW t \in Txs, ZeroConfTxSeen(t) \/ ZeroConfTxConfirmed(t)
      PROVE  ViewRest'
  <2>1. UNCHANGED <<bdmInit, wltTop, latestBlockNum, combinedLedger, ledgerTable,
                   totFund, unconfFund>>
    BY <1>5 DEF ZeroConfTxSeen, ZeroConfTxConfirmed, bdmVars, viewVars
  <2> QED
    BY <1>0, <2>1 DEF ViewRest, ViewConsistentWithinTip, ScanWithinTip, LedgerViewConsistent
<1>6. CASE UNCHANGED vars
  <2>1. UNCHANGED <<bdmInit, wltTop, latestBlockNum, combinedLedger, ledgerTable,
                   totFund, unconfFund>>
    BY <1>6 DEF vars, bdmVars, viewVars
  <2> QED
    BY <1>0, <2>1 DEF ViewRest, ViewConsistentWithinTip, ScanWithinTip, LedgerViewConsistent
<1> QED
  BY <1>1, <1>2, <1>3, <1>4, <1>5, <1>6 DEF Next

(***************************************************************************)
(* For every value of the constants, whichever engine: whenever the C++    *)
(* wallets are scanned no higher than self.latestBlockNum, the table on    *)
(* screen has one row per combined-ledger entry, in order, with a positive *)
(* confirmation count taken from self.latestBlockNum, and the two fund     *)
(* labels split those entries at the 6-confirmation threshold.  A view    *)
(* left half-built by a KeyError never outlives the scan being past the   *)
(* tip.                                                                    *)
(***************************************************************************)
THEOREM ViewConsistentWithinTipHolds == Spec => []ViewConsistentWithinTip
<1>1. Init => ViewInv
  BY ViewInvInit
<1>2. ViewInv /\ [Next]_vars => ViewInv'
  BY ViewInvNext
<1>3. ViewInv => ViewConsistentWithinTip
  BY DEF ViewInv, ViewRest
<1> QED
  BY <1>1, <1>2, <1>3, PTL DEF Spec

=============================================================================
