--------------------------- MODULE MC_ArmoryMain ---------------------------
(* Two wallets, one of them watching-only, and three transactions: one of  *)
(* each wallet and one transfer between them, which enters both ledgers    *)
(* with equal sort keys.  The dict iterates the wallets in reverse order.  *)
EXTENDS ArmoryMain, TLC

CONSTANTS w1, w2, t1, t2, t3

MCWalletIDList == <<w1, w2>>
MCMapOrder == <<w2, w1>>
MCWatchOnly == {w2}
MCOffline == {}
\* The watching-only wallet listed in Offline_WalletIDs.
MCOfflineWatch == {w2}
MCTxs == {t1, t2, t3}
MCTxWallets == (t1 :> {w1}) @@ (t2 :> {w1, w2}) @@ (t3 :> {w2})
MCTxRank == (t1 :> 1) @@ (t2 :> 2) @@ (t3 :> 3)
\* For the liveness run: the first wallet's own transaction and the transfer.
MCTxsSmall == {t1, t2}
MCTxWalletsSmall == (t1 :> {w1}) @@ (t2 :> {w1, w2})
MCTxRankSmall == (t1 :> 1) @@ (t2 :> 2)

=============================================================================
