----------------------------- MODULE LedgerView -----------------------------
(***************************************************************************)
(* The promise of the ledger view, as spec.md states it (3, 4.2, 4.4), with *)
(* no mention of how the window computes it.  The chain grows by blocks.   *)
(* Now and then the view is refreshed for a wallet subset: the tracked tip *)
(* moves forward but never past the chain, the wallets' ledgers are those   *)
(* of some height no later than that tip, and the view, its rows and its   *)
(* two totals are a function of those ledgers, the subset and the tip:     *)
(* every entry of exactly the chosen wallets, newest first, each row's     *)
(* confirmation count taken from the tip, and the entries split at six     *)
(* confirmations.  Zero-confirmation entries are left out here.            *)
(***************************************************************************)
EXTENDS Integers, Sequences, FiniteSets

CONSTANTS
    Wallets,            \* the loaded wallets
    WatchOnlyWallets,   \* those whose watch-only flag is set
    Txs, TxWallets, TxRank, StartHeight, InitHeights, MaxHeight,
    Unconfirmed         \* the height sentinel of a transaction in no block

VARIABLES
    diskTop,    \* height of the chain
    blockOf,    \* blockOf[t]: the height of the block holding t
    sel,        \* the wallet subset chosen: "all", "mine" or "watch"
    tip,        \* the coordinator's tracked tip height
    scanned,    \* the height the wallets' ledgers were last derived at
    view,       \* the combined ledger: a sequence of entries
    rows,       \* its rows: wallet, transaction, confirmation count
    confirmed,  \* the entries summed into the confirmed total
    unconfirmed \* the entries summed into the unconfirmed total

lvVars == <<diskTop, blockOf, sel, tip, scanned, view, rows, confirmed, unconfirmed>>

\* Spec 4.4's subset policy, by the watch-only flag.
Chosen(s) ==
    CASE s = "all"   -> Wallets
      [] s = "mine"  -> Wallets \ WatchOnlyWallets
      [] s = "watch" -> WatchOnlyWallets

\* The confirmed entries of the wallets chosen by s in ledgers derived at h.
Snapshot(s, h) ==
    {[wlt |-> p[1], tx |-> p[2], h |-> blockOf[p[2]]] :
        p \in {q \in Chosen(s) \X Txs : q[1] \in TxWallets[q[2]] /\ blockOf[q[2]] <= h}}

\* The ordering key (height, then position in the block) of a is above b's.
Newer(a, b) == a.h > b.h \/ (a.h = b.h /\ TxRank[a.tx] > TxRank[b.tx])

\* v lists the entries of S once each, never an older one before a newer.
NewestFirst(v, S) ==
    /\ Len(v) = Cardinality(S)
    /\ {v[k] : k \in DOMAIN v} = S
    /\ \A k \in 1..Len(v) - 1 : ~Newer(v[k + 1], v[k])

Confirmations(e, t) == t - e.h + 1

Init ==
    /\ diskTop = StartHeight
    /\ blockOf \in [Txs -> InitHeights \cup {Unconfirmed}]
    /\ sel = "all"
    /\ tip = 0
    /\ scanned = -1
    /\ view = <<>>
    /\ rows = <<>>
    /\ confirmed = {}
    /\ unconfirmed = {}

\* A block holding some unconfirmed transactions is appended to the chain.
Mine ==
    /\ diskTop < MaxHeight
    /\ \E S \in SUBSET {t \in Txs : blockOf[t] = Unconfirmed} :
        blockOf' = [t \in Txs |-> IF t \in S THEN diskTop + 1 ELSE blockOf[t]]
    /\ diskTop' = diskTop + 1
    /\ UNCHANGED <<sel, tip, scanned, view, rows, confirmed, unconfirmed>>

\* A full recomputation for subset s after an optional sync.
Refresh(s) ==
    /\ tip' \in tip..diskTop
    /\ scanned' \in scanned..tip'
    /\ sel' = s
    /\ NewestFirst(view', Snapshot(s, scanned'))
    /\ rows' = [k \in DOMAIN view' |->
                  [wlt |-> view'[k].wlt, tx |-> view'[k].tx,
                   nConf |-> Confirmations(view'[k], tip')]]
    /\ unconfirmed' = {e \in Snapshot(s, scanned') : Confirmations(e, tip') < 6}
    /\ confirmed' = {e \in Snapshot(s, scanned') : Confirmations(e, tip') >= 6}
    /\ UNCHANGED <<diskTop, blockOf>>

Next == Mine \/ \E s \in {"all", "mine", "watch"} : Refresh(s)

Spec == Init /\ [][Next]_lvVars

=============================================================================
