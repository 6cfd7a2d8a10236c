------------------------- MODULE MC_WalletRegistry -------------------------
(* Two wallet ids and three paths: one named in Other_Wallets and also     *)
(* present in the home directory (so it is read twice), one more wallet    *)
(* file, and a backup file the directory filter must skip.                 *)
EXTENDS WalletRegistry

CONSTANTS i1, i2, p1, p2, p3

MCOtherWallets == <<p1>>
MCDirFiles ==
    << [path |-> p1, armoryPrefix |-> TRUE, walletSuffix |-> TRUE, backupSuffix |-> FALSE, unsuccessful |-> FALSE],
       [path |-> p2, armoryPrefix |-> TRUE, walletSuffix |-> TRUE, backupSuffix |-> FALSE, unsuccessful |-> FALSE],
       [path |-> p3, armoryPrefix |-> TRUE, walletSuffix |-> TRUE, backupSuffix |-> TRUE,  unsuccessful |-> FALSE] >>
=============================================================================
