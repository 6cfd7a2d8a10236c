--------------------------- MODULE WalletRegistry ---------------------------
(***************************************************************************)
(* loadWalletsAndSettings in ArmoryQt.py: the settings counters, the list  *)
(* of wallet paths (the Other_Wallets setting, then the wallet files of    *)
(* the Armory home directory), and the loop that reads each file and       *)
(* registers it under its unique id, one path per step.                    *)
(***************************************************************************)
EXTENDS Integers, Sequences, FiniteSets

CONSTANTS
    IDs,            \* wallet unique ids (wltUniqueIDB58)
    Paths,          \* wallet file paths
    OtherWallets,   \* settings.get('Other_Wallets'): a sequence of paths
    DirFiles,       \* os.listdir(ARMORY_HOME_DIR), each file with its name's traits
    OfflineIDs,     \* the ids listed in settings.get('Offline_WalletIDs')
    OfflinePaths,   \* the paths listed in settings.get('Offline_WalletIDs')
    FirstLoadSetting,  \* settings.get('First_Load') at start
    LoadCountSetting,  \* settings.get('Load_Count') at start
    NoPath          \* no wallet held under an id

\* What the file-name filter of the directory scan looks at: the name starts
\* with 'armory_', ends with '.wallet', ends with 'backup.wallet', contains
\* 'unsuccessful'; and the path os.path.join gives it.
DirFile == [path : Paths, armoryPrefix : BOOLEAN, walletSuffix : BOOLEAN,
            backupSuffix : BOOLEAN, unsuccessful : BOOLEAN]

ASSUME RegistryAssumption ==
    /\ IsFiniteSet(IDs)
    /\ OtherWallets \in Seq(Paths)
    /\ DirFiles \in Seq(DirFile)
    /\ OfflineIDs \subseteq IDs /\ OfflinePaths \subseteq Paths
    /\ FirstLoadSetting \in BOOLEAN
    /\ LoadCountSetting \in 0..9
    /\ NoPath \notin Paths

VARIABLES
    IdOf,           \* IdOf[p]: the id stored in the wallet file at p
    Readable,       \* the paths that readWalletFile parses without raising
    Excluded,       \* settings.get('Excluded_Wallets')
    pc,             \* "settings", "loop", "done", or "raised" (startup aborted)
    loadCount,      \* the Load_Count setting
    firstLoad,      \* self.firstLoad
    wltPaths,       \* the paths the loop reads
    next,           \* index in wltPaths of the next path the loop reads
    walletMap,      \* walletMap[id]: the path of the wallet held, or NoPath
    walletIndices,  \* self.walletIndices
    walletIDSet,    \* self.walletIDSet
    walletIDList,   \* self.walletIDList
    walletBalances, \* self.walletBalances (-1 per wallet)
    walletOfflines  \* self.walletOfflines

input == <<IdOf, Readable, Excluded>>
vars == <<input, pc, loadCount, firstLoad, wltPaths, next, walletMap, walletIndices,
          walletIDSet, walletIDList, walletBalances, walletOfflines>>

\* The directory entries the scan appends: armory_*.wallet files that are
\* neither backups nor marked unsuccessful.
IsWalletFile(f) ==
    f.armoryPrefix /\ f.walletSuffix /\ ~f.backupSuffix /\ ~f.unsuccessful

\* The positions in the listing of those entries.
WalletFileIndices == {i \in DOMAIN DirFiles : IsWalletFile(DirFiles[i])}

\* Their paths, in listing order: the k-th is the one with k - 1 wallet
\* files listed before it.
WalletFilePaths ==
    [k \in 1..Cardinality(WalletFileIndices) |->
        DirFiles[CHOOSE i \in WalletFileIndices :
                    Cardinality({j \in WalletFileIndices : j < i}) + 1 = k].path]

\* The files and the settings as Armory finds them at start.
Init ==
    /\ IdOf \in [Paths -> IDs]
    /\ Readable \in SUBSET Paths
    /\ Excluded \in SUBSET Paths
    /\ pc = "settings"
    /\ loadCount = LoadCountSetting
    /\ firstLoad = FALSE
    /\ wltPaths = <<>>
    /\ next = 1
    /\ walletMap = [id \in IDs |-> NoPath]
    /\ walletIndices = [id \in IDs |-> -1]
    /\ walletIDSet = {}
    /\ walletIDList = <<>>
    /\ walletBalances = <<>>
    /\ walletOfflines = {}

\* Mutant: the load counter without the wrap-around.
NextLoadCountMutant(c) == IF FirstLoadSetting THEN 1 ELSE c + 1

\* The Load_Count the settings hold after start: 1 on a first load, else
\* the previous count plus one, modulo 10.
NextLoadCount(c) == IF FirstLoadSetting THEN 1 ELSE (c + 1) % 10

\* The settings counters, then the path list: Other_Wallets followed by the
\* wallet files found in the home directory.
ReadSettings ==
    /\ pc = "settings"
    /\ firstLoad' = FirstLoadSetting
    /\ loadCount' = NextLoadCount(loadCount)
    /\ wltPaths' = OtherWallets \o WalletFilePaths
    /\ pc' = "loop"
    /\ UNCHANGED <<input, next, walletMap, walletIndices, walletIDSet, walletIDList,
                   walletBalances, walletOfflines>>

\* Mutant: the exclusion list ignored.
IsExcludedMutant(fpath) == FALSE

\* fpath in wltExclude.
IsExcluded(fpath) == fpath \in Excluded

\* wltID in self.walletIDSet: the id is already loaded.
IsDuplicate(wltID) == wltID \in walletIDSet

\* Mutant: len(self.walletMap) without the - 1.
NewIndexMutant(wltID) == Cardinality(walletIDSet \cup {wltID})

\* len(self.walletMap) - 1, taken after walletMap[wltID] is set.
NewIndex(wltID) == Cardinality(walletIDSet \cup {wltID}) - 1

\* One pass of the loop body for the path at index next: readWalletFile,
\* then the exclusion test, then the duplicate test, then registration.
LoadWallet ==
    /\ pc = "loop"
    /\ next <= Len(wltPaths)
    /\ LET fpath == wltPaths[next]
           wltID == IdOf[fpath]
       IN \/ /\ fpath \notin Readable
             /\ pc' = "raised"
             /\ UNCHANGED <<next, walletMap, walletIndices, walletIDSet,
                            walletIDList, walletBalances, walletOfflines>>
          \/ /\ fpath \in Readable
             /\ \/ IsExcluded(fpath)
                \/ IsDuplicate(wltID)
             /\ next' = next + 1
             /\ UNCHANGED <<pc, walletMap, walletIndices, walletIDSet,
                            walletIDList, walletBalances, walletOfflines>>
          \/ /\ fpath \in Readable
             /\ ~IsExcluded(fpath)
             /\ ~IsDuplicate(wltID)
             /\ walletMap' = [walletMap EXCEPT ![wltID] = fpath]
             /\ walletIndices' = [walletIndices EXCEPT
                                    ![wltID] = NewIndex(wltID)]
             /\ walletIDSet' = walletIDSet \cup {wltID}
             /\ walletIDList' = Append(walletIDList, wltID)
             /\ walletBalances' = Append(walletBalances, -1)
             /\ walletOfflines' = IF wltID \in OfflineIDs \/ fpath \in OfflinePaths
                                  THEN walletOfflines \cup {wltID}
                                  ELSE walletOfflines
             /\ next' = next + 1
             /\ UNCHANGED pc
    /\ UNCHANGED <<input, loadCount, firstLoad, wltPaths>>

\* The loop has read every path.
FinishLoading ==
    /\ pc = "loop"
    /\ next > Len(wltPaths)
    /\ pc' = "done"
    /\ UNCHANGED <<input, loadCount, firstLoad, wltPaths, next, walletMap, walletIndices,
                   walletIDSet, walletIDList, walletBalances, walletOfflines>>

Next == ReadSettings \/ LoadWallet \/ FinishLoading

Spec == Init /\ [][Next]_vars

-----------------------------------------------------------------------------
(* Properties.                                                             *)

TypeOK ==
    /\ IdOf \in [Paths -> IDs]
    /\ Readable \subseteq Paths
    /\ Excluded \subseteq Paths
    /\ pc \in {"settings", "loop", "done", "raised"}
    /\ loadCount \in 0..9
    /\ firstLoad \in BOOLEAN
    /\ wltPaths \in Seq(Paths)
    /\ next \in 1..Len(wltPaths) + 1
    /\ walletMap \in [IDs -> Paths \cup {NoPath}]
    /\ walletIndices \in [IDs -> -1..Cardinality(IDs)]
    /\ walletIDSet \subseteq IDs
    /\ walletIDList \in Seq(IDs)
    /\ walletBalances \in Seq({-1})
    /\ walletOfflines \subseteq IDs

\* The positions, among the paths the loop has read so far, of the readable,
\* non-excluded files that hold id.
LoadablePositions(id) ==
    {k \in 1..next - 1 : wltPaths[k] \in Readable \ Excluded /\ IdOf[wltPaths[k]] = id}

\* The first of those files, or NoPath.
FirstPathOf(id) ==
    LET ks == LoadablePositions(id)
    IN  IF ks = {} THEN NoPath ELSE wltPaths[CHOOSE k \in ks : \A j \in ks : k <= j]

\* Spec 3 and 8: a wallet file whose id is already loaded never replaces the
\* one loaded first, and an excluded file is never loaded: every id is held
\* by the first non-excluded file with that id, and is marked offline by its
\* id or that file's path (the duplicate test of the loading loop).
FirstLoadedWins ==
    /\ \A id \in IDs : walletMap[id] = FirstPathOf(id)
    /\ walletIDSet = {id \in IDs : walletMap[id] # NoPath}
    /\ walletOfflines = {id \in walletIDSet : id \in OfflineIDs \/ walletMap[id] \in OfflinePaths}

\* walletIDList lists each loaded id once, in load order, walletIndices
\* gives each id's position in it and walletBalances has one slot per id:
\* the index bookkeeping that loadBlockchain and createCombinedLedger rely on.
IndicesMatchList ==
    /\ Len(walletIDList) = Cardinality(walletIDSet)
    /\ {walletIDList[k] : k \in DOMAIN walletIDList} = walletIDSet
    /\ \A k \in DOMAIN walletIDList : walletIndices[walletIDList[k]] = k - 1
    /\ Len(walletBalances) = Len(walletIDList)

\* Spec 7: a wallet file that cannot be read is skipped and loading goes on;
\* one bad file never aborts startup (the except clause re-raises).
LoadFailureSkipped == pc # "raised"

=============================================================================
