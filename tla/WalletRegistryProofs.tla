------------------------ MODULE WalletRegistryProofs ------------------------
(***************************************************************************)
(* Proofs about WalletRegistry, for every set of ids, paths and settings:  *)
(* loadWalletsAndSettings keeps its state well typed, and the index        *)
(* bookkeeping of its loop (walletIndices, walletIDList, walletIDSet,      *)
(* walletBalances) stays consistent, which is what loadBlockchain and      *)
(* createCombinedLedger rely on when they index the linear lists.          *)
(***************************************************************************)
EXTENDS WalletRegistry, RankLemmas, FiniteSetTheorems, TLAPS

(***************************************************************************)
(* The directory scan yields a sequence of paths.                          *)
(***************************************************************************)
LEMMA WalletFilePathsType == WalletFilePaths \in Seq(Paths)
<1> DEFINE I == WalletFileIndices
<1>1. I \subseteq 1..Len(DirFiles) /\ IsFiniteSet(I)
  <2>1. I \subseteq 1..Len(DirFiles)
    BY RegistryAssumption DEF WalletFileIndices
  <2>2. IsFiniteSet(1..Len(DirFiles))
    BY RegistryAssumption, FS_Interval
  <2> QED
    BY <2>1, <2>2, FS_Subset
<1>2. \A k \in 1..Cardinality(I) : \E i \in I : Cardinality({j \in I : j < i}) + 1 = k
  <2>1. I \subseteq Int
    BY <1>1
  <2>2. IsFiniteSet(I) /\ I \subseteq Int =>
          \A k \in 1..Cardinality(I) : \E i \in I : Cardinality({j \in I : j < i}) + 1 = k
    BY IndexRankOnto
  <2> QED
    BY <1>1, <2>1, <2>2
<1>3. Cardinality(I) \in Nat
  BY <1>1, FS_CardinalityType
<1>4. \A i \in I : DirFiles[i].path \in Paths
  <2>1. DirFiles \in Seq(DirFile)
    BY RegistryAssumption
  <2>2. \A i \in 1..Len(DirFiles) : DirFiles[i] \in DirFile
    BY <2>1
  <2> QED
    BY <1>1, <2>2 DEF DirFile
<1> DEFINE Pick(k) == CHOOSE i \in I : Cardinality({j \in I : j < i}) + 1 = k
<1>5. \A k \in 1..Cardinality(I) : Pick(k) \in I
  BY <1>2
<1>6. WalletFilePaths = [k \in 1..Cardinality(I) |-> DirFiles[Pick(k)].path]
  BY DEF WalletFilePaths
<1>7. [k \in 1..Cardinality(I) |-> DirFiles[Pick(k)].path] \in [1..Cardinality(I) -> Paths]
  BY <1>4, <1>5
<1> HIDE DEF Pick, I
<1> QED
  BY <1>3, <1>6, <1>7

(***************************************************************************)
(* A new wallet's index len(self.walletMap) - 1 is within the type.        *)
(***************************************************************************)
LEMMA NewIndexType ==
    ASSUME walletIDSet \subseteq IDs, NEW id \in IDs
    PROVE  NewIndex(id) \in -1..Cardinality(IDs)
<1>1. IsFiniteSet(IDs)
  BY RegistryAssumption
<1>2. walletIDSet \cup {id} \subseteq IDs
  OBVIOUS
<1>3. IsFiniteSet(walletIDSet \cup {id}) /\ Cardinality(walletIDSet \cup {id}) <= Cardinality(IDs)
  BY <1>1, <1>2, FS_Subset
<1>4. Cardinality(walletIDSet \cup {id}) \in Nat /\ Cardinality(IDs) \in Nat
  BY <1>1, <1>3, FS_CardinalityType
<1> QED
  BY <1>3, <1>4 DEF NewIndex

-----------------------------------------------------------------------------
(* Type correctness.  TypeOK alone is not inductive: ReadSettings leaves   *)
(* next as it is and installs the path list, so TypeOK must know that the  *)
(* loop has not started while the settings are still to be read.          *)

TypeInv == TypeOK /\ (pc = "settings" => next = 1)

\* loadWalletsAndSettings starts in a well-typed state.
THEOREM RegistryInitTypeOK == Init => TypeInv
<1> SUFFICES ASSUME Init PROVE TypeInv
  OBVIOUS
<1>1. walletIndices \in [IDs -> -1..Cardinality(IDs)]
  <2>1. Cardinality(IDs) \in Nat
    BY RegistryAssumption, FS_CardinalityType
  <2> QED
    BY <2>1 DEF Init
<1>2. /\ IdOf \in [Paths -> IDs] /\ Readable \subseteq Paths /\ Excluded \subseteq Paths
      /\ pc \in {"settings", "loop", "done", "raised"} /\ firstLoad \in BOOLEAN
      /\ walletMap \in [IDs -> Paths \cup {NoPath}] /\ walletIDSet \subseteq IDs
      /\ walletOfflines \subseteq IDs
  BY DEF Init
<1>3. /\ loadCount \in 0..9
      /\ wltPaths \in Seq(Paths) /\ next \in 1..Len(wltPaths) + 1
      /\ walletIDList \in Seq(IDs) /\ walletBalances \in Seq({-1})
  BY RegistryAssumption DEF Init
<1> QED
  BY <1>1, <1>2, <1>3 DEF TypeOK, TypeInv, Init

\* Every step of loadWalletsAndSettings -- reading the settings, one pass
\* of the loading loop, the end of the loop -- keeps the state well typed.
THEOREM RegistryNextTypeOK == TypeInv /\ [Next]_vars => TypeInv'
<1> SUFFICES ASSUME TypeInv, [Next]_vars PROVE TypeInv'
  OBVIOUS
<1> USE DEF TypeInv
<1>1. CASE ReadSettings
  <2>1. NextLoadCount(loadCount) \in 0..9
    BY DEF TypeOK, NextLoadCount
  <2>2. OtherWallets \o WalletFilePaths \in Seq(Paths)
    BY WalletFilePathsType, RegistryAssumption
  <2>3. /\ wltPaths' = OtherWallets \o WalletFilePaths /\ next' = next /\ next = 1
        /\ loadCount' = NextLoadCount(loadCount) /\ firstLoad' = FirstLoadSetting
        /\ pc' = "loop"
        /\ UNCHANGED <<input, walletMap, walletIndices, walletIDSet, walletIDList,
                       walletBalances, walletOfflines>>
    BY <1>1 DEF ReadSettings, TypeInv
  <2>4. next' \in 1..Len(wltPaths') + 1
    BY <2>2, <2>3
  <2> QED
    BY <2>1, <2>2, <2>3, <2>4, RegistryAssumption DEF TypeOK, input
<1>2. CASE LoadWallet
  <2> DEFINE fpath == wltPaths[next]
             wltID == IdOf[fpath]
  <2>1. next \in 1..Len(wltPaths) /\ fpath \in Paths /\ wltID \in IDs /\ pc' # "settings"
    BY <1>2 DEF LoadWallet, TypeOK
  <2>2. UNCHANGED <<input, loadCount, firstLoad, wltPaths>>
    BY <1>2 DEF LoadWallet
  <2>3. CASE /\ fpath \notin Readable /\ pc' = "raised"
             /\ UNCHANGED <<next, walletMap, walletIndices, walletIDSet,
                            walletIDList, walletBalances, walletOfflines>>
    BY <2>1, <2>2, <2>3 DEF TypeOK, input
  <2>4. CASE /\ next' = next + 1
             /\ UNCHANGED <<pc, walletMap, walletIndices, walletIDSet,
                            walletIDList, walletBalances, walletOfflines>>
    BY <2>1, <2>2, <2>4 DEF TypeOK, input
  <2>5. CASE /\ walletMap' = [walletMap EXCEPT ![wltID] = fpath]
             /\ walletIndices' = [walletIndices EXCEPT ![wltID] = NewIndex(wltID)]
             /\ walletIDSet' = walletIDSet \cup {wltID}
             /\ walletIDList' = Append(walletIDList, wltID)
             /\ walletBalances' = Append(walletBalances, -1)
             /\ walletOfflines' = IF wltID \in OfflineIDs \/ fpath \in OfflinePaths
                                  THEN walletOfflines \cup {wltID}
                                  ELSE walletOfflines
             /\ next' = next + 1
             /\ UNCHANGED pc
    <3>1. NewIndex(wltID) \in -1..Cardinality(IDs)
      <4>1. walletIDSet \subseteq IDs
        BY DEF TypeOK
      <4> QED
        BY <2>1, <4>1, NewIndexType
    <3> QED
      BY <2>1, <2>2, <2>5, <3>1 DEF TypeOK, input
  <2> QED
    BY <1>2, <2>3, <2>4, <2>5 DEF LoadWallet
<1>3. CASE FinishLoading
  BY <1>3 DEF FinishLoading, TypeOK, input
<1>4. CASE UNCHANGED vars
  BY <1>4 DEF vars, TypeOK, input
<1> QED
  BY <1>1, <1>2, <1>3, <1>4 DEF Next

\* The registry's state is well typed in every reachable state, for every
\* choice of ids, paths, directory listing and settings.
THEOREM RegistryTypeCorrect == Spec => []TypeOK
<1>1. TypeInv => TypeOK
  BY DEF TypeInv
<1> QED
  BY RegistryInitTypeOK, RegistryNextTypeOK, <1>1, PTL DEF Spec

-----------------------------------------------------------------------------
(* The index bookkeeping.  IndicesMatchList is inductive together with the *)
(* type invariant: only a registration changes the four structures, and it *)
(* adds an id the set does not hold, so the set grows by one, the list by  *)
(* one, and len(self.walletMap) - 1 is the new id's position less one.     *)

IndexInv == TypeInv /\ IndicesMatchList

\* Before the first wallet is read the structures are empty and agree.
THEOREM IndexInvInit == Init => IndexInv
<1> SUFFICES ASSUME Init PROVE IndexInv
  OBVIOUS
<1>1. TypeInv
  BY RegistryInitTypeOK
<1>2. Cardinality({}) = 0
  BY FS_EmptySet
<1> QED
  BY <1>1, <1>2 DEF Init, IndexInv, IndicesMatchList

\* A registration keeps walletIndices, walletIDList, walletIDSet and
\* walletBalances in step.
LEMMA RegisterKeepsIndices ==
    ASSUME TypeOK, IndicesMatchList, NEW id \in IDs, id \notin walletIDSet,
           walletIndices' = [walletIndices EXCEPT ![id] = NewIndex(id)],
           walletIDSet' = walletIDSet \cup {id},
           walletIDList' = Append(walletIDList, id),
           walletBalances' = Append(walletBalances, -1)
    PROVE  IndicesMatchList'
<1> USE DEF TypeOK
<1>1. IsFiniteSet(walletIDSet)
  BY RegistryAssumption, FS_Subset
<1>2. Cardinality(walletIDSet') = Cardinality(walletIDSet) + 1
  BY <1>1, FS_AddElement
<1>3. Len(walletIDList') = Len(walletIDList) + 1 /\ Len(walletIDList) \in Nat
  OBVIOUS
<1>4. NewIndex(id) = Len(walletIDList)
  BY <1>2, <1>3 DEF NewIndex, IndicesMatchList
<1>5. Len(walletIDList') = Cardinality(walletIDSet')
  BY <1>2, <1>3 DEF IndicesMatchList
<1>6. {walletIDList'[k] : k \in DOMAIN walletIDList'} = walletIDSet'
  <2>1. \A k \in 1..Len(walletIDList) : walletIDList'[k] = walletIDList[k]
    OBVIOUS
  <2>2. walletIDList'[Len(walletIDList) + 1] = id
    OBVIOUS
  <2>3. DOMAIN walletIDList' = 1..Len(walletIDList) \cup {Len(walletIDList) + 1}
    BY <1>3
  <2> QED
    BY <2>1, <2>2, <2>3 DEF IndicesMatchList
<1>7. \A k \in DOMAIN walletIDList' : walletIndices'[walletIDList'[k]] = k - 1
  <2> SUFFICES ASSUME NEW k \in DOMAIN walletIDList'
               PROVE  walletIndices'[walletIDList'[k]] = k - 1
    OBVIOUS
  <2>1. CASE k \in 1..Len(walletIDList)
    <3>1. walletIDList'[k] = walletIDList[k] /\ walletIDList[k] \in walletIDSet
      BY <2>1 DEF IndicesMatchList
    <3>2. walletIDList[k] # id /\ walletIDList[k] \in IDs
      BY <3>1
    <3> QED
      BY <2>1, <3>1, <3>2 DEF IndicesMatchList
  <2>2. CASE k = Len(walletIDList) + 1
    BY <2>2, <1>3, <1>4
  <2> QED
    BY <1>3, <2>1, <2>2
<1>8. Len(walletBalances') = Len(walletIDList')
  BY DEF IndicesMatchList
<1> QED
  BY <1>5, <1>6, <1>7, <1>8 DEF IndicesMatchList

\* Every step of loadWalletsAndSettings keeps the index bookkeeping.
THEOREM IndexInvNext == IndexInv /\ [Next]_vars => IndexInv'
<1> SUFFICES ASSUME IndexInv, [Next]_vars PROVE IndexInv'
  OBVIOUS
<1>0. TypeInv'
  BY RegistryNextTypeOK DEF IndexInv
<1> DEFINE bookkeeping == <<walletIndices, walletIDSet, walletIDList, walletBalances>>
<1>1. CASE UNCHANGED bookkeeping
  BY <1>0, <1>1 DEF IndexInv, IndicesMatchList
<1>2. CASE ~UNCHANGED bookkeeping
  <2> DEFINE fpath == wltPaths[next]
             wltID == IdOf[fpath]
  <2>1. /\ LoadWallet
        /\ fpath \in Readable /\ ~IsDuplicate(wltID)
        /\ walletIndices' = [walletIndices EXCEPT ![wltID] = NewIndex(wltID)]
        /\ walletIDSet' = walletIDSet \cup {wltID}
        /\ walletIDList' = Append(walletIDList, wltID)
        /\ walletBalances' = Append(walletBalances, -1)
    BY <1>2 DEF Next, vars, ReadSettings, LoadWallet, FinishLoading
  <2>2. wltID \in IDs /\ wltID \notin walletIDSet
    BY <2>1 DEF LoadWallet, IndexInv, TypeInv, TypeOK, IsDuplicate
  <2>3. IndicesMatchList'
    BY <2>1, <2>2, RegisterKeepsIndices DEF IndexInv, TypeInv
  <2> QED
    BY <1>0, <2>3 DEF IndexInv
<1> QED
  BY <1>1, <1>2

\* Spec 4.1 (list() in insertion order) as loadBlockchain and
\* createCombinedLedger use it: for every set of ids, paths and settings,
\* walletIndices gives each loaded id's position in walletIDList, which
\* lists each loaded id once, and walletBalances has one slot per id.
THEOREM IndicesMatchListHolds == Spec => []IndicesMatchList
<1>1. IndexInv => IndicesMatchList
  BY DEF IndexInv
<1> QED
  BY IndexInvInit, IndexInvNext, <1>1, PTL DEF Spec

-----------------------------------------------------------------------------
(* The duplicate and exclusion tests.  FirstLoadedWins names the first    *)
(* loadable file by a CHOOSE over positions; the inductive form carries   *)
(* that first position as a witness, so no least-element argument over   *)
(* the naturals is needed: a held wallet's path sits at a loadable        *)
(* position no later than any other, and a free id has none.  The id set  *)
(* and the offline set are the held ids and those marked by id or path.   *)

HeldFirst(id) ==
    IF walletMap[id] = NoPath
    THEN LoadablePositions(id) = {}
    ELSE \E k \in LoadablePositions(id) :
            /\ wltPaths[k] = walletMap[id]
            /\ \A j \in LoadablePositions(id) : k <= j

FirstInv ==
    /\ TypeInv
    /\ \A id \in IDs : HeldFirst(id)
    /\ walletIDSet = {id \in IDs : walletMap[id] # NoPath}
    /\ walletOfflines = {id \in walletIDSet : id \in OfflineIDs \/ walletMap[id] \in OfflinePaths}

\* When the loop moves past the path at next, the loadable positions of id
\* gain next exactly when that path is readable, not excluded and holds id.
LEMMA PositionsStep ==
    ASSUME TypeOK, next \in 1..Len(wltPaths), next' = next + 1,
           UNCHANGED <<IdOf, Readable, Excluded, wltPaths>>, NEW id
    PROVE  LoadablePositions(id)' =
             LoadablePositions(id) \cup
               {k \in {next} : wltPaths[k] \in Readable \ Excluded /\ IdOf[wltPaths[k]] = id}
<1>1. 1..next'-1 = 1..next-1 \cup {next}
  BY DEF TypeOK
<1> QED
  BY <1>1 DEF LoadablePositions

\* A step that leaves the path list, the files and next alone leaves the
\* loadable positions alone.
LEMMA PositionsUnchanged ==
    ASSUME UNCHANGED <<IdOf, Readable, Excluded, wltPaths, next>>, NEW id
    PROVE  LoadablePositions(id)' = LoadablePositions(id)
BY DEF LoadablePositions

\* Before the first path is read no position is loadable.
LEMMA PositionsEmpty ==
    ASSUME next = 1, NEW id
    PROVE  LoadablePositions(id) = {}
BY DEF LoadablePositions

THEOREM FirstInvInit == Init => FirstInv
<1> SUFFICES ASSUME Init PROVE FirstInv
  OBVIOUS
<1>1. TypeInv
  BY RegistryInitTypeOK
<1>2. \A id \in IDs : HeldFirst(id)
  BY PositionsEmpty DEF Init, HeldFirst
<1> QED
  BY <1>1, <1>2 DEF Init, FirstInv

\* Every step of loadWalletsAndSettings keeps each held wallet at its first
\* loadable file and the id and offline sets derived from walletMap.
THEOREM FirstInvNext == FirstInv /\ [Next]_vars => FirstInv'
<1> SUFFICES ASSUME FirstInv, [Next]_vars PROVE FirstInv'
  OBVIOUS
<1>0. TypeInv'
  BY RegistryNextTypeOK DEF FirstInv
<1> USE DEF FirstInv
<1>1. CASE ReadSettings
  <2>1. next = 1 /\ next' = 1
    BY <1>1 DEF ReadSettings, TypeInv
  <2>2. \A id \in IDs : LoadablePositions(id)' = {} /\ LoadablePositions(id) = {}
    BY <2>1, PositionsEmpty DEF LoadablePositions
  <2>3. UNCHANGED <<walletMap, walletIDSet, walletOfflines>>
    BY <1>1 DEF ReadSettings
  <2> QED
    BY <1>0, <2>2, <2>3 DEF HeldFirst
<1>2. CASE LoadWallet
  <2> DEFINE fpath == wltPaths[next]
             wltID == IdOf[fpath]
             New(id) == {k \in {next} : wltPaths[k] \in Readable \ Excluded /\ IdOf[wltPaths[k]] = id}
  <2>1. /\ next \in 1..Len(wltPaths) /\ fpath \in Paths /\ wltID \in IDs
        /\ UNCHANGED <<IdOf, Readable, Excluded, wltPaths>>
    BY <1>2 DEF LoadWallet, TypeInv, TypeOK, input
  <2>2. \A id \in IDs : \A k \in LoadablePositions(id) : k < next
    BY <2>1 DEF LoadablePositions
  <2>3. CASE /\ fpath \notin Readable
             /\ UNCHANGED <<next, walletMap, walletIndices, walletIDSet,
                            walletIDList, walletBalances, walletOfflines>>
    <3>1. \A id \in IDs : LoadablePositions(id)' = LoadablePositions(id)
      BY <2>1, <2>3, PositionsUnchanged
    <3> QED
      BY <1>0, <2>1, <2>3, <3>1 DEF HeldFirst
  <2>4. CASE /\ fpath \in Readable
             /\ IsExcluded(fpath) \/ IsDuplicate(wltID)
             /\ next' = next + 1
             /\ UNCHANGED <<pc, walletMap, walletIndices, walletIDSet,
                            walletIDList, walletBalances, walletOfflines>>
    <3>1. \A id \in IDs : LoadablePositions(id)' = LoadablePositions(id) \cup New(id)
      BY <2>1, <2>4, PositionsStep DEF TypeInv
    <3>2. \A id \in IDs : New(id) # {} => walletMap[id] # NoPath
      BY <2>4 DEF IsExcluded, IsDuplicate
    <3>3. \A id \in IDs : HeldFirst(id)'
      <4> SUFFICES ASSUME NEW id \in IDs PROVE HeldFirst(id)'
        OBVIOUS
      <4>1. CASE walletMap[id] = NoPath
        BY <2>4, <3>1, <3>2, <4>1 DEF HeldFirst
      <4>2. CASE walletMap[id] # NoPath
        <5>1. PICK k \in LoadablePositions(id) :
                /\ wltPaths[k] = walletMap[id]
                /\ \A j \in LoadablePositions(id) : k <= j
          BY <4>2 DEF HeldFirst
        <5>2. k < next /\ New(id) \subseteq {next}
          BY <2>2
        <5>3. k \in LoadablePositions(id)' /\ \A j \in LoadablePositions(id)' : k <= j
          BY <3>1, <5>1, <5>2, <2>1 DEF LoadablePositions
        <5> QED
          BY <2>1, <2>4, <4>2, <5>1, <5>3 DEF HeldFirst
      <4> QED
        BY <4>1, <4>2
    <3> QED
      BY <1>0, <2>4, <3>3
  <2>5. CASE /\ fpath \in Readable
             /\ ~IsExcluded(fpath)
             /\ ~IsDuplicate(wltID)
             /\ walletMap' = [walletMap EXCEPT ![wltID] = fpath]
             /\ walletIDSet' = walletIDSet \cup {wltID}
             /\ walletOfflines' = IF wltID \in OfflineIDs \/ fpath \in OfflinePaths
                                  THEN walletOfflines \cup {wltID}
                                  ELSE walletOfflines
             /\ next' = next + 1
    <3>1. \A id \in IDs : LoadablePositions(id)' = LoadablePositions(id) \cup New(id)
      BY <2>1, <2>5, PositionsStep DEF TypeInv
    <3>2. walletMap[wltID] = NoPath /\ fpath # NoPath
      BY <2>1, <2>5, RegistryAssumption DEF IsDuplicate
    <3>3. New(wltID) = {next} /\ \A id \in IDs \ {wltID} : New(id) = {}
      BY <2>5 DEF IsExcluded
    <3>4. walletMap \in [IDs -> Paths \cup {NoPath}]
      BY DEF TypeInv, TypeOK
    <3>5. \A w \in IDs : w = wltID => HeldFirst(w)'
      <4> SUFFICES ASSUME NEW w \in IDs, w = wltID PROVE HeldFirst(w)'
        OBVIOUS
      <4>1. LoadablePositions(w) = {}
        BY <3>2 DEF HeldFirst
      <4>2. LoadablePositions(w)' = {next}
        BY <3>1, <3>3, <4>1
      <4>3. walletMap'[w] = fpath
        BY <2>1, <2>5, <3>4
      <4>4. /\ next \in LoadablePositions(w)'
            /\ wltPaths'[next] = walletMap'[w]
            /\ \A j \in LoadablePositions(w)' : next <= j
        BY <2>1, <4>2, <4>3
      <4> QED
        BY <3>2, <4>3, <4>4 DEF HeldFirst
    <3>6. \A id \in IDs \ {wltID} : HeldFirst(id)'
      <4> SUFFICES ASSUME NEW id \in IDs \ {wltID} PROVE HeldFirst(id)'
        OBVIOUS
      <4>1. LoadablePositions(id)' = LoadablePositions(id)
        BY <3>1, <3>3
      <4>2. walletMap'[id] = walletMap[id]
        BY <2>1, <2>5, <3>4
      <4>3. HeldFirst(id)
        OBVIOUS
      <4> QED
        BY <2>1, <4>1, <4>2, <4>3 DEF HeldFirst
    <3>7. walletIDSet' = {id \in IDs : walletMap'[id] # NoPath}
      BY <2>1, <2>5, <3>2, <3>4
    <3>8. walletOfflines' = {id \in walletIDSet' : id \in OfflineIDs \/ walletMap'[id] \in OfflinePaths}
      <4>1. \A id \in walletIDSet : walletMap'[id] = walletMap[id]
        BY <2>1, <2>5, <3>2, <3>4
      <4>2. walletMap'[wltID] = fpath
        BY <2>1, <2>5, <3>4
      <4>3. CASE wltID \in OfflineIDs \/ fpath \in OfflinePaths
        BY <2>5, <4>1, <4>2, <4>3
      <4>4. CASE ~(wltID \in OfflineIDs \/ fpath \in OfflinePaths)
        BY <2>5, <4>1, <4>2, <4>4
      <4> QED
        BY <4>3, <4>4
    <3>9. \A id \in IDs : HeldFirst(id)'
      BY <2>1, <3>5, <3>6
    <3> QED
      BY <1>0, <3>7, <3>8, <3>9
  <2> QED
    BY <1>2, <2>3, <2>4, <2>5 DEF LoadWallet
<1>3. CASE FinishLoading
  <2>1. \A id \in IDs : LoadablePositions(id)' = LoadablePositions(id)
    BY <1>3, PositionsUnchanged DEF FinishLoading, input
  <2> QED
    BY <1>0, <1>3, <2>1 DEF FinishLoading, HeldFirst
<1>4. CASE UNCHANGED vars
  <2>1. \A id \in IDs : LoadablePositions(id)' = LoadablePositions(id)
    BY <1>4, PositionsUnchanged DEF vars, input
  <2> QED
    BY <1>0, <1>4, <2>1 DEF vars, HeldFirst
<1> QED
  BY <1>1, <1>2, <1>3, <1>4 DEF Next

\* The path a held wallet keeps is the one FirstPathOf chooses: the CHOOSE
\* picks a least loadable position, and the witness of HeldFirst is one, so
\* the two positions are equal.
LEMMA HeldIsFirst ==
    ASSUME NEW id, HeldFirst(id), wltPaths \in Seq(Paths)
    PROVE  walletMap[id] = FirstPathOf(id)
<1> DEFINE ks == LoadablePositions(id)
<1>1. ks \subseteq Int
  BY DEF LoadablePositions
<1>2. CASE walletMap[id] = NoPath
  BY <1>2 DEF HeldFirst, FirstPathOf
<1>3. CASE walletMap[id] # NoPath
  <2>1. PICK k \in ks : wltPaths[k] = walletMap[id] /\ \A j \in ks : k <= j
    BY <1>3 DEF HeldFirst
  <2> DEFINE c == CHOOSE i \in ks : \A j \in ks : i <= j
  <2>2. c \in ks /\ \A j \in ks : c <= j
    BY <2>1
  <2>3. c = k
    BY <1>1, <2>1, <2>2
  <2>4. ks # {}
    BY <2>1
  <2> HIDE DEF c
  <2> QED
    BY <2>1, <2>3, <2>4 DEF FirstPathOf, c
<1> QED
  BY <1>2, <1>3

\* Spec 3 and 8, for every set of ids, paths, directory listing, exclusion
\* list and offline settings: the duplicate test keeps the first loaded
\* file of each id, excluded and unreadable files are never registered,
\* and walletIDSet and walletOfflines agree with walletMap.
THEOREM FirstLoadedWinsHolds == Spec => []FirstLoadedWins
<1>1. FirstInv => FirstLoadedWins
  <2> SUFFICES ASSUME FirstInv PROVE FirstLoadedWins
    OBVIOUS
  <2>1. \A id \in IDs : walletMap[id] = FirstPathOf(id)
    BY HeldIsFirst DEF FirstInv, TypeInv, TypeOK
  <2> QED
    BY <2>1 DEF FirstInv, FirstLoadedWins
<1> QED
  BY FirstInvInit, FirstInvNext, <1>1, PTL DEF Spec

=============================================================================
