---------------------------- MODULE MempoolProofs ---------------------------
(***************************************************************************)
(* Proofs about Mempool, for any number of threads and transactions.       *)
(***************************************************************************)
EXTENDS Mempool, TotalsProofs

\* What every step does to the types, one step per operation of the mempool.
LEMMA TypeStep == ASSUME TypeOK, [Next]_vars PROVE TypeOK'
<1> USE MempoolAssumption
<1>1. ASSUME NEW i \in Inserter, NEW h \in Hash, Insert(i, h) PROVE TypeOK'
  BY <1>1 DEF TypeOK, Insert, index, rlocals
<1>2. ASSUME NEW i \in Inserter, NEW h \in Hash, CountShard(i, h) PROVE TypeOK'
  BY <1>2 DEF TypeOK, CountShard, index, rlocals
<1>3. ASSUME NEW i \in Inserter, CheckSize(i) PROVE TypeOK'
  BY <1>3 DEF TypeOK, CheckSize, Back, index, rlocals
<1>4. ASSUME NEW i \in Inserter, CheckExists(i) PROVE TypeOK'
  BY <1>4 DEF TypeOK, CheckExists, Back, index, rlocals
<1>5. ASSUME NEW i \in Inserter, AddFee(i) PROVE TypeOK'
  BY <1>5 DEF TypeOK, AddFee, index, rlocals
<1>6. ASSUME NEW i \in Inserter, InsertIndex(i) PROVE TypeOK'
  BY <1>6 DEF TypeOK, InsertIndex, rlocals
<1>7. ASSUME NEW i \in Inserter, Store(i) PROVE TypeOK'
  BY <1>7 DEF TypeOK, Store, Back, index, rlocals
<1>8. ASSUME NEW r \in Remover, NEW h \in Hash, Remove(r, h) PROVE TypeOK'
  BY <1>8 DEF TypeOK, Remove, index, ilocals
<1>9. ASSUME NEW r \in Remover, NEW key \in {"timestamp", "weight"}, Drain(r, key) PROVE TypeOK'
  BY <1>9 DEF TypeOK, Drain, index, ilocals
<1>10. ASSUME NEW r \in Remover, NEW h \in Hash, Collect(r, h) PROVE TypeOK'
  BY <1>10 DEF TypeOK, Collect, index, ilocals
<1>11. ASSUME NEW r \in Remover, NEW h \in Hash, RemoveTx(r, h) PROVE TypeOK'
  <2>1. left' \in [Remover -> Nat] /\ entries' \in [Remover -> SUBSET Hash]
    BY <1>11 DEF TypeOK, RemoveTx
  <2>2. /\ rpc' \in [Remover -> {"idle", "collect", "remove", "fee", "index", "drop"}]
        /\ gone' \in [Remover -> Hash \cup {NoTx}]
        /\ \A q \in Remover : rpc'[q] \in {"fee", "index", "drop"} => gone'[q] \in Hash
    <3>1. CASE h \in txs
      BY <1>11, <3>1 DEF TypeOK, RemoveTx
    <3>2. CASE h \notin txs
      BY <1>11, <3>2 DEF TypeOK, RemoveTx
    <3> QED
      BY <3>1, <3>2
  <2> QED
    BY <1>11, <2>1, <2>2 DEF TypeOK, RemoveTx, index, ilocals
<1>12. ASSUME NEW r \in Remover, SubtractFee(r) PROVE TypeOK'
  BY <1>12 DEF TypeOK, SubtractFee, index, ilocals
<1>13. ASSUME NEW r \in Remover, RemoveIndex(r) PROVE TypeOK'
  BY <1>13 DEF TypeOK, RemoveIndex, ilocals
<1>14. ASSUME NEW r \in Remover, DropEntry(r) PROVE TypeOK'
  BY <1>14 DEF TypeOK, DropEntry, ilocals
<1>15. ASSUME NEW r \in Remover, FinishRemoval(r) PROVE TypeOK'
  BY <1>15 DEF TypeOK, FinishRemoval, index, ilocals
<1>16. CASE UNCHANGED vars
  BY <1>16 DEF TypeOK, vars, index, ilocals, rlocals
<1> QED
  BY <1>1, <1>2, <1>3, <1>4, <1>5, <1>6, <1>7, <1>8, <1>9, <1>10, <1>11, <1>12, <1>13, <1>14, <1>15, <1>16
  DEF Next, InserterStep, RemoverStep

\* The fields of the mempool and the locals of its calls keep their types (mempool.rs:42-48).
THEOREM TypeCorrect == Spec => []TypeOK
<1>1. Init => TypeOK
  BY MempoolAssumption DEF Init, TypeOK
<1>2. TypeOK /\ [Next]_vars => TypeOK'
  BY TypeStep
<1> QED
  BY <1>1, <1>2, PTL DEF Spec

-----------------------------------------------------------------------------
(***************************************************************************)
(* Why an indexed transaction is no garbage: Justified(h) is the last      *)
(* conjunct of IndexHasNoGarbage.  Only Store, RemoveTx and RemoveIndex    *)
(* end a reason; the first two replace it by the next one and the last     *)
(* takes the transaction out of the index.                                 *)
(***************************************************************************)
Justified(h) ==
    \/ h \in txs
    \/ \E i \in Inserter : ipc[i] = "store" /\ cur[i] = h
    \/ \E r \in Remover : rpc[r] \in {"fee", "index"} /\ gone[r] = h

\* The index can only lose entries while every reason for one stays.
LEMMA GarbageFrame ==
    ASSUME IndexHasNoGarbage,
           \A x \in Addr : by_sender'[x] \subseteq by_sender[x],
           \A x \in Addr : \A h \in by_sender'[x] : Justified(h) => Justified(h)'
    PROVE  IndexHasNoGarbage'
  BY DEF IndexHasNoGarbage, Justified

\* No step of an insertion leaves garbage in the index (mempool.rs:62-84).
LEMMA InserterKeepsIndex ==
    ASSUME TypeOK, IndexHasNoGarbage, NEW i \in Inserter,
           (\E h \in Hash : Insert(i, h)) \/ InserterStep(i)
    PROVE  IndexHasNoGarbage'
<1> USE MempoolAssumption
<1>1. ASSUME NEW h \in Hash, Insert(i, h) \/ CountShard(i, h) PROVE IndexHasNoGarbage'
  <2>1. \A k : Justified(k) => Justified(k)'
    BY <1>1 DEF Justified, Insert, CountShard, TypeOK, rlocals
  <2> QED
    BY <1>1, <2>1, GarbageFrame DEF Insert, CountShard, index
<1>2. CASE CheckSize(i)
  <2>1. \A k : Justified(k) => Justified(k)'
    BY <1>2 DEF Justified, CheckSize, Back, TypeOK, rlocals
  <2> QED
    BY <1>2, <2>1, GarbageFrame DEF CheckSize, index
<1>3. CASE CheckExists(i)
  <2>1. \A k : Justified(k) => Justified(k)'
    BY <1>3 DEF Justified, CheckExists, Back, TypeOK, rlocals
  <2> QED
    BY <1>3, <2>1, GarbageFrame DEF CheckExists, index
<1>4. CASE AddFee(i)
  <2>1. \A k : Justified(k) => Justified(k)'
    BY <1>4 DEF Justified, AddFee, TypeOK, rlocals
  <2> QED
    BY <1>4, <2>1, GarbageFrame DEF AddFee, index
<1>5. CASE InsertIndex(i)
  <2>1. \A k : Justified(k) => Justified(k)'
    BY <1>5 DEF Justified, InsertIndex, TypeOK, rlocals
  <2>2. Justified(cur[i])'
    BY <1>5 DEF Justified, InsertIndex, TypeOK
  <2>3. \A x \in Addr : \A h \in by_sender'[x] : h \in by_sender[x] \/ (h = cur[i] /\ Sender[h] = x)
    BY <1>5 DEF InsertIndex, TypeOK
  <2> QED
    BY <2>1, <2>2, <2>3, <1>5 DEF IndexHasNoGarbage, Justified, InsertIndex
<1>6. CASE Store(i)
  <2>1. \A k : Justified(k) => Justified(k)'
    BY <1>6 DEF Justified, Store, Back, TypeOK, rlocals
  <2> QED
    BY <1>6, <2>1, GarbageFrame DEF Store, index
<1> QED
  BY <1>1, <1>2, <1>3, <1>4, <1>5, <1>6 DEF InserterStep

\* No step of a removal or a drain leaves garbage in the index (mempool.rs:87-145).
LEMMA RemoverKeepsIndex ==
    ASSUME TypeOK, IndexHasNoGarbage, NEW r \in Remover,
           (\E h \in Hash : Remove(r, h)) \/ (\E key \in {"timestamp", "weight"} : Drain(r, key)) \/ RemoverStep(r)
    PROVE  IndexHasNoGarbage'
<1> USE MempoolAssumption
<1>1. ASSUME NEW h \in Hash, Remove(r, h) \/ Collect(r, h) PROVE IndexHasNoGarbage'
  <2>1. \A k : Justified(k) => Justified(k)'
    BY <1>1 DEF Justified, Remove, Collect, TypeOK, ilocals
  <2> QED
    BY <1>1, <2>1, GarbageFrame DEF Remove, Collect, index
<1>2. ASSUME NEW key \in {"timestamp", "weight"}, Drain(r, key) PROVE IndexHasNoGarbage'
  <2>1. \A k : Justified(k) => Justified(k)'
    BY <1>2 DEF Justified, Drain, TypeOK, ilocals
  <2> QED
    BY <1>2, <2>1, GarbageFrame DEF Drain, index
<1>3. ASSUME NEW h \in Hash, RemoveTx(r, h) PROVE IndexHasNoGarbage'
  <2>1. \A k : Justified(k) => Justified(k)'
    BY <1>3 DEF Justified, RemoveTx, TypeOK, ilocals
  <2> QED
    BY <1>3, <2>1, GarbageFrame DEF RemoveTx, index
<1>4. CASE SubtractFee(r)
  <2>1. \A k : Justified(k) => Justified(k)'
    BY <1>4 DEF Justified, SubtractFee, TypeOK, ilocals
  <2> QED
    BY <1>4, <2>1, GarbageFrame DEF SubtractFee, index
<1>5. CASE RemoveIndex(r)
  <2>1. \A k : k # gone[r] /\ Justified(k) => Justified(k)'
    BY <1>5 DEF Justified, RemoveIndex, TypeOK, ilocals
  <2>2. \A x \in Addr : by_sender'[x] \subseteq by_sender[x]
    BY <1>5 DEF RemoveIndex, TypeOK
  <2>3. \A x \in Addr : gone[r] \notin by_sender'[x]
    BY <1>5 DEF RemoveIndex, TypeOK, IndexHasNoGarbage
  <2> QED
    BY <2>1, <2>2, <2>3, GarbageFrame
<1>6. CASE DropEntry(r)
  <2>1. \A k : Justified(k) => Justified(k)'
    BY <1>6 DEF Justified, DropEntry, TypeOK, ilocals
  <2>2. \A x \in Addr : by_sender'[x] \subseteq by_sender[x]
    BY <1>6 DEF DropEntry, TypeOK
  <2> QED
    BY <2>1, <2>2, GarbageFrame
<1>7. CASE FinishRemoval(r)
  <2>1. \A k : Justified(k) => Justified(k)'
    BY <1>7 DEF Justified, FinishRemoval, TypeOK, ilocals
  <2> QED
    BY <1>7, <2>1, GarbageFrame DEF FinishRemoval, index
<1> QED
  BY <1>1, <1>2, <1>3, <1>4, <1>5, <1>6, <1>7 DEF RemoverStep

(***************************************************************************)
(* For any number of threads the index leaks nothing: what it holds is in  *)
(* the map, about to be, or about to leave the index (mempool.rs:74-99).   *)
(***************************************************************************)
THEOREM IndexLeaksNothing == Spec => []IndexHasNoGarbage
<1>1. Init => IndexHasNoGarbage
  BY DEF Init, IndexHasNoGarbage
<1>2. TypeOK /\ IndexHasNoGarbage /\ [Next]_vars => IndexHasNoGarbage'
  <2>1. CASE UNCHANGED vars
    BY <2>1 DEF IndexHasNoGarbage, vars, index, ilocals, rlocals
  <2> QED
    BY <2>1, InserterKeepsIndex, RemoverKeepsIndex DEF Next
<1> QED
  BY <1>1, <1>2, TypeCorrect, PTL DEF Spec

-----------------------------------------------------------------------------
(***************************************************************************)
(* The size of the map.                                                    *)
(***************************************************************************)
\* Inserters that add up the shards, and those that found room.
Scanning == {i \in Inserter : ipc[i] = "len"}
Admitted == {i \in Inserter : ipc[i] \in {"exists", "fee", "index", "store"}}

\* What of the map is in the shards that l has counted.
Seen(l) == txs \ unread[l]

\* Were all of J admitted, the map would still be within the bound.
Fits(J) ==
    Cardinality(txs) + Cardinality(Admitted) + Cardinality(J) <= MaxSize + Cardinality(Inserter) - 1

\* The same once l has counted to the end, if its count leaves room.
Counted(l, J) ==
    Cardinality(Seen(l)) + Cardinality(Admitted) + Cardinality(J) <= len[l] + Cardinality(Inserter)

(***************************************************************************)
(* Of any inserters that are counting, the one that started last has       *)
(* missed only what was on its way when it started; unless one that is     *)
(* admitted started even later, and then there is room for all of them.    *)
(***************************************************************************)
SizeInv == \A J \in SUBSET Scanning : Fits(J) \/ \E l \in J : Counted(l, J)

\* Sets of transactions and of inserters are finite.
LEMMA FiniteParts ==
    /\ \A S \in SUBSET Hash : IsFiniteSet(S) /\ Cardinality(S) \in Nat
    /\ \A S \in SUBSET Inserter : IsFiniteSet(S) /\ Cardinality(S) \in Nat
    /\ Cardinality(Inserter) \in Nat \ {0} /\ MaxSize \in Nat
<1>1. \A S \in SUBSET Hash : IsFiniteSet(S)
  BY MempoolAssumption, FS_Subset
<1>2. \A S \in SUBSET Inserter : IsFiniteSet(S)
  BY MempoolAssumption, FS_Subset
<1>3. Cardinality(Inserter) # 0 /\ MaxSize \in Nat
  BY MempoolAssumption, FS_EmptySet
<1> QED
  BY <1>1, <1>2, <1>3, FS_CardinalityType

\* What is counted is a number.
LEMMA SizesAreNumbers ==
    ASSUME TypeOK
    PROVE  /\ IsFiniteSet(txs) /\ Cardinality(txs) \in Nat
           /\ IsFiniteSet(Admitted) /\ Cardinality(Admitted) \in Nat
           /\ Cardinality(Inserter) \in Nat \ {0} /\ MaxSize \in Nat
           /\ \A J \in SUBSET Scanning : IsFiniteSet(J) /\ Cardinality(J) \in Nat
           /\ \A l \in Inserter : /\ IsFiniteSet(Seen(l)) /\ Cardinality(Seen(l)) \in Nat
                                  /\ len[l] \in Nat
<1>1. txs \in SUBSET Hash /\ Admitted \in SUBSET Inserter /\ Scanning \in SUBSET Inserter
  BY DEF TypeOK, Admitted, Scanning
<1>2. \A l \in Inserter : Seen(l) \in SUBSET Hash /\ len[l] \in Nat
  BY DEF TypeOK, Seen
<1>3. \A J \in SUBSET Scanning : J \in SUBSET Inserter
  BY <1>1
<1> QED
  BY <1>1, <1>2, <1>3, FiniteParts

\* And stays one.
LEMMA NextSizesAreNumbers ==
    ASSUME TypeOK'
    PROVE  /\ Cardinality(txs') \in Nat /\ Cardinality(Admitted') \in Nat
           /\ \A l \in Inserter : Cardinality(Seen(l)') \in Nat /\ len'[l] \in Nat
<1>1. txs' \in SUBSET Hash /\ Admitted' \in SUBSET Inserter
  BY DEF TypeOK, Admitted
<1>2. \A l \in Inserter : Seen(l)' \in SUBSET Hash /\ len'[l] \in Nat
  BY DEF TypeOK, Seen
<1> QED
  BY <1>1, <1>2, FiniteParts

(***************************************************************************)
(* A step that admits nobody: what it adds to the map it takes from the    *)
(* admitted, and what a scan misses it does not add to its count.          *)
(***************************************************************************)
LEMMA SizeFrame ==
    ASSUME TypeOK, TypeOK', SizeInv, Scanning' \subseteq Scanning,
           Cardinality(txs') + Cardinality(Admitted') <= Cardinality(txs) + Cardinality(Admitted),
           \A l \in Scanning' :
               Cardinality(Seen(l)') + Cardinality(Admitted') + len[l]
                   <= Cardinality(Seen(l)) + Cardinality(Admitted) + len'[l]
    PROVE  SizeInv'
<1> SUFFICES ASSUME NEW J \in SUBSET Scanning' PROVE Fits(J)' \/ \E l \in J : Counted(l, J)'
  BY DEF SizeInv
<1>1. J \in SUBSET Scanning
  OBVIOUS
<1>2. /\ Cardinality(txs) \in Nat /\ Cardinality(Admitted) \in Nat /\ Cardinality(J) \in Nat
      /\ Cardinality(Inserter) \in Nat /\ MaxSize \in Nat
      /\ \A l \in Inserter : Cardinality(Seen(l)) \in Nat /\ len[l] \in Nat
  BY <1>1, SizesAreNumbers
<1>3. /\ Cardinality(txs') \in Nat /\ Cardinality(Admitted') \in Nat
      /\ \A l \in Inserter : Cardinality(Seen(l)') \in Nat /\ len'[l] \in Nat
  BY NextSizesAreNumbers
<1>4. CASE Fits(J)
  BY <1>2, <1>3, <1>4 DEF Fits
<1>5. ASSUME NEW l \in J, Counted(l, J) PROVE Counted(l, J)'
  <2>1. l \in Inserter /\ l \in Scanning'
    BY DEF Scanning
  <2> QED
    BY <1>2, <1>3, <1>5, <2>1 DEF Counted
<1> QED
  BY <1>1, <1>4, <1>5 DEF SizeInv

\* Two disjoint sets of inserters are together no more than all of them.
LEMMA DisjointInserters ==
    ASSUME NEW A \in SUBSET Inserter, NEW J \in SUBSET Inserter, A \cap J = {}
    PROVE  Cardinality(A) + Cardinality(J) <= Cardinality(Inserter)
<1>1. IsFiniteSet(A) /\ IsFiniteSet(J)
  BY MempoolAssumption, FS_Subset
<1>2. Cardinality(A \cup J) = Cardinality(A) + Cardinality(J) - Cardinality(A \cap J)
  BY <1>1, FS_Union
<1>3. Cardinality(A \cup J) <= Cardinality(Inserter)
  BY MempoolAssumption, FS_Subset
<1>4. Cardinality(A \cap J) = 0 /\ Cardinality(A) \in Nat /\ Cardinality(J) \in Nat
  BY <1>1, FS_EmptySet, FS_CardinalityType
<1> QED
  BY <1>2, <1>3, <1>4

\* A scan that starts has missed nothing: what it will miss others have still to store.
LEMMA InsertKeepsSize ==
    ASSUME TypeOK, TypeOK', SizeInv, NEW i \in Inserter, NEW h \in Hash, Insert(i, h) PROVE SizeInv'
<1>1. /\ ipc[i] = "idle" /\ ipc' = [ipc EXCEPT ![i] = "len"] /\ unread' = [unread EXCEPT ![i] = Hash]
      /\ UNCHANGED <<txs, len>>
  BY DEF Insert
<1>2. Scanning' = Scanning \cup {i} /\ Admitted' = Admitted
  BY <1>1 DEF Scanning, Admitted, TypeOK
<1> SUFFICES ASSUME NEW J \in SUBSET Scanning' PROVE Fits(J)' \/ \E l \in J : Counted(l, J)'
  BY DEF SizeInv
<1>3. CASE i \in J
  <2>1. Seen(i)' = {}
    BY <1>1 DEF TypeOK, Seen
  <2>2. Cardinality(Seen(i)') = 0
    BY <2>1, FS_EmptySet
  <2>3. Cardinality(Admitted') + Cardinality(J) <= Cardinality(Inserter)
    <3>1. Admitted' \in SUBSET Inserter /\ J \in SUBSET Inserter /\ Admitted' \cap J = {}
      BY DEF Admitted, Scanning
    <3> QED
      BY <3>1, DisjointInserters
  <2>4. Cardinality(Admitted') \in Nat /\ Cardinality(Inserter) \in Nat /\ len'[i] \in Nat
    BY <1>1, <1>2, SizesAreNumbers
  <2>5. Cardinality(J) \in Nat
    <3>1. J \in SUBSET Inserter
      BY DEF Scanning
    <3> QED
      BY <3>1, MempoolAssumption, FS_Subset, FS_CardinalityType
  <2>6. Counted(i, J)'
    BY <2>2, <2>3, <2>4, <2>5 DEF Counted
  <2> QED
    BY <1>3, <2>6
<1>4. CASE i \notin J
  <2>1. J \in SUBSET Scanning
    BY <1>2, <1>4
  <2>2. Fits(J)' <=> Fits(J)
    BY <1>1, <1>2 DEF Fits
  <2>3. ASSUME NEW l \in J PROVE Counted(l, J)' <=> Counted(l, J)
    <3>1. Seen(l)' = Seen(l) /\ len' = len
      BY <1>1, <1>4, <2>1 DEF TypeOK, Scanning, Seen
    <3> QED
      BY <1>2, <3>1 DEF Counted
  <2> QED
    BY <2>1, <2>2, <2>3 DEF SizeInv
<1> QED
  BY <1>3, <1>4

\* An inserter that is admitted passes from the ones that count to the ones that store.
LEMMA CheckSizeKeepsSize ==
    ASSUME TypeOK, TypeOK', SizeInv, NEW i \in Inserter, CheckSize(i) PROVE SizeInv'
<1>1. ipc[i] = "len" /\ unread[i] = {} /\ UNCHANGED <<txs, unread>> /\ len' = [len EXCEPT ![i] = 0]
  BY DEF CheckSize
<1>2. CASE ipc' = [ipc EXCEPT ![i] = "idle"]
  <2>1. Scanning' = Scanning \ {i} /\ Admitted' = Admitted
    BY <1>1, <1>2 DEF Scanning, Admitted, TypeOK
  <2>2. \A l \in Scanning' : len'[l] = len[l] /\ len[l] \in Nat
    BY <1>1, <2>1 DEF TypeOK, Scanning
  <2>3. txs' = txs /\ \A l \in Inserter : Seen(l)' = Seen(l)
    BY <1>1 DEF Seen
  <2>4. Cardinality(txs) \in Nat /\ Cardinality(Admitted) \in Nat /\ \A l \in Inserter : Cardinality(Seen(l)) \in Nat
    BY SizesAreNumbers
  <2>5. Scanning' \subseteq Inserter
    BY DEF Scanning
  <2>6. \A l \in Scanning' :
            Cardinality(Seen(l)') + Cardinality(Admitted') + len[l]
                   <= Cardinality(Seen(l)) + Cardinality(Admitted) + len'[l]
    BY <2>1, <2>2, <2>3, <2>4, <2>5
  <2> QED
    BY <2>1, <2>3, <2>4, <2>6, SizeFrame
<1>3. CASE len[i] < MaxSize /\ ipc' = [ipc EXCEPT ![i] = "exists"]
  <2>1. Scanning' = Scanning \ {i} /\ Admitted' = Admitted \cup {i} /\ i \notin Admitted /\ i \in Scanning
    BY <1>1, <1>3 DEF Scanning, Admitted, TypeOK
  <2> SUFFICES ASSUME NEW J \in SUBSET Scanning' PROVE Fits(J)' \/ \E l \in J : Counted(l, J)'
    BY DEF SizeInv
  <2> DEFINE K == J \cup {i}
  <2>2. K \in SUBSET Scanning /\ i \notin J
    BY <2>1
  <2>3. Cardinality(K) = Cardinality(J) + 1 /\ Cardinality(J) \in Nat
    <3>1. J \in SUBSET Scanning
      BY <2>1
    <3>2. IsFiniteSet(J) /\ Cardinality(J) \in Nat
      BY <3>1, SizesAreNumbers
    <3> QED
      BY <2>2, <3>2, FS_AddElement
  <2>4. Cardinality(Admitted') = Cardinality(Admitted) + 1
    BY <2>1, SizesAreNumbers, FS_AddElement
  <2>5. /\ Cardinality(txs) \in Nat /\ Cardinality(Admitted) \in Nat /\ Cardinality(Inserter) \in Nat /\ MaxSize \in Nat
        /\ \A l \in Inserter : Cardinality(Seen(l)) \in Nat /\ len[l] \in Nat
    BY SizesAreNumbers
  <2> HIDE DEF K
  <2>6. ASSUME Fits(K) PROVE Fits(J)'
    BY <1>1, <2>3, <2>4, <2>5, <2>6 DEF Fits
  <2>7. ASSUME Counted(i, K) PROVE Fits(K)
    <3>1. Seen(i) = txs
      BY <1>1 DEF Seen
    <3> QED
      BY <1>3, <2>3, <2>5, <2>7, <3>1 DEF Counted, Fits
  <2>8. ASSUME NEW l \in J, Counted(l, K) PROVE Counted(l, J)'
    <3>1. l \in Inserter /\ len'[l] = len[l] /\ Seen(l)' = Seen(l)
      BY <1>1, <2>1, <2>2 DEF TypeOK, Scanning, Seen
    <3> QED
      BY <2>3, <2>4, <2>5, <2>8, <3>1 DEF Counted
  <2>9. Fits(K) \/ \E l \in K : Counted(l, K)
    BY <2>2 DEF SizeInv
  <2> QED
    BY <2>6, <2>7, <2>8, <2>9 DEF K
<1> QED
  BY <1>2, <1>3 DEF CheckSize, Back

\* A shard that is counted is counted once.
LEMMA CountShardKeepsSize ==
    ASSUME TypeOK, TypeOK', SizeInv, NEW i \in Inserter, NEW h \in Hash, CountShard(i, h) PROVE SizeInv'
<1>1. /\ ipc[i] = "len" /\ h \in unread[i] /\ unread' = [unread EXCEPT ![i] = @ \ {h}]
      /\ len' = [len EXCEPT ![i] = @ + (IF h \in txs THEN 1 ELSE 0)]
      /\ UNCHANGED <<txs, ipc>>
  BY DEF CountShard
<1>2. Scanning' = Scanning /\ Admitted' = Admitted /\ Scanning \subseteq Inserter
  BY <1>1 DEF Scanning, Admitted
<1>3. /\ Cardinality(txs) \in Nat /\ Cardinality(Admitted) \in Nat
      /\ \A l \in Inserter : /\ IsFiniteSet(Seen(l))
                             /\ Cardinality(Seen(l)) \in Nat /\ len[l] \in Nat
  BY SizesAreNumbers
<1>4. Cardinality(Seen(i)') <= Cardinality(Seen(i)) + (IF h \in txs THEN 1 ELSE 0)
  <2>1. CASE h \in txs
    <3>1. Seen(i)' = Seen(i) \cup {h} /\ h \notin Seen(i)
      BY <1>1, <2>1 DEF TypeOK, Seen
    <3>2. Cardinality(Seen(i) \cup {h}) = Cardinality(Seen(i)) + 1
      BY <1>3, <3>1, FS_AddElement
    <3> QED
      BY <1>3, <2>1, <3>1, <3>2
  <2>2. CASE h \notin txs
    <3>1. Seen(i)' = Seen(i)
      BY <1>1, <2>2 DEF TypeOK, Seen
    <3> QED
      BY <1>3, <2>2, <3>1
  <2> QED
    BY <2>1, <2>2
<1>5. len'[i] = len[i] + (IF h \in txs THEN 1 ELSE 0) /\ Cardinality(Seen(i)') \in Nat
  BY <1>1, NextSizesAreNumbers DEF TypeOK
<1>6. ASSUME NEW l \in Scanning'
      PROVE  Cardinality(Seen(l)') + Cardinality(Admitted') + len[l]
                <= Cardinality(Seen(l)) + Cardinality(Admitted) + len'[l]
  <2>1. CASE l = i
    BY <1>2, <1>3, <1>4, <1>5, <2>1
  <2>2. CASE l # i
    <3>1. Seen(l)' = Seen(l) /\ len'[l] = len[l] /\ l \in Inserter
      BY <1>1, <1>2, <2>2 DEF TypeOK, Seen
    <3> QED
      BY <1>2, <1>3, <3>1
  <2> QED
    BY <2>1, <2>2
<1> QED
  BY <1>1, <1>2, <1>3, <1>6, SizeFrame

\* Storing moves a transaction from the admitted into the map.
LEMMA StoreKeepsSize == ASSUME TypeOK, TypeOK', SizeInv, NEW i \in Inserter, Store(i) PROVE SizeInv'
<1>1. /\ ipc[i] = "store" /\ ipc' = [ipc EXCEPT ![i] = "idle"]
      /\ txs' = txs \cup {cur[i]} /\ UNCHANGED <<unread, len>>
  BY DEF Store, Back
<1>2. Scanning' = Scanning /\ Admitted' = Admitted \ {i} /\ i \in Admitted /\ Scanning \subseteq Inserter
  BY <1>1 DEF Scanning, Admitted, TypeOK
<1>3. /\ IsFiniteSet(txs) /\ Cardinality(txs) \in Nat /\ IsFiniteSet(Admitted) /\ Cardinality(Admitted) \in Nat
      /\ \A l \in Inserter : /\ IsFiniteSet(Seen(l))
                             /\ Cardinality(Seen(l)) \in Nat /\ len[l] \in Nat
  BY SizesAreNumbers
<1>4. Cardinality(Admitted') = Cardinality(Admitted) - 1
  BY <1>2, <1>3, FS_RemoveElement
<1>5. ASSUME NEW S, IsFiniteSet(S), NEW x PROVE Cardinality(S \cup {x}) <= Cardinality(S) + 1
  BY <1>5, FS_AddElement, FS_CardinalityType
<1>6. Cardinality(txs') <= Cardinality(txs) + 1 /\ Cardinality(txs') \in Nat
  BY <1>1, <1>3, <1>5, NextSizesAreNumbers
<1>7. ASSUME NEW l \in Inserter PROVE Cardinality(Seen(l)') <= Cardinality(Seen(l)) + 1 /\ Cardinality(Seen(l)') \in Nat
  <2>1. CASE cur[i] \in unread[l]
    <3>1. Seen(l)' = Seen(l)
      BY <1>1, <2>1 DEF Seen
    <3> QED
      BY <1>3, <3>1
  <2>2. CASE cur[i] \notin unread[l]
    <3>1. Seen(l)' = Seen(l) \cup {cur[i]}
      BY <1>1, <2>2 DEF Seen
    <3>2. Cardinality(Seen(l) \cup {cur[i]}) <= Cardinality(Seen(l)) + 1
      BY <1>3, <1>5
    <3>3. IsFiniteSet(Seen(l) \cup {cur[i]})
      BY <1>3, FS_AddElement
    <3> QED
      BY <3>1, <3>2, <3>3, FS_CardinalityType
  <2> QED
    BY <2>1, <2>2
<1>8. \A l \in Scanning' :
          Cardinality(Seen(l)') + Cardinality(Admitted') + len[l]
                <= Cardinality(Seen(l)) + Cardinality(Admitted) + len'[l]
  BY <1>1, <1>2, <1>3, <1>4, <1>7
<1>9. Cardinality(txs') + Cardinality(Admitted') <= Cardinality(txs) + Cardinality(Admitted)
  BY <1>3, <1>4, <1>6
<1> QED
  BY <1>2, <1>8, <1>9, SizeFrame

\* Every other step leaves the scans alone and takes from the map or the admitted at most.
LEMMA ShrinkKeepsSize ==
    ASSUME TypeOK, TypeOK', SizeInv, txs' \subseteq txs, Admitted' \subseteq Admitted, Scanning' = Scanning,
           UNCHANGED <<unread, len>>
    PROVE  SizeInv'
<1>1. /\ IsFiniteSet(txs) /\ Cardinality(txs) \in Nat /\ IsFiniteSet(Admitted) /\ Cardinality(Admitted) \in Nat
      /\ \A l \in Inserter : /\ IsFiniteSet(Seen(l))
                             /\ Cardinality(Seen(l)) \in Nat /\ len[l] \in Nat
  BY SizesAreNumbers
<1>2. /\ Cardinality(txs') \in Nat /\ Cardinality(Admitted') \in Nat
      /\ \A l \in Inserter : Cardinality(Seen(l)') \in Nat
  BY NextSizesAreNumbers
<1>3. Cardinality(txs') <= Cardinality(txs) /\ Cardinality(Admitted') <= Cardinality(Admitted)
  BY <1>1, FS_Subset
<1>4. \A l \in Inserter : Cardinality(Seen(l)') <= Cardinality(Seen(l))
  <2>1. \A l \in Inserter : Seen(l)' \in SUBSET Seen(l)
    BY DEF Seen
  <2> QED
    BY <1>1, <2>1, FS_Subset
<1>5. Scanning \subseteq Inserter
  BY DEF Scanning
<1>6. ASSUME NEW l \in Scanning'
      PROVE  Cardinality(Seen(l)') + Cardinality(Admitted') + len[l]
                <= Cardinality(Seen(l)) + Cardinality(Admitted) + len'[l]
  <2>1. l \in Inserter /\ len'[l] = len[l]
    BY <1>5
  <2> QED
    BY <1>1, <1>2, <1>3, <1>4, <2>1
<1>7. Cardinality(txs') + Cardinality(Admitted') <= Cardinality(txs) + Cardinality(Admitted)
  BY <1>1, <1>2, <1>3
<1> QED
  BY <1>6, <1>7, SizeFrame

\* Every step keeps the invariant.
LEMMA NextSize == ASSUME TypeOK, TypeOK', SizeInv, [Next]_vars PROVE SizeInv'
<1>1. ASSUME NEW i \in Inserter, CheckExists(i) \/ AddFee(i) \/ InsertIndex(i) PROVE SizeInv'
  <2>1. UNCHANGED <<txs, unread, len>> /\ ipc[i] \in {"exists", "fee", "index"}
    BY <1>1 DEF CheckExists, AddFee, InsertIndex
  <2>2. \E pc \in {"idle", "fee", "index", "store"} : ipc' = [ipc EXCEPT ![i] = pc]
    BY <1>1 DEF CheckExists, AddFee, InsertIndex, Back
  <2>3. Admitted' \subseteq Admitted /\ Scanning' = Scanning
    BY <2>1, <2>2 DEF Admitted, Scanning, TypeOK
  <2> QED
    BY <2>1, <2>3, ShrinkKeepsSize
<1>2. ASSUME UNCHANGED ilocals, txs' \subseteq txs PROVE SizeInv'
  <2>1. UNCHANGED <<ipc, unread, len>>
    BY <1>2 DEF ilocals
  <2>2. Admitted' = Admitted /\ Scanning' = Scanning
    BY <2>1 DEF Admitted, Scanning
  <2> QED
    BY <1>2, <2>1, <2>2, ShrinkKeepsSize
<1>3. ASSUME NEW r \in Remover, NEW h \in Hash, Remove(r, h) \/ Collect(r, h) \/ RemoveTx(r, h) PROVE SizeInv'
  BY <1>2, <1>3 DEF Remove, Collect, RemoveTx
<1>4. ASSUME NEW r \in Remover, NEW key, Drain(r, key) PROVE SizeInv'
  BY <1>2, <1>4 DEF Drain
<1>5. ASSUME NEW r \in Remover, SubtractFee(r) \/ RemoveIndex(r) \/ DropEntry(r) \/ FinishRemoval(r) PROVE SizeInv'
  BY <1>2, <1>5 DEF SubtractFee, RemoveIndex, DropEntry, FinishRemoval
<1>6. CASE UNCHANGED vars
  BY <1>2, <1>6 DEF vars
<1> QED
  BY <1>1, <1>3, <1>4, <1>5, <1>6, InsertKeepsSize, CheckSizeKeepsSize, CountShardKeepsSize, StoreKeepsSize
  DEF Next, InserterStep, RemoverStep

(***************************************************************************)
(* However many threads race between adding up the shards, the check and   *)
(* the insertion, the map outgrows max_size by at most one transaction for *)
(* each further inserter (mempool.rs:63-80).                               *)
(***************************************************************************)
THEOREM SizeBounded == Spec => []SizeIsBounded
<1>1. Init => SizeInv
  <2> SUFFICES ASSUME Init PROVE SizeInv
    OBVIOUS
  <2>1. txs = {} /\ Scanning = {} /\ Admitted = {}
    BY DEF Init, Scanning, Admitted
  <2>2. Cardinality(Inserter) \in Nat \ {0} /\ MaxSize \in Nat
    BY MempoolAssumption, FS_CardinalityType, FS_EmptySet
  <2>3. Fits({})
    BY <2>1, <2>2, FS_EmptySet DEF Fits
  <2> QED
    BY <2>1, <2>3 DEF SizeInv
<1>2. TypeOK /\ TypeOK' /\ SizeInv /\ [Next]_vars => SizeInv'
  BY NextSize
<1>3. TypeOK /\ SizeInv => SizeIsBounded
  <2> SUFFICES ASSUME TypeOK, SizeInv PROVE SizeIsBounded
    OBVIOUS
  <2>1. Fits({})
    BY DEF SizeInv
  <2> QED
    BY <2>1, SizesAreNumbers, FS_EmptySet DEF Fits, SizeIsBounded
<1> QED
  BY <1>1, <1>2, <1>3, TypeCorrect, PTL DEF Spec

-----------------------------------------------------------------------------
(***************************************************************************)
(* The fee counter.  A single inserter finds its transaction still missing *)
(* from the map when it stores it.                                         *)
(***************************************************************************)
Single == Cardinality(Inserter) = 1

FreshInv == Single => \A i \in Inserter : ipc[i] \in {"fee", "index", "store"} => cur[i] \notin txs

FeeInv == FreshInv /\ FeesAreExact

\* A single inserter is the only one.
LEMMA OnlyInserter == ASSUME Single, NEW i \in Inserter, NEW j \in Inserter PROVE i = j
  BY MempoolAssumption, FS_Singleton DEF Single

\* A transaction that a single inserter is about to store stays missing.
LEMMA FreshStep == ASSUME TypeOK, FreshInv, [Next]_vars PROVE FreshInv'
<1> SUFFICES ASSUME Single, NEW i \in Inserter, ipc'[i] \in {"fee", "index", "store"}
             PROVE  cur'[i] \notin txs'
  BY DEF FreshInv, Single
<1> USE DEF FreshInv, TypeOK, index, ilocals, rlocals
<1>1. ASSUME NEW j \in Inserter, NEW h \in Hash, Insert(j, h) \/ CountShard(j, h)
      PROVE  cur'[i] \notin txs'
  BY <1>1 DEF Insert, CountShard
<1>2. ASSUME NEW j \in Inserter, CheckSize(j) \/ CheckExists(j) PROVE cur'[i] \notin txs'
  BY <1>2 DEF CheckSize, CheckExists, Back
<1>3. ASSUME NEW j \in Inserter, AddFee(j) \/ InsertIndex(j) PROVE cur'[i] \notin txs'
  BY <1>3 DEF AddFee, InsertIndex
<1>4. ASSUME NEW j \in Inserter, Store(j) PROVE cur'[i] \notin txs'
  BY <1>4, OnlyInserter DEF Store, Back
<1>5. ASSUME UNCHANGED ilocals, txs' \subseteq txs PROVE cur'[i] \notin txs'
  BY <1>5
<1>6. ASSUME NEW r \in Remover, NEW h \in Hash, Remove(r, h) \/ Collect(r, h) \/ RemoveTx(r, h)
      PROVE  cur'[i] \notin txs'
  BY <1>5, <1>6 DEF Remove, Collect, RemoveTx
<1>7. ASSUME NEW r \in Remover, NEW key, Drain(r, key) PROVE cur'[i] \notin txs'
  BY <1>5, <1>7 DEF Drain
<1>8. ASSUME NEW r \in Remover, SubtractFee(r) \/ RemoveIndex(r) \/ DropEntry(r) \/ FinishRemoval(r)
      PROVE  cur'[i] \notin txs'
  BY <1>5, <1>8 DEF SubtractFee, RemoveIndex, DropEntry, FinishRemoval
<1>9. CASE UNCHANGED vars
  BY <1>5, <1>9 DEF vars
<1> QED
  BY <1>1, <1>2, <1>3, <1>4, <1>6, <1>7, <1>8, <1>9 DEF Next, InserterStep, RemoverStep

\* What is owed is a number, and adds up fees.
LEMMA OwedTypes ==
    ASSUME TypeOK
    PROVE  /\ IsFiniteSet(txs) /\ IsFiniteSet(Storing) /\ IsFiniteSet(Removing)
           /\ \A h \in txs : Fee[h] \in Nat
           /\ \A i \in Storing : cur[i] \in Hash /\ StoringFees[i] = Fee[cur[i]] /\ StoringFees[i] \in Nat
           /\ \A r \in Removing : gone[r] \in Hash /\ RemovingFees[r] = Fee[gone[r]] /\ RemovingFees[r] \in Nat
           /\ Total(Fee, txs) \in Nat /\ Total(StoringFees, Storing) \in Nat
           /\ Total(RemovingFees, Removing) \in Nat
<1>1. IsFiniteSet(txs) /\ IsFiniteSet(Storing) /\ IsFiniteSet(Removing)
  <2>1. txs \in SUBSET Hash /\ Storing \in SUBSET Inserter /\ Removing \in SUBSET Remover
    BY DEF TypeOK, Storing, Removing
  <2> QED
    BY <2>1, MempoolAssumption, FS_Subset
<1>2. \A h \in txs : Fee[h] \in Nat
  BY MempoolAssumption DEF TypeOK
<1>3. \A i \in Storing : cur[i] \in Hash /\ StoringFees[i] = Fee[cur[i]] /\ StoringFees[i] \in Nat
  BY MempoolAssumption DEF TypeOK, Storing, StoringFees
<1>4. \A r \in Removing : gone[r] \in Hash /\ RemovingFees[r] = Fee[gone[r]] /\ RemovingFees[r] \in Nat
  BY MempoolAssumption DEF TypeOK, Removing, RemovingFees
<1> QED
  BY <1>1, <1>2, <1>3, <1>4, UnitsFinite

\* Unless an insertion or a removal reaches or leaves the counter, nothing more is owed.
LEMMA StoringSame ==
    ASSUME Storing' = Storing, \A i \in Storing : cur'[i] = cur[i]
    PROVE  Total(StoringFees', Storing') = Total(StoringFees, Storing)
<1>1. \A i \in Storing : StoringFees'[i] = StoringFees[i]
  BY DEF StoringFees
<1> QED
  BY <1>1, TotalSame

\* The same for the removals.
LEMMA RemovingSame ==
    ASSUME Removing' = Removing, \A r \in Removing : gone'[r] = gone[r]
    PROVE  Total(RemovingFees', Removing') = Total(RemovingFees, Removing)
<1>1. \A r \in Removing : RemovingFees'[r] = RemovingFees[r]
  BY DEF RemovingFees
<1> QED
  BY <1>1, TotalSame

\* A step that changes neither the map nor the counter nor who is about to change them.
LEMMA FeeFrame ==
    ASSUME FeesAreExact, UNCHANGED <<txs, total_fees>>,
           Storing' = Storing, \A i \in Storing : cur'[i] = cur[i],
           Removing' = Removing, \A r \in Removing : gone'[r] = gone[r]
    PROVE  FeesAreExact'
<1>1. Owed' = Owed
  BY StoringSame, RemovingSame DEF Owed
<1> QED
  BY <1>1 DEF FeesAreExact

\* insert adds the fee before it owes it (mempool.rs:72).
LEMMA AddFeeKeepsFees ==
    ASSUME TypeOK, FeesAreExact, NEW i \in Inserter, AddFee(i) PROVE FeesAreExact'
<1>1. /\ ipc[i] = "fee" /\ ipc' = [ipc EXCEPT ![i] = "index"] /\ cur[i] \in Hash /\ Fee[cur[i]] \in Nat
      /\ total_fees' = total_fees + Fee[cur[i]] /\ UNCHANGED <<txs, cur, rpc, gone>>
  BY MempoolAssumption DEF AddFee, TypeOK, rlocals
<1>2. i \notin Storing /\ Storing' = Storing \cup {i}
  BY <1>1 DEF Storing, TypeOK
<1>3. StoringFees'[i] = Fee[cur[i]] /\ \A j \in Storing : StoringFees'[j] = StoringFees[j]
  BY <1>1, <1>2 DEF StoringFees
<1>4. Total(StoringFees', Storing \cup {i}) = Total(StoringFees, Storing) + Fee[cur[i]]
  <2>1. /\ IsFiniteSet(Storing) /\ StoringFees'[i] \in Nat
        /\ \A j \in Storing : StoringFees[j] \in Nat /\ StoringFees'[j] = StoringFees[j]
    BY <1>1, <1>3, OwedTypes
  <2>2. Total(StoringFees', Storing \cup {i}) = Total(StoringFees, Storing) + StoringFees'[i]
    <3>1. i \notin Storing /\ \A j \in Storing : StoringFees'[j] \in Nat
      BY <1>2, <2>1
    <3>2. Total(StoringFees', Storing \cup {i}) = Total(StoringFees', Storing) + StoringFees'[i]
      BY <2>1, <3>1, TotalAdd
    <3>3. \A j \in Storing : StoringFees'[j] = StoringFees[j]
      BY <2>1
    <3>4. Total(StoringFees', Storing) = Total(StoringFees, Storing)
      BY ONLY <3>3, TotalSame
    <3> QED
      BY <3>2, <3>4
  <2> QED
    BY <1>3, <2>2
<1>5. Removing' = Removing
  BY <1>1 DEF Removing
<1>6. Total(RemovingFees', Removing') = Total(RemovingFees, Removing)
  BY <1>1, <1>5, RemovingSame
<1>7. Owed' = Owed + Fee[cur[i]] /\ Owed \in Nat
  BY <1>1, <1>2, <1>4, <1>6, OwedTypes DEF Owed
<1> QED
  BY <1>1, <1>7 DEF FeesAreExact, TypeOK

\* Storing passes the fee on to the map, once unless somebody else stored the transaction.
LEMMA StoreKeepsFees ==
    ASSUME TypeOK, FreshInv, FeesAreExact, NEW i \in Inserter, Store(i) PROVE FeesAreExact'
<1>1. /\ ipc[i] = "store" /\ ipc' = [ipc EXCEPT ![i] = "idle"] /\ cur[i] \in Hash /\ Fee[cur[i]] \in Nat
      /\ cur' = [cur EXCEPT ![i] = NoTx]
      /\ txs' = txs \cup {cur[i]} /\ UNCHANGED <<total_fees, rpc, gone>>
  BY MempoolAssumption DEF Store, Back, TypeOK, rlocals
<1>2. i \in Storing /\ Storing' = Storing \ {i} /\ \A j \in Storing' : cur'[j] = cur[j]
  BY <1>1 DEF Storing, TypeOK
<1>3. StoringFees[i] = Fee[cur[i]] /\ \A j \in Storing \ {i} : StoringFees'[j] = StoringFees[j]
  BY <1>2 DEF StoringFees
<1>4. /\ Total(StoringFees, Storing) = Total(StoringFees', Storing \ {i}) + Fee[cur[i]]
      /\ Total(StoringFees', Storing \ {i}) \in Nat
  <2>1. IsFiniteSet(Storing) /\ \A j \in Storing : StoringFees[j] \in Nat
    BY OwedTypes
  <2>2. /\ Total(StoringFees, Storing) = Total(StoringFees', Storing \ {i}) + StoringFees[i]
        /\ Total(StoringFees', Storing \ {i}) \in Nat
    BY ONLY <1>2, <1>3, <2>1, TotalLeave
  <2> QED
    BY <1>3, <2>2
<1>5. Removing' = Removing
  BY <1>1 DEF Removing
<1>6. Total(RemovingFees', Removing') = Total(RemovingFees, Removing)
  BY <1>1, <1>5, RemovingSame
<1>7. CASE cur[i] \notin txs
  <2>1. Total(Fee, txs \cup {cur[i]}) = Total(Fee, txs) + Fee[cur[i]]
    <3>1. IsFiniteSet(txs) /\ \A h \in txs : Fee[h] \in Nat
      BY OwedTypes
    <3> QED
      BY ONLY <1>1, <1>7, <3>1, TotalAdd
  <2>2. Owed' = Owed
    BY <1>1, <1>2, <1>4, <1>6, <2>1, OwedTypes DEF Owed
  <2> QED
    BY <1>1, <2>2 DEF FeesAreExact
<1>8. CASE cur[i] \in txs
  <2>1. txs' = txs /\ ~Single
    BY <1>1, <1>8 DEF FreshInv
  <2>2. Owed' + Fee[cur[i]] = Owed /\ Owed' \in Nat
    <3>1. Total(Fee, txs) \in Nat /\ Total(RemovingFees, Removing) \in Nat
      BY OwedTypes
    <3>2. Owed' = Total(Fee, txs) + Total(StoringFees', Storing \ {i}) + Total(RemovingFees, Removing)
      BY <1>2, <1>6, <2>1 DEF Owed
    <3> QED
      BY <1>1, <1>4, <3>1, <3>2 DEF Owed
  <2> QED
    BY <1>1, <2>1, <2>2 DEF FeesAreExact, Single, TypeOK
<1> QED
  BY <1>7, <1>8

\* A removal takes the fee over from the map.
LEMMA RemoveTxKeepsFees ==
    ASSUME TypeOK, FeesAreExact, NEW r \in Remover, NEW h \in Hash, RemoveTx(r, h)
    PROVE  FeesAreExact'
<1>1. CASE h \in txs
  <2>1. /\ rpc[r] = "remove" /\ rpc' = [rpc EXCEPT ![r] = "fee"] /\ gone' = [gone EXCEPT ![r] = h]
        /\ txs' = txs \ {h} /\ UNCHANGED <<total_fees, ipc, cur>> /\ Fee[h] \in Nat
    BY <1>1, MempoolAssumption DEF RemoveTx, ilocals
  <2>2. r \notin Removing /\ Removing' = Removing \cup {r} /\ \A q \in Removing : gone'[q] = gone[q]
    BY <2>1 DEF Removing, TypeOK
  <2>3. RemovingFees'[r] = Fee[h] /\ \A q \in Removing : RemovingFees'[q] = RemovingFees[q]
    BY <2>1, <2>2 DEF RemovingFees, TypeOK
  <2>4. Total(RemovingFees', Removing \cup {r}) = Total(RemovingFees, Removing) + Fee[h]
    <3>1. /\ IsFiniteSet(Removing) /\ RemovingFees'[r] \in Nat
          /\ \A q \in Removing : RemovingFees[q] \in Nat /\ RemovingFees'[q] = RemovingFees[q]
      BY <2>1, <2>3, OwedTypes
    <3>2. Total(RemovingFees', Removing \cup {r}) = Total(RemovingFees, Removing) + RemovingFees'[r]
      <4>1. r \notin Removing /\ \A q \in Removing : RemovingFees'[q] \in Nat
        BY <2>2, <3>1
      <4>2. Total(RemovingFees', Removing \cup {r}) = Total(RemovingFees', Removing) + RemovingFees'[r]
        BY <3>1, <4>1, TotalAdd
      <4>3. \A q \in Removing : RemovingFees'[q] = RemovingFees[q]
        BY <3>1
      <4>4. Total(RemovingFees', Removing) = Total(RemovingFees, Removing)
        BY ONLY <4>3, TotalSame
      <4> QED
        BY <4>2, <4>4
    <3> QED
      BY <2>3, <3>2
  <2>5. Total(Fee, txs) = Total(Fee, txs \ {h}) + Fee[h] /\ Total(Fee, txs \ {h}) \in Nat
    BY <1>1, OwedTypes, TotalRemove
  <2>6. Storing' = Storing
    BY <2>1 DEF Storing
  <2>7. Total(StoringFees', Storing') = Total(StoringFees, Storing)
    BY <2>1, <2>6, StoringSame
  <2>8. Owed' = Owed
    BY <2>1, <2>2, <2>4, <2>5, <2>7, OwedTypes DEF Owed
  <2> QED
    BY <2>1, <2>8 DEF FeesAreExact
<1>2. CASE h \notin txs
  <2>1. UNCHANGED <<txs, total_fees, ipc, cur, rpc, gone>>
    BY <1>2 DEF RemoveTx, ilocals
  <2>2. Storing' = Storing /\ Removing' = Removing
    BY <2>1 DEF Storing, Removing
  <2> QED
    BY <2>1, <2>2, FeeFrame
<1> QED
  BY <1>1, <1>2

\* The fee that a removal subtracts is covered (mempool.rs:89).
LEMMA SubtractFeeKeepsFees ==
    ASSUME TypeOK, FeesAreExact, NEW r \in Remover, SubtractFee(r) PROVE FeesAreExact'
<1>1. /\ rpc[r] = "fee" /\ rpc' = [rpc EXCEPT ![r] = "index"] /\ gone[r] \in Hash /\ Fee[gone[r]] \in Nat
      /\ total_fees' = total_fees - Fee[gone[r]] /\ UNCHANGED <<txs, ipc, cur, gone>>
  BY MempoolAssumption DEF SubtractFee, TypeOK, ilocals
<1>2. r \in Removing /\ Removing' = Removing \ {r}
  BY <1>1 DEF Removing, TypeOK
<1>3. RemovingFees[r] = Fee[gone[r]] /\ \A q \in Removing \ {r} : RemovingFees'[q] = RemovingFees[q]
  BY <1>1, <1>2 DEF RemovingFees
<1>4. /\ Total(RemovingFees, Removing) = Total(RemovingFees', Removing \ {r}) + Fee[gone[r]]
      /\ Total(RemovingFees', Removing \ {r}) \in Nat
  <2>1. IsFiniteSet(Removing) /\ \A q \in Removing : RemovingFees[q] \in Nat
    BY OwedTypes
  <2>2. /\ Total(RemovingFees, Removing) = Total(RemovingFees', Removing \ {r}) + RemovingFees[r]
        /\ Total(RemovingFees', Removing \ {r}) \in Nat
    BY ONLY <1>2, <1>3, <2>1, TotalLeave
  <2> QED
    BY <1>3, <2>2
<1>5. Storing' = Storing
  BY <1>1 DEF Storing
<1>6. Total(StoringFees', Storing') = Total(StoringFees, Storing)
  BY <1>1, <1>5, StoringSame
<1>7. Owed' + Fee[gone[r]] = Owed /\ Owed' \in Nat
  BY <1>1, <1>2, <1>4, <1>6, OwedTypes DEF Owed
<1> QED
  BY <1>1, <1>7 DEF FeesAreExact, TypeOK

\* Every step keeps the counter right.
LEMMA FeeStep == ASSUME TypeOK, FreshInv, FeesAreExact, [Next]_vars PROVE FeesAreExact'
<1> USE DEF TypeOK, index, ilocals, rlocals, Storing, Removing
<1>1. ASSUME NEW i \in Inserter, NEW h \in Hash, Insert(i, h) \/ CountShard(i, h) PROVE FeesAreExact'
  BY <1>1, FeeFrame DEF Insert, CountShard
<1>2. ASSUME NEW i \in Inserter, CheckSize(i) \/ CheckExists(i) PROVE FeesAreExact'
  BY <1>2, FeeFrame DEF CheckSize, CheckExists, Back
<1>3. ASSUME NEW i \in Inserter, InsertIndex(i) PROVE FeesAreExact'
  BY <1>3, FeeFrame DEF InsertIndex
<1>4. ASSUME NEW r \in Remover, NEW h \in Hash, Remove(r, h) \/ Collect(r, h) PROVE FeesAreExact'
  BY <1>4, FeeFrame DEF Remove, Collect
<1>5. ASSUME NEW r \in Remover, NEW key, Drain(r, key) PROVE FeesAreExact'
  BY <1>5, FeeFrame DEF Drain
<1>6. ASSUME NEW r \in Remover, RemoveIndex(r) PROVE FeesAreExact'
  BY <1>6, FeeFrame DEF RemoveIndex
<1>7. ASSUME NEW r \in Remover, DropEntry(r) \/ FinishRemoval(r) PROVE FeesAreExact'
  BY <1>7, FeeFrame DEF DropEntry, FinishRemoval
<1>8. CASE UNCHANGED vars
  BY <1>8, FeeFrame DEF vars
<1> QED
  BY <1>1, <1>2, <1>3, <1>4, <1>5, <1>6, <1>7, <1>8, AddFeeKeepsFees, StoreKeepsFees,
     RemoveTxKeepsFees, SubtractFeeKeepsFees DEF Next, InserterStep, RemoverStep

(***************************************************************************)
(* The fee counter never wraps below zero, whatever races: it covers every *)
(* fee that is still to be subtracted.  Only two insertions of the same    *)
(* transaction at once make it too large (mempool.rs:68-80, 89).           *)
(***************************************************************************)
THEOREM FeesExact == Spec => []FeesAreExact
<1>1. Init => FeeInv
  <2> SUFFICES ASSUME Init PROVE FeeInv
    OBVIOUS
  <2>1. txs = {} /\ Storing = {} /\ Removing = {} /\ total_fees = 0
    BY DEF Init, Storing, Removing
  <2>2. Owed = 0
    BY <2>1, TotalEmpty DEF Owed
  <2>3. FreshInv
    BY DEF Init, FreshInv
  <2> QED
    BY <2>1, <2>2, <2>3 DEF FeeInv, FeesAreExact
<1>2. TypeOK /\ FeeInv /\ [Next]_vars => FeeInv'
  BY FreshStep, FeeStep DEF FeeInv
<1>3. FeeInv => FeesAreExact
  BY DEF FeeInv
<1> QED
  BY <1>1, <1>2, <1>3, TypeCorrect, PTL DEF Spec
=============================================================================
