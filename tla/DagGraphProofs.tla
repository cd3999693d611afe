--------------------------- MODULE DagGraphProofs ---------------------------
(***************************************************************************)
(* Proofs that DagGraph satisfies its safety properties, and implements    *)
(* the ledger that applies a transaction in one step, for any number of    *)
(* threads, accounts and transactions.                                     *)
(***************************************************************************)
EXTENDS DagGraphInv, TotalsProofs

USE DEF At, Goto

\* The fields of a transaction have their types.
LEMMA TxTypes ==
    ASSUME NEW h \in Hash
    PROVE  /\ sender(h) \in Addr /\ receiver(h) \in Addr
           /\ Tx[h].amount \in Nat /\ Tx[h].fee \in Nat /\ Tx[h].nonce \in Nat
           /\ total_debit(h) \in Nat
           /\ Tx[h].parent_1 \in Hash \cup {Zero} /\ Tx[h].parent_2 \in Hash \cup {Zero}
  BY TxAssumption DEF Transaction, sender, receiver, total_debit

\* The initial state is well typed.
LEMMA InitTypeOK == Init => TypeOK
  BY BoundAssumption DEF Init, TypeOK, NoNode, NodeInfo, TransactionStatus, Results

\* Gaining a child keeps a node's record well typed, and its status and depth.
LEMMA LinkedTypes ==
    ASSUME NEW n \in NodeInfo, NEW c \in Hash, NEW k \in Nat
    PROVE  /\ Linked(n, c, k) \in NodeInfo
           /\ Linked(n, c, k).children # {}
           /\ Linked(n, c, k).status = n.status
           /\ Linked(n, c, k).depth = n.depth
  <1> DEFINE ch == n.children \cup {c}
             w  == n.weight + k
  <1>1. ch \in SUBSET Hash /\ ch # {} /\ w \in Nat
    BY DEF NodeInfo
  <1>2. Linked(n, c, k) = [n EXCEPT !.children = ch, !.weight = w]
    BY DEF Linked
  <1> HIDE DEF ch, w
  <1>3. QED
    BY <1>1, <1>2 DEF NodeInfo

\* A link adds a natural number to the weight.
LEMMA TimesType == ASSUME NEW h \in Hash PROVE Times(h) \in Nat
  BY DEF Times

\* Every step keeps the state well typed.
LEMMA NextTypeOK == TypeOK /\ [Next]_vars => TypeOK'
  <1> SUFFICES ASSUME TypeOK, [Next]_vars PROVE TypeOK'
    OBVIOUS
  <1> USE TxTypes DEF TypeOK, Holding, BeforeLock, BeforeDebit, Applying, Weaving, Results,
                      locals, ledger, graph
  <1>1. ASSUME NEW h \in Hash, InsertGenesis(h) PROVE TypeOK'
    BY <1>1 DEF InsertGenesis, NewNode, NodeInfo, TransactionStatus
  <1>2. ASSUME NEW t \in Thread, NEW h \in Hash, NEW e \in Entry, Submit(t, h, e)
        PROVE  TypeOK'
    BY <1>2 DEF Submit, StartScan, NoScan
  <1>3. ASSUME NEW t \in Thread, AcquireLock(t) PROVE TypeOK'
    BY <1>3 DEF AcquireLock
  <1>4. ASSUME NEW t \in Thread, Step(t) PROVE TypeOK'
    <2>1. ASSUME NEW a \in Addr, ScanBalance(t, a) PROVE TypeOK'
      BY <2>1 DEF ScanBalance
    <2>2. CASE NodeSupplyCheck(t)
      BY <2>2 DEF NodeSupplyCheck, EndScan, Fail, Pass
    <2>3. CASE PreCheck(t)
      BY <2>3 DEF PreCheck, NoScan, Fail, Pass
    <2>4. CASE DuplicateCheck(t)
      BY <2>4 DEF DuplicateCheck, NoScan, StartScan, FailLocked, Pass
    <2>5. CASE ParentCheck1(t)
      BY <2>5 DEF ParentCheck1, NoScan, FailLocked, Pass
    <2>6. CASE ParentCheck2(t)
      BY <2>6 DEF ParentCheck2, NoScan, StartScan, FailLocked, Pass
    <2>7. CASE DagSupplyCheck(t)
      BY <2>7 DEF DagSupplyCheck, EndScan, FailLocked, Pass
    <2>8. CASE BalanceAndNonceCheck(t)
      BY <2>8 DEF BalanceAndNonceCheck, NoScan, FailLocked, Pass
    <2>9. CASE Debit(t)
      BY <2>9 DEF Debit, NoScan, FailLocked
    <2>10. CASE Credit(t)
      BY <2>10 DEF Credit
    <2>11. CASE IncrementNonce(t)
      BY <2>11 DEF IncrementNonce
    <2>12. CASE CommitTransaction(t)
      BY <2>12 DEF CommitTransaction
    <2>13. CASE ComputeDepth(t)
      BY <2>13 DEF ComputeDepth, MaxOf, DepthOf, NodeInfo
    <2>14. CASE LoadMaxDepth(t)
      BY <2>14 DEF LoadMaxDepth
    <2>15. CASE SwapMaxDepth(t)
      BY <2>15 DEF SwapMaxDepth
    <2>16. CASE LinkParents(t)
      BY <2>16, LinkedTypes, TimesType DEF LinkParents
    <2>17. CASE RemoveTips(t)
      BY <2>17 DEF RemoveTips
    <2>18. CASE AddTip(t)
      BY <2>18 DEF AddTip
    <2>19. CASE StoreNode(t)
      BY <2>19 DEF StoreNode, NewNode, NodeInfo, TransactionStatus
    <2>20. CASE Finish(t)
      BY <2>20 DEF Finish
    <2>21. CASE Broadcast(t)
      BY <2>21 DEF Broadcast
    <2>22. QED
      BY <1>4, <2>1, <2>2, <2>3, <2>4, <2>5, <2>6, <2>7, <2>8, <2>9, <2>10, <2>11, <2>12,
         <2>13, <2>14, <2>15, <2>16, <2>17, <2>18, <2>19, <2>20, <2>21 DEF Step
  <1>5. ASSUME NEW h \in Hash, NEW s \in Reported, SetStatus(h, s) PROVE TypeOK'
    BY <1>5, BoundAssumption DEF SetStatus, NodeInfo
  <1>6. ASSUME NEW h \in Hash, Prune(h) PROVE TypeOK'
    BY <1>6 DEF Prune, Prunable, NoNode, NodeInfo, TransactionStatus
  <1>7. CASE UNCHANGED vars
    BY <1>7 DEF vars
  <1>8. QED
    BY <1>1, <1>2, <1>3, <1>4, <1>5, <1>6, <1>7 DEF Next

\* Only the owner of a sender's lock is in that sender's critical section.
LEMMA NextLockInv == TypeOK /\ TypeOK' /\ LockInv /\ [Next]_vars => LockInv'
  <1> SUFFICES ASSUME TypeOK, TypeOK', LockInv, [Next]_vars PROVE LockInv'
    OBVIOUS
  <1> USE ThreadAssumption, TxTypes DEF TypeOK, LockInv, Holding, BeforeDebit, BeforeLock, Applying,
             Weaving, locals, ledger, graph
  <1>1. ASSUME NEW h \in Hash, InsertGenesis(h) PROVE LockInv'
    BY <1>1 DEF InsertGenesis
  <1>2. ASSUME NEW t \in Thread, NEW h \in Hash, NEW e \in Entry, Submit(t, h, e)
        PROVE  LockInv'
    BY <1>2 DEF Submit, StartScan, NoScan
  <1>3. ASSUME NEW t \in Thread, AcquireLock(t) PROVE LockInv'
    BY <1>3 DEF AcquireLock
  <1>4. ASSUME NEW t \in Thread, Step(t) PROVE LockInv'
    <2>1. ASSUME NEW a \in Addr, ScanBalance(t, a) PROVE LockInv'
      BY <2>1 DEF ScanBalance
    <2>2. CASE NodeSupplyCheck(t)
      BY <2>2 DEF NodeSupplyCheck, EndScan, Fail, Pass
    <2>3. CASE PreCheck(t)
      BY <2>3 DEF PreCheck, NoScan, Fail, Pass
    <2>4. CASE DuplicateCheck(t)
      BY <2>4 DEF DuplicateCheck, NoScan, StartScan, FailLocked, Pass
    <2>5. CASE ParentCheck1(t)
      BY <2>5 DEF ParentCheck1, NoScan, FailLocked, Pass
    <2>6. CASE ParentCheck2(t)
      BY <2>6 DEF ParentCheck2, NoScan, StartScan, FailLocked, Pass
    <2>7. CASE DagSupplyCheck(t)
      BY <2>7 DEF DagSupplyCheck, EndScan, FailLocked, Pass
    <2>8. CASE BalanceAndNonceCheck(t)
      BY <2>8 DEF BalanceAndNonceCheck, NoScan, FailLocked, Pass
    <2>9. CASE Debit(t)
      BY <2>9 DEF Debit, NoScan, FailLocked
    <2>10. CASE Credit(t)
      BY <2>10 DEF Credit
    <2>11. CASE IncrementNonce(t)
      BY <2>11 DEF IncrementNonce
    <2>12. CASE CommitTransaction(t)
      BY <2>12 DEF CommitTransaction
    <2>13. CASE ComputeDepth(t)
      BY <2>13 DEF ComputeDepth
    <2>14. CASE LoadMaxDepth(t)
      BY <2>14 DEF LoadMaxDepth
    <2>15. CASE SwapMaxDepth(t)
      BY <2>15 DEF SwapMaxDepth
    <2>16. CASE LinkParents(t)
      BY <2>16 DEF LinkParents
    <2>17. CASE RemoveTips(t)
      BY <2>17 DEF RemoveTips
    <2>18. CASE AddTip(t)
      BY <2>18 DEF AddTip
    <2>19. CASE StoreNode(t)
      BY <2>19 DEF StoreNode
    <2>20. CASE Finish(t)
      BY <2>20 DEF Finish
    <2>21. CASE Broadcast(t)
      BY <2>21 DEF Broadcast
    <2>22. QED
      BY <1>4, <2>1, <2>2, <2>3, <2>4, <2>5, <2>6, <2>7, <2>8, <2>9, <2>10, <2>11, <2>12,
         <2>13, <2>14, <2>15, <2>16, <2>17, <2>18, <2>19, <2>20, <2>21 DEF Step
  <1>5. ASSUME NEW h \in Hash, NEW s \in Reported, SetStatus(h, s) PROVE LockInv'
    BY <1>5 DEF SetStatus
  <1>6. ASSUME NEW h \in Hash, Prune(h) PROVE LockInv'
    BY <1>6 DEF Prune
  <1>7. CASE UNCHANGED vars
    BY <1>7 DEF vars
  <1>8. QED
    BY <1>1, <1>2, <1>3, <1>4, <1>5, <1>6, <1>7 DEF Next

\* Nothing is submitted before start-up is over.
LEMMA NextBootInv == TypeOK /\ BootInv /\ [Next]_vars => BootInv'
  <1> SUFFICES ASSUME TypeOK, BootInv, [Next]_vars PROVE BootInv'
    OBVIOUS
  <1> USE TxTypes DEF TypeOK, BootInv, Holding, BeforeDebit, BeforeLock, Applying,
             Weaving, locals, ledger, graph
  <1>1. ASSUME NEW h \in Hash, InsertGenesis(h) PROVE BootInv'
    BY <1>1 DEF InsertGenesis
  <1>2. ASSUME NEW t \in Thread, NEW h \in Hash, NEW e \in Entry, Submit(t, h, e)
        PROVE  BootInv'
    BY <1>2 DEF Submit, StartScan, NoScan
  <1>3. ASSUME NEW t \in Thread, AcquireLock(t) PROVE BootInv'
    BY <1>3 DEF AcquireLock
  <1>4. ASSUME NEW t \in Thread, Step(t) PROVE BootInv'
    <2>1. ASSUME NEW a \in Addr, ScanBalance(t, a) PROVE BootInv'
      BY <2>1 DEF ScanBalance
    <2>2. CASE NodeSupplyCheck(t)
      BY <2>2 DEF NodeSupplyCheck, EndScan, Fail, Pass
    <2>3. CASE PreCheck(t)
      BY <2>3 DEF PreCheck, NoScan, Fail, Pass
    <2>4. CASE DuplicateCheck(t)
      BY <2>4 DEF DuplicateCheck, NoScan, StartScan, FailLocked, Pass
    <2>5. CASE ParentCheck1(t)
      BY <2>5 DEF ParentCheck1, NoScan, FailLocked, Pass
    <2>6. CASE ParentCheck2(t)
      BY <2>6 DEF ParentCheck2, NoScan, StartScan, FailLocked, Pass
    <2>7. CASE DagSupplyCheck(t)
      BY <2>7 DEF DagSupplyCheck, EndScan, FailLocked, Pass
    <2>8. CASE BalanceAndNonceCheck(t)
      BY <2>8 DEF BalanceAndNonceCheck, NoScan, FailLocked, Pass
    <2>9. CASE Debit(t)
      BY <2>9 DEF Debit, NoScan, FailLocked
    <2>10. CASE Credit(t)
      BY <2>10 DEF Credit
    <2>11. CASE IncrementNonce(t)
      BY <2>11 DEF IncrementNonce
    <2>12. CASE CommitTransaction(t)
      BY <2>12 DEF CommitTransaction
    <2>13. CASE ComputeDepth(t)
      BY <2>13 DEF ComputeDepth
    <2>14. CASE LoadMaxDepth(t)
      BY <2>14 DEF LoadMaxDepth
    <2>15. CASE SwapMaxDepth(t)
      BY <2>15 DEF SwapMaxDepth
    <2>16. CASE LinkParents(t)
      BY <2>16 DEF LinkParents
    <2>17. CASE RemoveTips(t)
      BY <2>17 DEF RemoveTips
    <2>18. CASE AddTip(t)
      BY <2>18 DEF AddTip
    <2>19. CASE StoreNode(t)
      BY <2>19 DEF StoreNode
    <2>20. CASE Finish(t)
      BY <2>20 DEF Finish
    <2>21. CASE Broadcast(t)
      BY <2>21 DEF Broadcast
    <2>22. QED
      BY <1>4, <2>1, <2>2, <2>3, <2>4, <2>5, <2>6, <2>7, <2>8, <2>9, <2>10, <2>11, <2>12,
         <2>13, <2>14, <2>15, <2>16, <2>17, <2>18, <2>19, <2>20, <2>21 DEF Step
  <1>5. ASSUME NEW h \in Hash, NEW s \in Reported, SetStatus(h, s) PROVE BootInv'
    BY <1>5 DEF SetStatus
  <1>6. ASSUME NEW h \in Hash, Prune(h) PROVE BootInv'
    BY <1>6 DEF Prune
  <1>7. CASE UNCHANGED vars
    BY <1>7 DEF vars
  <1>8. QED
    BY <1>1, <1>2, <1>3, <1>4, <1>5, <1>6, <1>7 DEF Next

\* Nobody but the owner of a sender's lock lowers its balance.
LEMMA NextDebitIsCovered ==
    TypeOK /\ TypeOK' /\ LockInv /\ BootInv /\ DebitIsCovered /\ [Next]_vars => DebitIsCovered'
  <1> SUFFICES ASSUME TypeOK, TypeOK', LockInv, BootInv, DebitIsCovered, [Next]_vars
               PROVE  DebitIsCovered'
    OBVIOUS
  <1> USE TxTypes DEF TypeOK, LockInv, BootInv, DebitIsCovered, Holding, BeforeDebit, BeforeLock, Applying,
             Weaving, locals, ledger, graph
  <1>1. ASSUME NEW h \in Hash, InsertGenesis(h) PROVE DebitIsCovered'
    BY <1>1 DEF InsertGenesis
  <1>2. ASSUME NEW t \in Thread, NEW h \in Hash, NEW e \in Entry, Submit(t, h, e)
        PROVE  DebitIsCovered'
    BY <1>2 DEF Submit, StartScan, NoScan
  <1>3. ASSUME NEW t \in Thread, AcquireLock(t) PROVE DebitIsCovered'
    BY <1>3 DEF AcquireLock
  <1>4. ASSUME NEW t \in Thread, Step(t) PROVE DebitIsCovered'
    <2>1. ASSUME NEW a \in Addr, ScanBalance(t, a) PROVE DebitIsCovered'
      BY <2>1 DEF ScanBalance
    <2>2. CASE NodeSupplyCheck(t)
      BY <2>2 DEF NodeSupplyCheck, EndScan, Fail, Pass
    <2>3. CASE PreCheck(t)
      BY <2>3 DEF PreCheck, NoScan, Fail, Pass
    <2>4. CASE DuplicateCheck(t)
      BY <2>4 DEF DuplicateCheck, NoScan, StartScan, FailLocked, Pass
    <2>5. CASE ParentCheck1(t)
      BY <2>5 DEF ParentCheck1, NoScan, FailLocked, Pass
    <2>6. CASE ParentCheck2(t)
      BY <2>6 DEF ParentCheck2, NoScan, StartScan, FailLocked, Pass
    <2>7. CASE DagSupplyCheck(t)
      BY <2>7 DEF DagSupplyCheck, EndScan, FailLocked, Pass
    <2>8. CASE BalanceAndNonceCheck(t)
      BY <2>8 DEF BalanceAndNonceCheck, NoScan, FailLocked, Pass
    <2>9. CASE Debit(t)
      BY <2>9 DEF Debit, NoScan, FailLocked
    <2>10. CASE Credit(t)
      BY <2>10 DEF Credit
    <2>11. CASE IncrementNonce(t)
      BY <2>11 DEF IncrementNonce
    <2>12. CASE CommitTransaction(t)
      BY <2>12 DEF CommitTransaction
    <2>13. CASE ComputeDepth(t)
      BY <2>13 DEF ComputeDepth
    <2>14. CASE LoadMaxDepth(t)
      BY <2>14 DEF LoadMaxDepth
    <2>15. CASE SwapMaxDepth(t)
      BY <2>15 DEF SwapMaxDepth
    <2>16. CASE LinkParents(t)
      BY <2>16 DEF LinkParents
    <2>17. CASE RemoveTips(t)
      BY <2>17 DEF RemoveTips
    <2>18. CASE AddTip(t)
      BY <2>18 DEF AddTip
    <2>19. CASE StoreNode(t)
      BY <2>19 DEF StoreNode
    <2>20. CASE Finish(t)
      BY <2>20 DEF Finish
    <2>21. CASE Broadcast(t)
      BY <2>21 DEF Broadcast
    <2>22. QED
      BY <1>4, <2>1, <2>2, <2>3, <2>4, <2>5, <2>6, <2>7, <2>8, <2>9, <2>10, <2>11, <2>12,
         <2>13, <2>14, <2>15, <2>16, <2>17, <2>18, <2>19, <2>20, <2>21 DEF Step
  <1>5. ASSUME NEW h \in Hash, NEW s \in Reported, SetStatus(h, s) PROVE DebitIsCovered'
    BY <1>5 DEF SetStatus
  <1>6. ASSUME NEW h \in Hash, Prune(h) PROVE DebitIsCovered'
    BY <1>6 DEF Prune
  <1>7. CASE UNCHANGED vars
    BY <1>7 DEF vars
  <1>8. QED
    BY <1>1, <1>2, <1>3, <1>4, <1>5, <1>6, <1>7 DEF Next

\* What a thread established about its nonce stays true: the lock protects it.
LEMMA NextNonceInv ==
    TypeOK /\ TypeOK' /\ LockInv /\ NonceInv /\ [Next]_vars => NonceInv'
  <1> SUFFICES ASSUME TypeOK, TypeOK', LockInv, NonceInv, [Next]_vars
               PROVE  NonceInv'
    OBVIOUS
  <1> USE TxTypes DEF TypeOK, LockInv, NonceInv, Holding, BeforeDebit, BeforeLock, Applying,
             Weaving, locals, ledger, graph
  <1>1. ASSUME NEW h \in Hash, InsertGenesis(h) PROVE NonceInv'
    BY <1>1 DEF InsertGenesis
  <1>2. ASSUME NEW t \in Thread, NEW h \in Hash, NEW e \in Entry, Submit(t, h, e)
        PROVE  NonceInv'
    BY <1>2 DEF Submit, StartScan, NoScan
  <1>3. ASSUME NEW t \in Thread, AcquireLock(t) PROVE NonceInv'
    BY <1>3 DEF AcquireLock
  <1>4. ASSUME NEW t \in Thread, Step(t) PROVE NonceInv'
    <2>1. ASSUME NEW a \in Addr, ScanBalance(t, a) PROVE NonceInv'
      BY <2>1 DEF ScanBalance
    <2>2. CASE NodeSupplyCheck(t)
      BY <2>2 DEF NodeSupplyCheck, EndScan, Fail, Pass
    <2>3. CASE PreCheck(t)
      BY <2>3 DEF PreCheck, NoScan, Fail, Pass
    <2>4. CASE DuplicateCheck(t)
      BY <2>4 DEF DuplicateCheck, NoScan, StartScan, FailLocked, Pass
    <2>5. CASE ParentCheck1(t)
      BY <2>5 DEF ParentCheck1, NoScan, FailLocked, Pass
    <2>6. CASE ParentCheck2(t)
      BY <2>6 DEF ParentCheck2, NoScan, StartScan, FailLocked, Pass
    <2>7. CASE DagSupplyCheck(t)
      BY <2>7 DEF DagSupplyCheck, EndScan, FailLocked, Pass
    <2>8. CASE BalanceAndNonceCheck(t)
      BY <2>8 DEF BalanceAndNonceCheck, NoScan, FailLocked, Pass, NonceExpected
    <2>9. CASE Debit(t)
      BY <2>9 DEF Debit, NoScan, FailLocked
    <2>10. CASE Credit(t)
      BY <2>10 DEF Credit
    <2>11. CASE IncrementNonce(t)
      BY <2>11 DEF IncrementNonce
    <2>12. CASE CommitTransaction(t)
      BY <2>12 DEF CommitTransaction, NonceKey, sender
    <2>13. CASE ComputeDepth(t)
      BY <2>13 DEF ComputeDepth
    <2>14. CASE LoadMaxDepth(t)
      BY <2>14 DEF LoadMaxDepth
    <2>15. CASE SwapMaxDepth(t)
      BY <2>15 DEF SwapMaxDepth
    <2>16. CASE LinkParents(t)
      BY <2>16 DEF LinkParents
    <2>17. CASE RemoveTips(t)
      BY <2>17 DEF RemoveTips
    <2>18. CASE AddTip(t)
      BY <2>18 DEF AddTip
    <2>19. CASE StoreNode(t)
      BY <2>19 DEF StoreNode
    <2>20. CASE Finish(t)
      BY <2>20 DEF Finish
    <2>21. CASE Broadcast(t)
      BY <2>21 DEF Broadcast
    <2>22. QED
      BY <1>4, <2>1, <2>2, <2>3, <2>4, <2>5, <2>6, <2>7, <2>8, <2>9, <2>10, <2>11, <2>12,
         <2>13, <2>14, <2>15, <2>16, <2>17, <2>18, <2>19, <2>20, <2>21 DEF Step
  <1>5. ASSUME NEW h \in Hash, NEW s \in Reported, SetStatus(h, s) PROVE NonceInv'
    BY <1>5 DEF SetStatus
  <1>6. ASSUME NEW h \in Hash, Prune(h) PROVE NonceInv'
    BY <1>6 DEF Prune
  <1>7. CASE UNCHANGED vars
    BY <1>7 DEF vars
  <1>8. QED
    BY <1>1, <1>2, <1>3, <1>4, <1>5, <1>6, <1>7 DEF Next

\* The log is exact as long as no commit starts or ends.
LEMMA NonceLogFrame ==
    ASSUME NonceLogIsExact, committed' = committed, nonces' = nonces,
           \A u \in Thread : pc'[u] = "commit" <=> pc[u] = "commit",
           \A u \in Thread : pc[u] = "commit" => cur'[u] = cur[u]
    PROVE  NonceLogIsExact'
  <1>1. \A x \in Addr : CommittedBy(x)' = CommittedBy(x)
    BY DEF CommittedBy
  <1>2. \A x \in Addr : CommitPending(x)' <=> CommitPending(x)
    BY DEF CommitPending
  <1>3. QED
    BY <1>1, <1>2 DEF NonceLogIsExact

\* The interval of used nonces grows by its upper end.
LEMMA IntervalAppend ==
    ASSUME NEW n \in Nat, n > 0 PROVE (1 .. (n - 1)) \cup {n} = 1 .. n
  OBVIOUS

\* Every step keeps the log exact: the commit step appends the next nonce.
LEMMA NextNonceLog ==
    TypeOK /\ TypeOK' /\ LockInv /\ NonceInv /\ NonceLogIsExact /\ [Next]_vars => NonceLogIsExact'
  <1> SUFFICES ASSUME TypeOK, TypeOK', LockInv, NonceInv, NonceLogIsExact, [Next]_vars
               PROVE  NonceLogIsExact'
    OBVIOUS
  <1> USE TxTypes, NonceLogFrame DEF TypeOK, locals, ledger, graph
  <1>1. ASSUME NEW h \in Hash, InsertGenesis(h) PROVE NonceLogIsExact'
    BY <1>1 DEF InsertGenesis
  <1>2. ASSUME NEW t \in Thread, NEW h \in Hash, NEW e \in Entry, Submit(t, h, e)
        PROVE  NonceLogIsExact'
    BY <1>2 DEF Submit, StartScan, NoScan
  <1>3. ASSUME NEW t \in Thread, AcquireLock(t) PROVE NonceLogIsExact'
    BY <1>3 DEF AcquireLock
  <1>4. ASSUME NEW t \in Thread, Step(t) PROVE NonceLogIsExact'
    <2>1. ASSUME NEW a \in Addr, ScanBalance(t, a) PROVE NonceLogIsExact'
      BY <2>1 DEF ScanBalance
    <2>2. CASE NodeSupplyCheck(t)
      BY <2>2 DEF NodeSupplyCheck, EndScan, Fail, Pass
    <2>3. CASE PreCheck(t)
      BY <2>3 DEF PreCheck, NoScan, Fail, Pass
    <2>4. CASE DuplicateCheck(t)
      BY <2>4 DEF DuplicateCheck, NoScan, StartScan, FailLocked, Pass
    <2>5. CASE ParentCheck1(t)
      BY <2>5 DEF ParentCheck1, NoScan, FailLocked, Pass
    <2>6. CASE ParentCheck2(t)
      BY <2>6 DEF ParentCheck2, NoScan, StartScan, FailLocked, Pass
    <2>7. CASE DagSupplyCheck(t)
      BY <2>7 DEF DagSupplyCheck, EndScan, FailLocked, Pass
    <2>8. CASE BalanceAndNonceCheck(t)
      BY <2>8 DEF BalanceAndNonceCheck, NoScan, FailLocked, Pass
    <2>9. CASE Debit(t)
      BY <2>9 DEF Debit, NoScan, FailLocked
    <2>10. CASE Credit(t)
      BY <2>10 DEF Credit
    <2>11. CASE IncrementNonce(t)
      <3> DEFINE x == sender(cur[t])
      <3>1. /\ cur[t] \in Hash /\ x \in Addr /\ pc[t] = "nonce" /\ lock[x] = t
            /\ pc' = [pc EXCEPT ![t] = "commit"] /\ cur' = cur /\ committed' = committed
            /\ nonces' = [nonces EXCEPT ![x] = @ + 1]
        BY <2>11 DEF IncrementNonce, LockInv, Holding, Applying
      <3>2. ~CommitPending(x) /\ CommitPending(x)'
        BY <3>1 DEF CommitPending, LockInv, Holding, Applying
      <3>3. \A y \in Addr \ {x} : CommitPending(y)' <=> CommitPending(y)
        BY <3>1 DEF CommitPending
      <3>4. \A y \in Addr : CommittedBy(y)' = CommittedBy(y)
        BY <3>1 DEF CommittedBy
      <3>5. ASSUME NEW y \in Addr
            PROVE  (IF CommitPending(y) THEN nonces[y] - 1 ELSE nonces[y])'
                     = IF CommitPending(y) THEN nonces[y] - 1 ELSE nonces[y]
        <4>1. CASE y = x
          BY <3>1, <3>2, <4>1
        <4>2. CASE y # x
          BY <3>1, <3>3, <4>2
        <4>3. QED
          BY <4>1, <4>2
      <3>6. QED
        BY <3>4, <3>5 DEF NonceLogIsExact
    <2>12. CASE CommitTransaction(t)
      <3> DEFINE x == sender(cur[t])
                 n == nonces[x]
      <3>1. /\ cur[t] \in Hash /\ x \in Addr /\ pc[t] = "commit" /\ lock[x] = t
            /\ pc' = [pc EXCEPT ![t] = "depth"] /\ cur' = cur /\ nonces' = nonces
            /\ Tx[cur[t]].nonce = n /\ n > 0 /\ n \in Nat
        BY <2>12 DEF CommitTransaction, LockInv, NonceInv, Holding, Applying
      <3>2. CommitPending(x) /\ ~CommitPending(x)'
        BY <3>1 DEF CommitPending, LockInv, Holding, Applying
      <3>3. \A y \in Addr \ {x} : CommitPending(y)' <=> CommitPending(y)
        BY <3>1 DEF CommitPending
      <3>4. {Tx[c].nonce : c \in CommittedBy(x)} = 1 .. (n - 1)
        BY <3>1, <3>2 DEF NonceLogIsExact
      <3>5. \A c \in CommittedBy(x) : Tx[c].nonce # n
        BY <3>1, <3>4
      <3>6. committed' = committed \cup {cur[t]}
        BY <2>12, <3>1, <3>5 DEF CommitTransaction, CommittedBy, NonceKey, sender
      <3>7. CommittedBy(x)' = CommittedBy(x) \cup {cur[t]}
        BY <3>1, <3>6 DEF CommittedBy
      <3>8. \A y \in Addr \ {x} : CommittedBy(y)' = CommittedBy(y)
        BY <3>1, <3>6 DEF CommittedBy
      <3>9. {Tx[c].nonce : c \in CommittedBy(x)'} = 1 .. n
        <4>1. {Tx[c].nonce : c \in CommittedBy(x)'} = (1 .. (n - 1)) \cup {n}
          <5>1. {Tx[c].nonce : c \in CommittedBy(x)'}
                  = {Tx[c].nonce : c \in CommittedBy(x)} \cup {Tx[cur[t]].nonce}
            BY <3>7, Zenon
          <5>2. QED
            BY <3>1, <3>4, <5>1
        <4>2. QED
          BY ONLY <3>1, <4>1, IntervalAppend
      <3>10. \A c, d \in CommittedBy(x)' : Tx[c].nonce = Tx[d].nonce => c = d
        BY <3>1, <3>5, <3>7 DEF NonceLogIsExact
      <3>11. QED
        BY <3>1, <3>2, <3>3, <3>8, <3>9, <3>10 DEF NonceLogIsExact
    <2>13. CASE ComputeDepth(t)
      BY <2>13 DEF ComputeDepth
    <2>14. CASE LoadMaxDepth(t)
      BY <2>14 DEF LoadMaxDepth
    <2>15. CASE SwapMaxDepth(t)
      BY <2>15 DEF SwapMaxDepth
    <2>16. CASE LinkParents(t)
      BY <2>16 DEF LinkParents
    <2>17. CASE RemoveTips(t)
      BY <2>17 DEF RemoveTips
    <2>18. CASE AddTip(t)
      BY <2>18 DEF AddTip
    <2>19. CASE StoreNode(t)
      BY <2>19 DEF StoreNode
    <2>20. CASE Finish(t)
      BY <2>20 DEF Finish
    <2>21. CASE Broadcast(t)
      BY <2>21 DEF Broadcast
    <2>22. QED
      BY <1>4, <2>1, <2>2, <2>3, <2>4, <2>5, <2>6, <2>7, <2>8, <2>9, <2>10, <2>11, <2>12,
         <2>13, <2>14, <2>15, <2>16, <2>17, <2>18, <2>19, <2>20, <2>21 DEF Step
  <1>5. ASSUME NEW h \in Hash, NEW s \in Reported, SetStatus(h, s) PROVE NonceLogIsExact'
    BY <1>5 DEF SetStatus
  <1>6. ASSUME NEW h \in Hash, Prune(h) PROVE NonceLogIsExact'
    BY <1>6 DEF Prune
  <1>7. CASE UNCHANGED vars
    BY <1>7 DEF vars
  <1>8. QED
    BY <1>1, <1>2, <1>3, <1>4, <1>5, <1>6, <1>7 DEF Next

\* Used nonces are positive, so no genesis transaction is in the log.
LEMMA CommittedNonce ==
    ASSUME TypeOK, NonceLogIsExact, NEW c \in committed
    PROVE  c \in Hash /\ Tx[c].nonce > 0 /\ c \notin Genesis
  <1> DEFINE x == sender(c)
  <1>1. c \in Hash /\ x \in Addr /\ c \in CommittedBy(x) /\ nonces[x] \in Nat
    BY TxTypes DEF TypeOK, CommittedBy
  <1>2. Tx[c].nonce \in 1 .. (IF CommitPending(x) THEN nonces[x] - 1 ELSE nonces[x])
    BY <1>1 DEF NonceLogIsExact
  <1>3. Tx[c].nonce > 0
    BY <1>1, <1>2
  <1>4. QED
    BY <1>1, <1>3, GenesisAssumption

\* The transaction a thread is about to commit has a nonce key of its own.
LEMMA CommitIsFresh ==
    ASSUME TypeOK, LockInv, NonceInv, NonceLogIsExact, NEW t \in Thread, pc[t] = "commit",
           NEW c \in committed
    PROVE  NonceKey(c) # NonceKey(cur[t])
  <1> DEFINE x == sender(cur[t])
  <1>1. /\ cur[t] \in Hash /\ x \in Addr /\ CommitPending(x) /\ nonces[x] \in Nat
        /\ Tx[cur[t]].nonce = nonces[x]
    BY TxTypes DEF TypeOK, CommitPending, NonceInv
  <1>2. CASE sender(c) = x
    <2>1. Tx[c].nonce \in 1 .. (nonces[x] - 1)
      BY <1>1, <1>2 DEF NonceLogIsExact, CommittedBy
    <2>2. QED
      BY <1>1, <2>1 DEF NonceKey
  <1>3. CASE sender(c) # x
    BY <1>3 DEF NonceKey, sender
  <1>4. QED
    BY <1>2, <1>3

\* A transaction being woven in is not settled yet.
LEMMA WeavingIsUnsettled ==
    ASSUME TypeOK, NonceInv, NonceLogIsExact, NEW t \in Thread, pc[t] \in Weaving
    PROVE  cur[t] \notin Settled
  BY CommittedNonce DEF NonceInv, Settled

\* Once settled, a transaction stays settled: it is never inserted again.
LEMMA SettledStable ==
    ASSUME TypeOK, LockInv, NonceInv, NonceLogIsExact, [Next]_vars,
           NEW q \in Settled
    PROVE  q \in Settled'
  <1> USE DEF TypeOK, Settled, Weaving, locals, ledger, graph
  <1>1. ASSUME NEW h \in Hash, InsertGenesis(h) PROVE q \in Settled'
    BY <1>1 DEF InsertGenesis
  <1>2. ASSUME NEW t \in Thread, NEW h \in Hash, NEW e \in Entry, Submit(t, h, e)
        PROVE  q \in Settled'
    BY <1>2 DEF Submit, StartScan, NoScan
  <1>3. ASSUME NEW t \in Thread, AcquireLock(t) PROVE q \in Settled'
    BY <1>3 DEF AcquireLock
  <1>4. ASSUME NEW t \in Thread, Step(t) PROVE q \in Settled'
    <2>1. ASSUME NEW a \in Addr, ScanBalance(t, a) PROVE q \in Settled'
      BY <2>1 DEF ScanBalance
    <2>2. CASE NodeSupplyCheck(t)
      BY <2>2 DEF NodeSupplyCheck, EndScan, Fail, Pass
    <2>3. CASE PreCheck(t)
      BY <2>3 DEF PreCheck, NoScan, Fail, Pass
    <2>4. CASE DuplicateCheck(t)
      BY <2>4 DEF DuplicateCheck, NoScan, StartScan, FailLocked, Pass
    <2>5. CASE ParentCheck1(t)
      BY <2>5 DEF ParentCheck1, NoScan, FailLocked, Pass
    <2>6. CASE ParentCheck2(t)
      BY <2>6 DEF ParentCheck2, NoScan, StartScan, FailLocked, Pass
    <2>7. CASE DagSupplyCheck(t)
      BY <2>7 DEF DagSupplyCheck, EndScan, FailLocked, Pass
    <2>8. CASE BalanceAndNonceCheck(t)
      BY <2>8 DEF BalanceAndNonceCheck, NoScan, FailLocked, Pass
    <2>9. CASE Debit(t)
      BY <2>9 DEF Debit, NoScan, FailLocked
    <2>10. CASE Credit(t)
      BY <2>10 DEF Credit
    <2>11. CASE IncrementNonce(t)
      BY <2>11 DEF IncrementNonce
    <2>12. CASE CommitTransaction(t)
      BY <2>12, CommitIsFresh DEF CommitTransaction
    <2>13. CASE ComputeDepth(t)
      BY <2>13 DEF ComputeDepth
    <2>14. CASE LoadMaxDepth(t)
      BY <2>14 DEF LoadMaxDepth
    <2>15. CASE SwapMaxDepth(t)
      BY <2>15 DEF SwapMaxDepth
    <2>16. CASE LinkParents(t)
      BY <2>16 DEF LinkParents
    <2>17. CASE RemoveTips(t)
      BY <2>17 DEF RemoveTips
    <2>18. CASE AddTip(t)
      BY <2>18 DEF AddTip
    <2>19. CASE StoreNode(t)
      BY <2>19 DEF StoreNode
    <2>20. CASE Finish(t)
      BY <2>20 DEF Finish
    <2>21. CASE Broadcast(t)
      BY <2>21 DEF Broadcast
    <2>22. QED
      BY <1>4, <2>1, <2>2, <2>3, <2>4, <2>5, <2>6, <2>7, <2>8, <2>9, <2>10, <2>11, <2>12,
         <2>13, <2>14, <2>15, <2>16, <2>17, <2>18, <2>19, <2>20, <2>21 DEF Step
  <1>5. ASSUME NEW h \in Hash, NEW s \in Reported, SetStatus(h, s) PROVE q \in Settled'
    BY <1>5 DEF SetStatus
  <1>6. ASSUME NEW h \in Hash, Prune(h) PROVE q \in Settled'
    BY <1>6 DEF Prune
  <1>7. CASE UNCHANGED vars
    BY <1>7 DEF vars
  <1>8. QED
    BY <1>1, <1>2, <1>3, <1>4, <1>5, <1>6, <1>7 DEF Next

\* Stored nodes and the parents of a transaction in progress stay settled.
LEMMA NextSettledInv ==
    ASSUME TypeOK, TypeOK', LockInv, BootInv, NonceInv, NonceLogIsExact,
           SettledInv, [Next]_vars
    PROVE  SettledInv'
  <1>0. Settled \subseteq Settled'
    BY SettledStable
  <1> USE <1>0, TxTypes, TxAssumption DEF TypeOK, SettledInv, HasParents, Parents, Holding, BeforeDebit, BeforeLock, Applying,
             Weaving, locals, ledger, graph
  <1>1. ASSUME NEW h \in Hash, InsertGenesis(h) PROVE SettledInv'
    <2>1. h \in Settled' /\ Parents(h) \cap Hash = {} /\ nodes' = nodes \cup {h}
      BY <1>1, GenesisAssumption DEF InsertGenesis, Settled
    <2>2. pc' = pc /\ cur' = cur
      BY <1>1 DEF InsertGenesis
    <2>3. QED
      BY <2>1, <2>2
  <1>2. ASSUME NEW t \in Thread, NEW h \in Hash, NEW e \in Entry, Submit(t, h, e)
        PROVE  SettledInv'
    BY <1>2 DEF Submit, StartScan, NoScan
  <1>3. ASSUME NEW t \in Thread, AcquireLock(t) PROVE SettledInv'
    BY <1>3 DEF AcquireLock
  <1>4. ASSUME NEW t \in Thread, Step(t) PROVE SettledInv'
    <2>1. ASSUME NEW a \in Addr, ScanBalance(t, a) PROVE SettledInv'
      BY <2>1 DEF ScanBalance
    <2>2. CASE NodeSupplyCheck(t)
      BY <2>2 DEF NodeSupplyCheck, EndScan, Fail, Pass
    <2>3. CASE PreCheck(t)
      BY <2>3 DEF PreCheck, NoScan, Fail, Pass
    <2>4. CASE DuplicateCheck(t)
      BY <2>4 DEF DuplicateCheck, NoScan, StartScan, FailLocked, Pass, is_genesis
    <2>5. CASE ParentCheck1(t)
      BY <2>5 DEF ParentCheck1, NoScan, FailLocked, Pass
    <2>6. CASE ParentCheck2(t)
      BY <2>6 DEF ParentCheck2, NoScan, StartScan, FailLocked, Pass
    <2>7. CASE DagSupplyCheck(t)
      BY <2>7 DEF DagSupplyCheck, EndScan, FailLocked, Pass
    <2>8. CASE BalanceAndNonceCheck(t)
      BY <2>8 DEF BalanceAndNonceCheck, NoScan, FailLocked, Pass
    <2>9. CASE Debit(t)
      BY <2>9 DEF Debit, NoScan, FailLocked
    <2>10. CASE Credit(t)
      BY <2>10 DEF Credit
    <2>11. CASE IncrementNonce(t)
      BY <2>11 DEF IncrementNonce
    <2>12. CASE CommitTransaction(t)
      BY <2>12 DEF CommitTransaction
    <2>13. CASE ComputeDepth(t)
      BY <2>13 DEF ComputeDepth
    <2>14. CASE LoadMaxDepth(t)
      BY <2>14 DEF LoadMaxDepth
    <2>15. CASE SwapMaxDepth(t)
      BY <2>15 DEF SwapMaxDepth
    <2>16. CASE LinkParents(t)
      BY <2>16 DEF LinkParents
    <2>17. CASE RemoveTips(t)
      BY <2>17 DEF RemoveTips
    <2>18. CASE AddTip(t)
      BY <2>18 DEF AddTip
    <2>19. CASE StoreNode(t)
      <3>1. cur[t] \in Settled'
        <4>1. \A u \in Thread : u # t /\ pc[u] \in Weaving => cur[u] # cur[t]
          BY <2>19 DEF StoreNode, LockInv
        <4>2. cur[t] \in committed
          BY <2>19 DEF StoreNode, NonceInv
        <4>3. QED
          BY <2>19, <4>1, <4>2 DEF StoreNode, Settled
      <3>2. Parents(cur[t]) \cap Hash \subseteq Settled
        BY <2>19 DEF StoreNode
      <3>3. nodes' = nodes \cup {cur[t]} /\ cur' = cur
        BY <2>19 DEF StoreNode
      <3>4. \A u \in Thread : pc'[u] = pc[u] \/ pc'[u] = "count"
        BY <2>19 DEF StoreNode
      <3>5. QED
        BY <3>1, <3>2, <3>3, <3>4
    <2>20. CASE Finish(t)
      BY <2>20 DEF Finish
    <2>21. CASE Broadcast(t)
      BY <2>21 DEF Broadcast
    <2>22. QED
      BY <1>4, <2>1, <2>2, <2>3, <2>4, <2>5, <2>6, <2>7, <2>8, <2>9, <2>10, <2>11, <2>12,
         <2>13, <2>14, <2>15, <2>16, <2>17, <2>18, <2>19, <2>20, <2>21 DEF Step
  <1>5. ASSUME NEW h \in Hash, NEW s \in Reported, SetStatus(h, s) PROVE SettledInv'
    BY <1>5 DEF SetStatus
  <1>6. ASSUME NEW h \in Hash, Prune(h) PROVE SettledInv'
    BY <1>6 DEF Prune
  <1>7. CASE UNCHANGED vars
    BY <1>7 DEF vars
  <1>8. QED
    BY <1>1, <1>2, <1>3, <1>4, <1>5, <1>6, <1>7 DEF Next

\* Stored nodes and parents are settled; what is being woven in is not.
LEMMA SettledFacts ==
    ASSUME TypeOK, NonceInv, NonceLogIsExact, SettledInv
    PROVE  /\ \A q \in nodes : q \in Settled /\ Parents(q) \cap Hash \subseteq Settled
           /\ \A u \in Thread : pc[u] \in Weaving =>
                 /\ cur[u] \in Hash \ Settled
                 /\ Parents(cur[u]) \cap Hash \subseteq Settled
           /\ boot \cap Settled = {}
  <1>1. \A u \in Thread : pc[u] \in Weaving => cur[u] \notin Settled /\ pc[u] # "idle"
    BY WeavingIsUnsettled DEF Weaving
  <1>2. boot \cap Settled = {}
    BY CommittedNonce DEF TypeOK, Settled
  <1>3. QED
    BY <1>1, <1>2 DEF TypeOK, SettledInv, HasParents

\* What linking does to the stored nodes.
LEMMA LinkEffect ==
    ASSUME TypeOK, NEW t \in Thread, LinkParents(t), NEW p \in Hash
    PROVE  /\ info'[p].depth = info[p].depth
           /\ info[p].children # {} => info'[p].children # {}
           /\ p \in Parents(cur[t]) \cap nodes => info'[p].children # {}
  <1>1. /\ cur[t] \in Hash /\ Times(cur[t]) \in Nat /\ info[p] \in NodeInfo
        /\ info'[p] = IF p \in Parents(cur[t]) \cap nodes
                      THEN Linked(info[p], cur[t], Times(cur[t])) ELSE info[p]
    BY TimesType DEF LinkParents, TypeOK
  <1>2. QED
    BY <1>1, LinkedTypes

\* The tips depend only on the graph and on the threads about to change it.
LEMMA TipFrame ==
    ASSUME TipInv, UNCHANGED <<nodes, info, tips>>,
           \A u \in Thread : pc'[u] \in {"untip", "tip", "store"} =>
                                pc'[u] = pc[u] /\ cur'[u] = cur[u]
    PROVE  TipInv'
  BY DEF TipInv, TipsAreUnreferenced, FrontierIsComplete, Parents

\* Every step keeps the tips unreferenced and the frontier complete.
LEMMA NextTipInv ==
    ASSUME TypeOK, TypeOK', LockInv, BootInv, NonceInv, NonceLogIsExact,
           SettledInv, TipInv, [Next]_vars
    PROVE  TipInv'
  <1>0. /\ \A q \in nodes : q \in Settled /\ Parents(q) \cap Hash \subseteq Settled
        /\ \A u \in Thread : pc[u] \in Weaving =>
              cur[u] \in Hash \ Settled /\ Parents(cur[u]) \cap Hash \subseteq Settled
        /\ boot \cap Settled = {}
    BY SettledFacts
  <1> USE DEF TypeOK, locals, ledger, graph
  <1>1. ASSUME NEW h \in Hash, InsertGenesis(h) PROVE TipInv'
    <2>1. /\ Parents(h) \cap Hash = {} /\ h \in boot
          /\ nodes' = nodes \cup {h} /\ tips' = tips \cup {h}
          /\ \A q \in nodes : q # h => info'[q] = info[q]
      BY <1>1, GenesisAssumption, TxAssumption DEF InsertGenesis, Parents
    <2>2. \A u \in Thread : pc'[u] = "idle"
      BY <1>1 DEF InsertGenesis, BootInv
    <2>3. TipsAreUnreferenced'
      BY <1>0, <2>1 DEF TipInv, TipsAreUnreferenced, Parents
    <2>4. FrontierIsComplete'
      BY <2>1 DEF TipInv, FrontierIsComplete
    <2>5. QED
      BY <2>2, <2>3, <2>4 DEF TipInv
  <1>2. ASSUME NEW t \in Thread, NEW h \in Hash, NEW e \in Entry, Submit(t, h, e)
        PROVE  TipInv'
    BY <1>2, TipFrame DEF Submit, StartScan, NoScan
  <1>3. ASSUME NEW t \in Thread, AcquireLock(t) PROVE TipInv'
    BY <1>3, TipFrame DEF AcquireLock
  <1>4. ASSUME NEW t \in Thread, Step(t) PROVE TipInv'
    <2>1. ASSUME NEW a \in Addr, ScanBalance(t, a) PROVE TipInv'
      BY <2>1, TipFrame DEF ScanBalance
    <2>2. CASE NodeSupplyCheck(t)
      BY <2>2, TipFrame DEF NodeSupplyCheck, EndScan, Fail, Pass
    <2>3. CASE PreCheck(t)
      BY <2>3, TipFrame DEF PreCheck, NoScan, Fail, Pass
    <2>4. CASE DuplicateCheck(t)
      BY <2>4, TipFrame DEF DuplicateCheck, NoScan, StartScan, FailLocked, Pass
    <2>5. CASE ParentCheck1(t)
      BY <2>5, TipFrame DEF ParentCheck1, NoScan, FailLocked, Pass
    <2>6. CASE ParentCheck2(t)
      BY <2>6, TipFrame DEF ParentCheck2, NoScan, StartScan, FailLocked, Pass
    <2>7. CASE DagSupplyCheck(t)
      BY <2>7, TipFrame DEF DagSupplyCheck, EndScan, FailLocked, Pass
    <2>8. CASE BalanceAndNonceCheck(t)
      BY <2>8, TipFrame DEF BalanceAndNonceCheck, NoScan, FailLocked, Pass
    <2>9. CASE Debit(t)
      BY <2>9, TipFrame DEF Debit, NoScan, FailLocked
    <2>10. CASE Credit(t)
      BY <2>10, TipFrame DEF Credit
    <2>11. CASE IncrementNonce(t)
      BY <2>11, TipFrame DEF IncrementNonce
    <2>12. CASE CommitTransaction(t)
      BY <2>12, TipFrame DEF CommitTransaction
    <2>13. CASE ComputeDepth(t)
      BY <2>13, TipFrame DEF ComputeDepth
    <2>14. CASE LoadMaxDepth(t)
      BY <2>14, TipFrame DEF LoadMaxDepth
    <2>15. CASE SwapMaxDepth(t)
      BY <2>15, TipFrame DEF SwapMaxDepth
    <2>16. CASE LinkParents(t)
      <3>1. \A p \in Hash : info[p].children # {} => info'[p].children # {}
        BY <2>16, LinkEffect
      <3>2. \A p \in Parents(cur[t]) \cap nodes : info'[p].children # {}
        BY <2>16, LinkEffect
      <3>3. UNCHANGED <<nodes, tips, cur>> /\ pc' = [pc EXCEPT ![t] = "untip"]
        BY <2>16 DEF LinkParents
      <3>4. QED
        BY <3>1, <3>2, <3>3 DEF TipInv, TipsAreUnreferenced, FrontierIsComplete, Parents
    <2>17. CASE RemoveTips(t)
      <3>1. /\ pc[t] = "untip" /\ pc' = [pc EXCEPT ![t] = "tip"] /\ tips' = tips \ Parents(cur[t])
            /\ UNCHANGED <<nodes, info, cur>>
        BY <2>17 DEF RemoveTips
      <3>2. \A u \in Thread : pc[u] = "store" => cur[u] \notin Parents(cur[t])
        BY <1>0, <3>1 DEF Weaving
      <3>3. TipsAreUnreferenced'
        BY <3>1, <3>2 DEF TipInv, TipsAreUnreferenced, Parents
      <3>4. FrontierIsComplete'
        BY <3>1, <3>2 DEF TipInv, FrontierIsComplete, Parents
      <3>5. \A u \in Thread :
              /\ pc'[u] = "untip" => \A p \in Parents(cur'[u]) \cap nodes' : info'[p].children # {}
              /\ pc'[u] \in {"tip", "store"} => Parents(cur'[u]) \cap tips' = {}
              /\ pc'[u] = "store" => cur'[u] \in tips'
        BY <3>1, <3>2 DEF TipInv, Parents
      <3>6. QED
        BY <3>3, <3>4, <3>5 DEF TipInv, Parents
    <2>18. CASE AddTip(t)
      <3>1. /\ pc[t] = "tip" /\ pc' = [pc EXCEPT ![t] = "store"] /\ tips' = tips \cup {cur[t]}
            /\ UNCHANGED <<nodes, info, cur>>
        BY <2>18 DEF AddTip
      <3>2. /\ \A q \in nodes : cur[t] \notin Parents(q)
            /\ \A u \in Thread : pc[u] \in {"tip", "store"} => cur[t] \notin Parents(cur[u])
        BY <1>0, <3>1 DEF Weaving
      <3>3. TipsAreUnreferenced'
        BY <3>1, <3>2 DEF TipInv, TipsAreUnreferenced, Parents
      <3>4. FrontierIsComplete'
        BY <3>1, <3>2 DEF TipInv, FrontierIsComplete, Parents
      <3>5. \A u \in Thread :
              /\ pc'[u] = "untip" => \A p \in Parents(cur'[u]) \cap nodes' : info'[p].children # {}
              /\ pc'[u] \in {"tip", "store"} => Parents(cur'[u]) \cap tips' = {}
              /\ pc'[u] = "store" => cur'[u] \in tips'
        BY <3>1, <3>2 DEF TipInv, Parents
      <3>6. QED
        BY <3>3, <3>4, <3>5 DEF TipInv, Parents
    <2>19. CASE StoreNode(t)
      <3>1. /\ pc[t] = "store" /\ pc' = [pc EXCEPT ![t] = "count"] /\ nodes' = nodes \cup {cur[t]}
            /\ \A q \in Hash : q # cur[t] => info'[q] = info[q]
            /\ UNCHANGED <<tips, cur>>
        BY <2>19 DEF StoreNode
      <3>2. /\ cur[t] \notin nodes
            /\ \A u \in Thread : pc[u] = "untip" => cur[t] \notin Parents(cur[u])
        BY <1>0, <3>1 DEF Weaving
      <3>3. TipsAreUnreferenced'
        BY <3>1, <3>2 DEF TipInv, TipsAreUnreferenced, Parents
      <3>4. FrontierIsComplete'
        BY <3>1, <3>2 DEF TipInv, FrontierIsComplete, Parents
      <3>5. \A u \in Thread :
              /\ pc'[u] = "untip" => \A p \in Parents(cur'[u]) \cap nodes' : info'[p].children # {}
              /\ pc'[u] \in {"tip", "store"} => Parents(cur'[u]) \cap tips' = {}
              /\ pc'[u] = "store" => cur'[u] \in tips'
        BY <3>1, <3>2 DEF TipInv, Parents
      <3>6. QED
        BY <3>3, <3>4, <3>5 DEF TipInv, Parents
    <2>20. CASE Finish(t)
      BY <2>20, TipFrame DEF Finish
    <2>21. CASE Broadcast(t)
      BY <2>21, TipFrame DEF Broadcast
    <2>22. QED
      BY <1>4, <2>1, <2>2, <2>3, <2>4, <2>5, <2>6, <2>7, <2>8, <2>9, <2>10, <2>11, <2>12,
         <2>13, <2>14, <2>15, <2>16, <2>17, <2>18, <2>19, <2>20, <2>21 DEF Step
  <1>5. ASSUME NEW h \in Hash, NEW s \in Reported, SetStatus(h, s) PROVE TipInv'
    <2>1. /\ \A q \in Hash : info'[q].children = info[q].children
          /\ UNCHANGED <<nodes, tips, pc, cur>>
      BY <1>5 DEF SetStatus, NodeInfo
    <2>2. QED
      BY <2>1 DEF TipInv, TipsAreUnreferenced, FrontierIsComplete, Parents
  <1>6. ASSUME NEW h \in Hash, Prune(h) PROVE TipInv'
    <2>1. /\ nodes' = nodes \ {h} /\ \A q \in Hash : q # h => info'[q] = info[q]
          /\ UNCHANGED <<tips, pc, cur>>
      BY <1>6 DEF Prune
    <2>2. QED
      BY <2>1 DEF TipInv, TipsAreUnreferenced, FrontierIsComplete, Parents
  <1>7. CASE UNCHANGED vars
    BY <1>7, TipFrame DEF vars
  <1>8. QED
    BY <1>1, <1>2, <1>3, <1>4, <1>5, <1>6, <1>7 DEF Next

\* Depths depend only on the graph and on what the weaving threads computed.
LEMMA DepthFrame ==
    ASSUME DepthInv, UNCHANGED <<nodes, info, max_depth>>,
           \A u \in Thread : pc'[u] \in Weaving \ {"depth"} =>
              pc'[u] = pc[u] /\ cur'[u] = cur[u] /\ depth'[u] = depth[u]
                             /\ current_max'[u] = current_max[u]
    PROVE  DepthInv'
  BY DEF DepthInv, DepthFollowsParents, MaxDepthIsBound, Parents, Weaving

\* Every step keeps depths increasing along edges and below max_depth.
LEMMA NextDepthInv ==
    ASSUME TypeOK, TypeOK', LockInv, BootInv, NonceInv, NonceLogIsExact,
           SettledInv, DepthInv, [Next]_vars
    PROVE  DepthInv'
  <1>0. /\ \A q \in nodes : q \in Settled /\ Parents(q) \cap Hash \subseteq Settled
        /\ \A u \in Thread : pc[u] \in Weaving =>
              cur[u] \in Hash \ Settled /\ Parents(cur[u]) \cap Hash \subseteq Settled
        /\ boot \cap Settled = {}
    BY SettledFacts
  <1> USE DEF TypeOK, Weaving, locals, ledger, graph
  <1>1. ASSUME NEW h \in Hash, InsertGenesis(h) PROVE DepthInv'
    <2>1. /\ Parents(h) \cap Hash = {} /\ h \in boot
          /\ nodes' = nodes \cup {h} /\ max_depth' = max_depth
          /\ \A q \in nodes : q # h => info'[q] = info[q]
          /\ info'[h].depth = 0
      BY <1>1, GenesisAssumption, TxAssumption DEF InsertGenesis, Parents, NewNode
    <2>2. \A u \in Thread : pc'[u] = "idle"
      BY <1>1 DEF InsertGenesis, BootInv
    <2>3. DepthFollowsParents'
      BY <1>0, <2>1 DEF DepthInv, DepthFollowsParents, Parents
    <2>4. MaxDepthIsBound'
      BY <2>1 DEF DepthInv, MaxDepthIsBound
    <2>5. QED
      BY <2>2, <2>3, <2>4 DEF DepthInv
  <1>2. ASSUME NEW t \in Thread, NEW h \in Hash, NEW e \in Entry, Submit(t, h, e)
        PROVE  DepthInv'
    BY <1>2, DepthFrame DEF Submit, StartScan, NoScan
  <1>3. ASSUME NEW t \in Thread, AcquireLock(t) PROVE DepthInv'
    BY <1>3, DepthFrame DEF AcquireLock
  <1>4. ASSUME NEW t \in Thread, Step(t) PROVE DepthInv'
    <2>1. ASSUME NEW a \in Addr, ScanBalance(t, a) PROVE DepthInv'
      BY <2>1, DepthFrame DEF ScanBalance
    <2>2. CASE NodeSupplyCheck(t)
      BY <2>2, DepthFrame DEF NodeSupplyCheck, EndScan, Fail, Pass
    <2>3. CASE PreCheck(t)
      BY <2>3, DepthFrame DEF PreCheck, NoScan, Fail, Pass
    <2>4. CASE DuplicateCheck(t)
      BY <2>4, DepthFrame DEF DuplicateCheck, NoScan, StartScan, FailLocked, Pass
    <2>5. CASE ParentCheck1(t)
      BY <2>5, DepthFrame DEF ParentCheck1, NoScan, FailLocked, Pass
    <2>6. CASE ParentCheck2(t)
      BY <2>6, DepthFrame DEF ParentCheck2, NoScan, StartScan, FailLocked, Pass
    <2>7. CASE DagSupplyCheck(t)
      BY <2>7, DepthFrame DEF DagSupplyCheck, EndScan, FailLocked, Pass
    <2>8. CASE BalanceAndNonceCheck(t)
      BY <2>8, DepthFrame DEF BalanceAndNonceCheck, NoScan, FailLocked, Pass
    <2>9. CASE Debit(t)
      BY <2>9, DepthFrame DEF Debit, NoScan, FailLocked
    <2>10. CASE Credit(t)
      BY <2>10, DepthFrame DEF Credit
    <2>11. CASE IncrementNonce(t)
      BY <2>11, DepthFrame DEF IncrementNonce
    <2>12. CASE CommitTransaction(t)
      BY <2>12, DepthFrame DEF CommitTransaction
    <2>13. CASE ComputeDepth(t)
      <3>1. /\ pc[t] = "depth" /\ pc' = [pc EXCEPT ![t] = "maxload"]
            /\ UNCHANGED <<nodes, info, max_depth, cur, current_max>>
            /\ \A u \in Thread : u # t => depth'[u] = depth[u]
        BY <2>13 DEF ComputeDepth
      <3>2. \A p \in Parents(cur[t]) \cap nodes : info[p].depth < depth'[t]
        BY <2>13, TxAssumption DEF ComputeDepth, Parents, DepthOf, MaxOf, NodeInfo, is_genesis
      <3>3. QED
        BY <3>1, <3>2 DEF DepthInv, DepthFollowsParents, MaxDepthIsBound, Parents
    <2>14. CASE LoadMaxDepth(t)
      BY <2>14 DEF LoadMaxDepth, DepthInv, DepthFollowsParents, MaxDepthIsBound, Parents
    <2>15. CASE SwapMaxDepth(t)
      <3>1. max_depth' >= max_depth /\ max_depth' \in Nat
        BY <2>15 DEF SwapMaxDepth, DepthInv
      <3>2. /\ pc[t] = "maxcas" /\ UNCHANGED <<nodes, info, cur, depth>>
            /\ \A u \in Thread : u # t => pc'[u] = pc[u] /\ current_max'[u] = current_max[u]
            /\ pc'[t] = "maxload" \/ (pc'[t] = "link" /\ max_depth' = depth[t])
        BY <2>15 DEF SwapMaxDepth
      <3>3. MaxDepthIsBound'
        BY <3>1, <3>2 DEF DepthInv, MaxDepthIsBound, NodeInfo
      <3>4. QED
        BY <3>1, <3>2, <3>3 DEF DepthInv, DepthFollowsParents, Parents
    <2>16. CASE LinkParents(t)
      <3>1. /\ pc[t] = "link" /\ pc' = [pc EXCEPT ![t] = "untip"]
            /\ UNCHANGED <<nodes, max_depth, cur, depth, current_max>>
        BY <2>16 DEF LinkParents
      <3>2. \A p \in Hash : info'[p].depth = info[p].depth
        BY <2>16, LinkEffect
      <3>3. QED
        BY <3>1, <3>2 DEF DepthInv, DepthFollowsParents, MaxDepthIsBound, Parents
    <2>17. CASE RemoveTips(t)
      BY <2>17 DEF RemoveTips, DepthInv, DepthFollowsParents, MaxDepthIsBound, Parents
    <2>18. CASE AddTip(t)
      BY <2>18 DEF AddTip, DepthInv, DepthFollowsParents, MaxDepthIsBound, Parents
    <2>19. CASE StoreNode(t)
      <3>1. /\ pc[t] = "store" /\ pc' = [pc EXCEPT ![t] = "count"] /\ nodes' = nodes \cup {cur[t]}
            /\ \A q \in Hash : q # cur[t] => info'[q] = info[q]
            /\ info'[cur[t]].depth = depth[t]
            /\ \A u \in Thread : u # t => depth'[u] = depth[u]
            /\ UNCHANGED <<max_depth, cur, current_max>>
        BY <2>19 DEF StoreNode, NewNode
      <3>2. /\ cur[t] \in Hash \ nodes /\ cur[t] \notin Parents(cur[t])
            /\ \A q \in nodes : cur[t] \notin Parents(q)
            /\ \A u \in Thread : pc[u] \in Weaving => cur[t] \notin Parents(cur[u])
        BY <1>0, <3>1 DEF Weaving
      <3>3. DepthFollowsParents'
        BY <3>1, <3>2 DEF DepthInv, DepthFollowsParents, Parents
      <3>4. MaxDepthIsBound'
        BY <3>1, <3>2 DEF DepthInv, MaxDepthIsBound
      <3>5. QED
        BY <3>1, <3>2, <3>3, <3>4 DEF DepthInv, Parents
    <2>20. CASE Finish(t)
      BY <2>20, DepthFrame DEF Finish
    <2>21. CASE Broadcast(t)
      BY <2>21, DepthFrame DEF Broadcast
    <2>22. QED
      BY <1>4, <2>1, <2>2, <2>3, <2>4, <2>5, <2>6, <2>7, <2>8, <2>9, <2>10, <2>11, <2>12,
         <2>13, <2>14, <2>15, <2>16, <2>17, <2>18, <2>19, <2>20, <2>21 DEF Step
  <1>5. ASSUME NEW h \in Hash, NEW s \in Reported, SetStatus(h, s) PROVE DepthInv'
    <2>1. /\ \A q \in Hash : info'[q].depth = info[q].depth
          /\ UNCHANGED <<nodes, max_depth, pc, cur, depth, current_max>>
      BY <1>5 DEF SetStatus, NodeInfo
    <2>2. QED
      BY <2>1 DEF DepthInv, DepthFollowsParents, MaxDepthIsBound, Parents
  <1>6. ASSUME NEW h \in Hash, Prune(h) PROVE DepthInv'
    <2>1. /\ nodes' = nodes \ {h} /\ \A q \in Hash : q # h => info'[q] = info[q]
          /\ UNCHANGED <<max_depth, pc, cur, depth, current_max>>
      BY <1>6 DEF Prune
    <2>2. QED
      BY <2>1 DEF DepthInv, DepthFollowsParents, MaxDepthIsBound, Parents
  <1>7. CASE UNCHANGED vars
    BY <1>7, DepthFrame DEF vars
  <1>8. QED
    BY <1>1, <1>2, <1>3, <1>4, <1>5, <1>6, <1>7 DEF Next

-----------------------------------------------------------------------------
(***************************************************************************)
(* The ledger replays its log: a debit adds a transaction to the debited   *)
(* ones, a credit or insert_genesis one to the received ones, and each is  *)
(* new there.                                                              *)
(***************************************************************************)
\* Two threads in the critical section of one sender are the same thread.
LEMMA OneHolder ==
    ASSUME TypeOK, LockInv, NEW t \in Thread, NEW u \in Thread,
           pc[t] \in Holding, pc[u] \in Holding, sender(cur[t]) = sender(cur[u])
    PROVE  t = u
  BY DEF LockInv

\* Amounts and debits are natural numbers, and a debit covers its amount.
LEMMA AmountTypes ==
    ASSUME NEW h \in Hash
    PROVE  /\ Amounts[h] = Tx[h].amount /\ Debits[h] = total_debit(h)
           /\ Amounts[h] \in Nat /\ Debits[h] \in Nat /\ Amounts[h] <= Debits[h]
  BY TxTypes DEF Amounts, Debits, total_debit

\* What was credited was debited, and all of it are transactions.
LEMMA LogTypes ==
    ASSUME TypeOK
    PROVE  AbsApplied \subseteq Debited /\ Debited \subseteq Hash /\ Received \subseteq Hash
  BY GenesisAssumption DEF TypeOK, AbsApplied, Debited, Received, Applying

\* A transaction whose nonce is next has not been applied yet.
LEMMA NextIsFresh ==
    ASSUME TypeOK, LockInv, NonceInv, NonceLogIsExact, NEW t \in Thread,
           pc[t] \in {"debit", "credit"}
    PROVE  /\ cur[t] \in Hash /\ cur[t] \notin Genesis /\ cur[t] \notin committed
           /\ \A u \in Thread : u # t /\ pc[u] \in Applying => cur[u] # cur[t]
  <1> DEFINE a == sender(cur[t])
  <1>1. /\ cur[t] \in Hash /\ a \in Addr /\ nonces[a] \in Nat
        /\ Tx[cur[t]].nonce = nonces[a] + 1
    BY TxTypes DEF NonceInv, TypeOK
  <1>2. cur[t] \notin Genesis
    BY <1>1, GenesisAssumption
  <1>3. ~CommitPending(a)
    BY <1>1, OneHolder DEF CommitPending, Holding, Applying, BeforeDebit
  <1>4. cur[t] \notin committed
    <2>1. {Tx[d].nonce : d \in CommittedBy(a)} = 1 .. nonces[a]
      BY <1>1, <1>3 DEF NonceLogIsExact
    <2>2. nonces[a] + 1 \notin 1 .. nonces[a]
      BY <1>1
    <2>3. QED
      BY <1>1, <2>1, <2>2 DEF CommittedBy
  <1>5. \A u \in Thread : u # t /\ pc[u] \in Applying => cur[u] # cur[t]
    BY OneHolder DEF Holding, Applying, BeforeDebit
  <1>6. QED
    BY <1>1, <1>2, <1>4, <1>5

\* A step that applies nothing leaves the two logs alone.
LEMMA LogFrame ==
    ASSUME committed' = committed,
           \A u \in Thread : pc'[u] \in Applying <=> pc[u] \in Applying,
           \A u \in Thread : pc'[u] = "credit" <=> pc[u] = "credit",
           \A u \in Thread : pc[u] \in Applying => cur'[u] = cur[u]
    PROVE  Debited' = Debited /\ AbsApplied' = AbsApplied
  BY DEF Debited, AbsApplied, Applying

\* With the logs and the balances, what they add up to is unchanged.
LEMMA ReplayFrame ==
    ASSUME ReplayInv, UNCHANGED <<balances, boot>>, Debited' = Debited, AbsApplied' = AbsApplied
    PROVE  ReplayInv'
  <1>1. Received' = Received
    BY DEF Received
  <1>2. \A x : DebitedBy(x)' = DebitedBy(x) /\ ReceivedBy(x)' = ReceivedBy(x)
    BY <1>1 DEF DebitedBy, ReceivedBy
  <1>3. QED
    BY <1>1, <1>2 DEF ReplayInv, LedgerReplaysLog, SupplyIsConserved

\* A debit is a new entry among the sender's debited transactions.
LEMMA DebitReplays ==
    ASSUME TypeOK, ReplayInv, NEW h \in Hash, h \notin Debited,
           balances[sender(h)] >= total_debit(h),
           balances' = [balances EXCEPT ![sender(h)] = @ - total_debit(h)],
           Debited' = Debited \cup {h}, Received' = Received
    PROVE  ReplayInv'
  <1> DEFINE a == sender(h)
             d == total_debit(h)
  <1>1. /\ a \in Addr /\ d \in Nat /\ Debits[h] = d /\ balances \in [Addr -> Nat]
        /\ balances[a] \in Nat /\ balances[a] - d \in Nat
    BY TxTypes, AmountTypes DEF TypeOK
  <1>2. /\ balances'[a] = balances[a] - d
        /\ \A x \in Addr \ {a} : balances'[x] = balances[x]
    BY <1>1
  <1>3. /\ IsFiniteSet(Debited) /\ IsFiniteSet(Received) /\ LedgerReplaysLog /\ SupplyIsConserved
        /\ Debited \subseteq Hash
    BY LogTypes DEF ReplayInv
  <1>4. \A x : ReceivedBy(x)' = ReceivedBy(x)
    BY DEF ReceivedBy
  <1>5. \A x : x = a => DebitedBy(x)' = DebitedBy(x) \cup {h} /\ h \notin DebitedBy(x)
    BY DEF DebitedBy
  <1>6. \A x : x # a => DebitedBy(x)' = DebitedBy(x)
    BY DEF DebitedBy
  <1> HIDE DEF d
  <1>7. /\ IsFiniteSet(Debited \cup {h}) /\ Total(Debits, Debited) \in Nat
        /\ Total(Debits, Debited \cup {h}) = Total(Debits, Debited) + d
    BY <1>1, <1>3, AmountTypes, TotalAdd, UnitsFinite
  <1>8. ASSUME NEW x, x = a
        PROVE  /\ Total(Debits, DebitedBy(x)) \in Nat
               /\ Total(Debits, DebitedBy(x) \cup {h}) = Total(Debits, DebitedBy(x)) + d
    <2>1. DebitedBy(x) \subseteq Debited
      BY DEF DebitedBy
    <2>2. IsFiniteSet(DebitedBy(x)) /\ \A y \in DebitedBy(x) : Debits[y] \in Nat /\ h \notin DebitedBy(x)
      BY <1>3, <1>5, <1>8, <2>1, FS_Subset, AmountTypes
    <2>3. QED
      BY <1>1, <1>5, <2>2, TotalAdd, UnitsFinite
  <1>9. ASSUME NEW x \in Addr
        PROVE  balances'[x] + Total(Debits, DebitedBy(x)') = Total(Amounts, ReceivedBy(x)')
    <2>1. balances[x] + Total(Debits, DebitedBy(x)) = Total(Amounts, ReceivedBy(x))
      BY <1>3 DEF LedgerReplaysLog
    <2>2. CASE x = a
      BY <1>1, <1>2, <1>4, <1>5, <1>8, <2>1, <2>2
    <2>3. CASE x # a
      BY <1>2, <1>4, <1>6, <2>1, <2>3
    <2>4. QED
      BY <2>2, <2>3
  <1>10. /\ Total(balances', Addr) + balances[a] = Total(balances, Addr) + (balances[a] - d)
         /\ Total(balances', Addr) \in Nat /\ Total(balances, Addr) \in Nat
    <2> DEFINE v == balances[a] - d
    <2>1. balances' = [balances EXCEPT ![a] = v] /\ v \in Nat
      BY <1>1 DEF d
    <2> HIDE DEF v
    <2>2. /\ Total([balances EXCEPT ![a] = v], Addr) + balances[a] = Total(balances, Addr) + v
          /\ Total([balances EXCEPT ![a] = v], Addr) \in Nat /\ Total(balances, Addr) \in Nat
      BY ONLY <1>1, <2>1, AddrAssumption, TotalAssign
    <2>3. QED
      BY <2>1, <2>2 DEF v
  <1>11. Total(Amounts, Received) \in Nat
    BY <1>3, AmountTypes, LogTypes, UnitsFinite
  <1>12. Total(balances', Addr) + Total(Debits, Debited') = Total(Amounts, Received')
    <2>1. Total(balances, Addr) + Total(Debits, Debited) = Total(Amounts, Received)
      BY <1>3 DEF SupplyIsConserved
    <2>2. QED
      BY <1>1, <1>2, <1>7, <1>10, <1>11, <2>1
  <1>13. IsFiniteSet(Debited') /\ IsFiniteSet(Received')
    BY <1>3, <1>7
  <1>14. LedgerReplaysLog' /\ SupplyIsConserved'
    BY <1>9, <1>12 DEF LedgerReplaysLog, SupplyIsConserved, Amounts, Debits
  <1>15. QED
    BY <1>13, <1>14 DEF ReplayInv

\* A credit is a new entry among the receiver's transactions.
LEMMA CreditReplays ==
    ASSUME TypeOK, ReplayInv, NEW h \in Hash, h \notin Received,
           balances' = [balances EXCEPT ![receiver(h)] = @ + Tx[h].amount],
           Debited' = Debited, Received' = Received \cup {h}
    PROVE  ReplayInv'
  <1> DEFINE a == receiver(h)
             d == Tx[h].amount
  <1>1. /\ a \in Addr /\ d \in Nat /\ Amounts[h] = d /\ balances \in [Addr -> Nat]
        /\ balances[a] \in Nat /\ balances[a] + d \in Nat
    BY TxTypes, AmountTypes DEF TypeOK
  <1>2. /\ balances'[a] = balances[a] + d
        /\ \A x \in Addr \ {a} : balances'[x] = balances[x]
    BY <1>1
  <1>3. /\ IsFiniteSet(Debited) /\ IsFiniteSet(Received) /\ LedgerReplaysLog /\ SupplyIsConserved
        /\ Debited \subseteq Hash /\ Received \subseteq Hash
    BY LogTypes DEF ReplayInv
  <1>4. \A x : DebitedBy(x)' = DebitedBy(x)
    BY DEF DebitedBy
  <1>5. \A x : x = a => ReceivedBy(x)' = ReceivedBy(x) \cup {h} /\ h \notin ReceivedBy(x)
    BY DEF ReceivedBy
  <1>6. \A x : x # a => ReceivedBy(x)' = ReceivedBy(x)
    BY DEF ReceivedBy
  <1> HIDE DEF d
  <1>7. /\ IsFiniteSet(Received \cup {h}) /\ Total(Amounts, Received) \in Nat
        /\ Total(Amounts, Received \cup {h}) = Total(Amounts, Received) + d
    BY <1>1, <1>3, AmountTypes, TotalAdd, UnitsFinite
  <1>8. ASSUME NEW x, x = a
        PROVE  /\ Total(Amounts, ReceivedBy(x)) \in Nat
               /\ Total(Amounts, ReceivedBy(x) \cup {h}) = Total(Amounts, ReceivedBy(x)) + d
    <2>1. ReceivedBy(x) \subseteq Received
      BY DEF ReceivedBy
    <2>2. IsFiniteSet(ReceivedBy(x)) /\ \A y \in ReceivedBy(x) : Amounts[y] \in Nat /\ h \notin ReceivedBy(x)
      BY <1>3, <1>5, <1>8, <2>1, FS_Subset, AmountTypes
    <2>3. QED
      BY <1>1, <1>5, <2>2, TotalAdd, UnitsFinite
  <1>9. ASSUME NEW x \in Addr
        PROVE  balances'[x] + Total(Debits, DebitedBy(x)') = Total(Amounts, ReceivedBy(x)')
    <2>1. balances[x] + Total(Debits, DebitedBy(x)) = Total(Amounts, ReceivedBy(x))
      BY <1>3 DEF LedgerReplaysLog
    <2>2. Total(Debits, DebitedBy(x)) \in Nat
      <3>1. DebitedBy(x) \subseteq Debited
        BY DEF DebitedBy
      <3>2. IsFiniteSet(DebitedBy(x)) /\ \A y \in DebitedBy(x) : Debits[y] \in Nat
        BY <1>3, <3>1, FS_Subset, AmountTypes
      <3>3. QED
        BY <3>2, UnitsFinite
    <2>3. CASE x = a
      BY <1>1, <1>2, <1>4, <1>5, <1>8, <2>1, <2>2, <2>3
    <2>4. CASE x # a
      BY <1>2, <1>4, <1>6, <2>1, <2>4
    <2>5. QED
      BY <2>3, <2>4
  <1>10. /\ Total(balances', Addr) + balances[a] = Total(balances, Addr) + (balances[a] + d)
         /\ Total(balances', Addr) \in Nat /\ Total(balances, Addr) \in Nat
    <2> DEFINE v == balances[a] + d
    <2>1. balances' = [balances EXCEPT ![a] = v] /\ v \in Nat
      BY <1>1 DEF d
    <2> HIDE DEF v
    <2>2. /\ Total([balances EXCEPT ![a] = v], Addr) + balances[a] = Total(balances, Addr) + v
          /\ Total([balances EXCEPT ![a] = v], Addr) \in Nat /\ Total(balances, Addr) \in Nat
      BY ONLY <1>1, <2>1, AddrAssumption, TotalAssign
    <2>3. QED
      BY <2>1, <2>2 DEF v
  <1>11. Total(Debits, Debited) \in Nat
    BY <1>3, AmountTypes, UnitsFinite
  <1>12. Total(balances', Addr) + Total(Debits, Debited') = Total(Amounts, Received')
    <2>1. Total(balances, Addr) + Total(Debits, Debited) = Total(Amounts, Received)
      BY <1>3 DEF SupplyIsConserved
    <2>2. QED
      BY <1>1, <1>2, <1>7, <1>10, <1>11, <2>1
  <1>13. IsFiniteSet(Debited') /\ IsFiniteSet(Received')
    BY <1>3, <1>7
  <1>14. LedgerReplaysLog' /\ SupplyIsConserved'
    BY <1>9, <1>12 DEF LedgerReplaysLog, SupplyIsConserved, Amounts, Debits
  <1>15. QED
    BY <1>13, <1>14 DEF ReplayInv

\* Every step keeps the balances what the logs add up to.
LEMMA NextReplayInv ==
    ASSUME TypeOK, TypeOK', LockInv, BootInv, NonceInv, DebitIsCovered, NonceLogIsExact, ReplayInv,
           [Next]_vars
    PROVE  ReplayInv'
  <1> USE LogFrame, ReplayFrame DEF TypeOK, Applying, locals, ledger, graph
  <1>1. ASSUME NEW h \in Hash, InsertGenesis(h) PROVE ReplayInv'
    <2>1. /\ h \in boot /\ h \in Genesis /\ h \notin committed
          /\ \A u \in Thread : pc[u] = "idle"
      BY <1>1, CommittedNonce DEF InsertGenesis, BootInv
    <2>2. Debited' = Debited /\ AbsApplied' = AbsApplied /\ h \notin AbsApplied
      BY <1>1, <2>1 DEF InsertGenesis, AbsApplied
    <2>3. h \notin Received /\ Received' = Received \cup {h}
      BY <1>1, <2>1, <2>2 DEF InsertGenesis, Received
    <2>4. balances' = [balances EXCEPT ![receiver(h)] = @ + Tx[h].amount]
      BY <1>1 DEF InsertGenesis
    <2>5. QED
      BY <2>2, <2>3, <2>4, CreditReplays
  <1>2. ASSUME NEW t \in Thread, NEW h \in Hash, NEW e \in Entry, Submit(t, h, e)
        PROVE  ReplayInv'
    BY <1>2 DEF Submit, StartScan, NoScan
  <1>3. ASSUME NEW t \in Thread, AcquireLock(t) PROVE ReplayInv'
    BY <1>3 DEF AcquireLock
  <1>4. ASSUME NEW t \in Thread, Step(t) PROVE ReplayInv'
    <2>1. ASSUME NEW a \in Addr, ScanBalance(t, a) PROVE ReplayInv'
      BY <2>1 DEF ScanBalance
    <2>2. CASE NodeSupplyCheck(t)
      BY <2>2 DEF NodeSupplyCheck, EndScan, Fail, Pass
    <2>3. CASE PreCheck(t)
      BY <2>3 DEF PreCheck, NoScan, Fail, Pass
    <2>4. CASE DuplicateCheck(t)
      BY <2>4 DEF DuplicateCheck, NoScan, StartScan, FailLocked, Pass
    <2>5. CASE ParentCheck1(t)
      BY <2>5 DEF ParentCheck1, NoScan, FailLocked, Pass
    <2>6. CASE ParentCheck2(t)
      BY <2>6 DEF ParentCheck2, NoScan, StartScan, FailLocked, Pass
    <2>7. CASE DagSupplyCheck(t)
      BY <2>7 DEF DagSupplyCheck, EndScan, FailLocked, Pass
    <2>8. CASE BalanceAndNonceCheck(t)
      BY <2>8 DEF BalanceAndNonceCheck, NoScan, FailLocked, Pass
    <2>9. CASE Debit(t)
      <3>1. pc[t] = "debit" /\ balances[sender(cur[t])] >= total_debit(cur[t]) /\ cur[t] \in Hash
        BY <2>9 DEF Debit, DebitIsCovered
      <3>2. ~(balances[sender(cur[t])] < total_debit(cur[t]))
        BY <3>1, TxTypes
      <3>3. /\ balances' = [balances EXCEPT ![sender(cur[t])] = @ - total_debit(cur[t])]
            /\ pc' = [pc EXCEPT ![t] = "credit"] /\ UNCHANGED <<committed, cur, boot>>
        BY <2>9, <3>2 DEF Debit
      <3>4. cur[t] \notin Debited
        BY <3>1, NextIsFresh DEF Debited
      <3>5. Debited' = Debited \cup {cur[t]}
        BY <3>1, <3>3 DEF Debited
      <3>6. Received' = Received
        BY <3>1, <3>3 DEF Received, AbsApplied
      <3>7. QED
        BY <3>1, <3>3, <3>4, <3>5, <3>6, DebitReplays
    <2>10. CASE Credit(t)
      <3>1. /\ pc[t] = "credit" /\ cur[t] \in Hash
            /\ balances' = [balances EXCEPT ![receiver(cur[t])] = @ + Tx[cur[t]].amount]
            /\ pc' = [pc EXCEPT ![t] = "nonce"] /\ UNCHANGED <<committed, cur, boot>>
        BY <2>10 DEF Credit
      <3>2. cur[t] \notin Received
        BY <3>1, NextIsFresh DEF Received, AbsApplied
      <3>3. Received' = Received \cup {cur[t]}
        BY <3>1 DEF Received, AbsApplied
      <3>4. Debited' = Debited
        BY <3>1 DEF Debited
      <3>5. QED
        BY <3>1, <3>2, <3>3, <3>4, CreditReplays
    <2>11. CASE IncrementNonce(t)
      BY <2>11 DEF IncrementNonce
    <2>12. CASE CommitTransaction(t)
      <3>1. /\ pc[t] = "commit" /\ pc' = [pc EXCEPT ![t] = "depth"]
            /\ UNCHANGED <<balances, boot, cur>>
            /\ committed' = committed \cup {cur[t]}
        BY <2>12, CommitIsFresh DEF CommitTransaction
      <3>2. Debited' = Debited /\ AbsApplied' = AbsApplied
        BY <3>1 DEF Debited, AbsApplied
      <3>3. QED
        BY <3>1, <3>2
    <2>13. CASE ComputeDepth(t)
      BY <2>13 DEF ComputeDepth
    <2>14. CASE LoadMaxDepth(t)
      BY <2>14 DEF LoadMaxDepth
    <2>15. CASE SwapMaxDepth(t)
      BY <2>15 DEF SwapMaxDepth
    <2>16. CASE LinkParents(t)
      BY <2>16 DEF LinkParents
    <2>17. CASE RemoveTips(t)
      BY <2>17 DEF RemoveTips
    <2>18. CASE AddTip(t)
      BY <2>18 DEF AddTip
    <2>19. CASE StoreNode(t)
      BY <2>19 DEF StoreNode
    <2>20. CASE Finish(t)
      BY <2>20 DEF Finish
    <2>21. CASE Broadcast(t)
      BY <2>21 DEF Broadcast
    <2>22. QED
      BY <1>4, <2>1, <2>2, <2>3, <2>4, <2>5, <2>6, <2>7, <2>8, <2>9, <2>10, <2>11, <2>12,
         <2>13, <2>14, <2>15, <2>16, <2>17, <2>18, <2>19, <2>20, <2>21 DEF Step
  <1>5. ASSUME NEW h \in Hash, NEW s \in Reported, SetStatus(h, s) PROVE ReplayInv'
    BY <1>5 DEF SetStatus
  <1>6. ASSUME NEW h \in Hash, Prune(h) PROVE ReplayInv'
    BY <1>6 DEF Prune
  <1>7. CASE UNCHANGED vars
    BY <1>7 DEF vars
  <1>8. QED
    BY <1>1, <1>2, <1>3, <1>4, <1>5, <1>6, <1>7 DEF Next

-----------------------------------------------------------------------------
\* The invariant holds initially ...
LEMMA InitIInv == Init => IInv
  <1> SUFFICES ASSUME Init PROVE IInv
    OBVIOUS
  <1>1. TypeOK
    BY InitTypeOK
  <1>2. LockInv /\ BootInv
    BY ThreadAssumption DEF Init, LockInv, BootInv, Holding, BeforeDebit, Applying, Weaving
  <1>3. NonceInv /\ DebitIsCovered
    BY DEF Init, NonceInv, DebitIsCovered, Weaving
  <1>4. NonceLogIsExact
    BY DEF Init, NonceLogIsExact, CommittedBy, CommitPending
  <1>5. SettledInv /\ TipInv /\ DepthInv
    BY DEF Init, SettledInv, HasParents, Applying, Weaving, TipInv, TipsAreUnreferenced,
           FrontierIsComplete, DepthInv, DepthFollowsParents, MaxDepthIsBound
  <1>6. ReplayInv
    <2>1. Debited = {} /\ Received = {} /\ balances = [x \in Addr |-> 0]
      BY DEF Init, Debited, Received, AbsApplied, Applying
    <2>2. \A x : DebitedBy(x) = {} /\ ReceivedBy(x) = {}
      BY <2>1 DEF DebitedBy, ReceivedBy
    <2>3. Units(balances, Addr) = {}
      BY <2>1 DEF Units
    <2>4. Total(balances, Addr) = 0 /\ IsFiniteSet({})
      BY <2>3, FS_EmptySet DEF Total
    <2>5. QED
      BY <2>1, <2>2, <2>4, TotalEmpty DEF ReplayInv, LedgerReplaysLog, SupplyIsConserved
  <1>7. QED
    BY <1>1, <1>2, <1>3, <1>4, <1>5, <1>6 DEF IInv, LedgerInv

\* ... and every step preserves it.
LEMMA NextIInv == IInv /\ [Next]_vars => IInv'
  <1> SUFFICES ASSUME IInv, [Next]_vars PROVE IInv'
    OBVIOUS
  <1> USE DEF IInv, LedgerInv
  <1>1. TypeOK'
    BY NextTypeOK
  <1>2. LockInv' /\ BootInv'
    BY <1>1, NextLockInv, NextBootInv
  <1>3. NonceInv' /\ DebitIsCovered' /\ NonceLogIsExact'
    BY <1>1, NextNonceInv, NextDebitIsCovered, NextNonceLog
  <1>4. SettledInv' /\ TipInv' /\ DepthInv'
    BY <1>1, NextSettledInv, NextTipInv, NextDepthInv
  <1>5. ReplayInv'
    BY <1>1, NextReplayInv
  <1>6. QED
    BY <1>1, <1>2, <1>3, <1>4, <1>5

(***************************************************************************)
(* The inductive invariant holds in every reachable state: beside the      *)
(* properties below, locks held at the right places, nonces that fit the   *)
(* reservations, and what each half-done insertion still has to link       *)
(* (graph.rs:56-205).                                                      *)
(***************************************************************************)
THEOREM Invariance == Spec => []IInv
  BY InitIInv, NextIInv, PTL DEF Spec

\* The state keeps the types of DagGraph's fields.
THEOREM TypeCorrect == Spec => []TypeOK
  <1>1. IInv => TypeOK
    BY DEF IInv
  <1>2. QED
    BY <1>1, Invariance, PTL

(***************************************************************************)
(* With any number of threads, no interleaving makes LedgerState::debit    *)
(* fail or overdraw an account once insert has checked the balance.        *)
(***************************************************************************)
THEOREM DebitsAreCovered == Spec => []DebitIsCovered
  <1>1. IInv => DebitIsCovered
    BY DEF IInv, LedgerInv
  <1>2. QED
    BY <1>1, Invariance, PTL

(***************************************************************************)
(* Every sender's applied transactions carry the nonces 1, 2, ..., n, one  *)
(* each: nothing is applied twice, skipped or replaced, also after pruning *)
(* forgot that a transaction was stored.                                   *)
(***************************************************************************)
THEOREM NonceLogExact == Spec => []NonceLogIsExact
  <1>1. IInv => NonceLogIsExact
    BY DEF IInv, LedgerInv
  <1>2. QED
    BY <1>1, Invariance, PTL

(***************************************************************************)
(* Whatever the interleaving, every balance is what the log adds up to:    *)
(* each applied transaction is charged to its sender once and paid to its  *)
(* receiver once (graph.rs:152-156).                                       *)
(***************************************************************************)
THEOREM LedgerReplays == Spec => []LedgerReplaysLog
  <1>1. IInv => LedgerReplaysLog
    BY DEF IInv, ReplayInv
  <1>2. QED
    BY <1>1, Invariance, PTL

\* The accounts hold no more than genesis gave and the fees have left of it.
LEMMA CirculationBound == IInv => CirculationIsBounded
  <1> SUFFICES ASSUME IInv PROVE CirculationIsBounded
    OBVIOUS
  <1> DEFINE G == Genesis \ boot
  <1>1. /\ TypeOK /\ NonceInv /\ NonceLogIsExact /\ IsFiniteSet(Debited) /\ IsFiniteSet(Received)
        /\ Total(balances, Addr) + Total(Debits, Debited) = Total(Amounts, Received)
    BY DEF IInv, LedgerInv, ReplayInv, SupplyIsConserved
  <1>2. Received = G \cup AbsApplied /\ AbsApplied \subseteq Debited /\ Debited \subseteq Hash
        /\ Received \subseteq Hash
    BY <1>1, LogTypes DEF Received
  <1>3. \A h \in AbsApplied : h \notin Genesis
    <2>1. \A t \in Thread : pc[t] \in {"nonce", "commit"} => cur[t] \notin Genesis
      <3>1. ASSUME NEW t \in Thread, pc[t] \in {"nonce", "commit"} PROVE Tx[cur[t]].nonce > 0
        <4>1. cur[t] \in Hash /\ sender(cur[t]) \in Addr /\ nonces[sender(cur[t])] \in Nat
          BY <1>1, <3>1, TxTypes DEF TypeOK
        <4>2. QED
          BY <1>1, <3>1, <4>1 DEF NonceInv
      <3>2. QED
        BY <3>1, GenesisAssumption
    <2>2. QED
      BY <1>1, <2>1, CommittedNonce DEF AbsApplied
  <1>4. G \cap AbsApplied = {}
    BY <1>3
  <1>5. IsFiniteSet(G) /\ IsFiniteSet(AbsApplied)
    BY <1>1, <1>2, FS_Subset
  <1> HIDE DEF G
  <1>6. Total(Amounts, Received) = Total(Amounts, G) + Total(Amounts, AbsApplied)
    BY <1>2, <1>4, <1>5, AmountTypes, TotalUnion
  <1>7. Total(Amounts, AbsApplied) <= Total(Debits, Debited)
    BY <1>1, <1>2, AmountTypes, TotalBound
  <1>8. /\ Total(Amounts, G) \in Nat /\ Total(Amounts, AbsApplied) \in Nat
        /\ Total(Debits, Debited) \in Nat
    BY <1>1, <1>2, <1>5, AmountTypes, UnitsFinite
  <1>9. Total(balances, Addr) \in Nat
    BY <1>1, AddrAssumption, UnitsFinite DEF TypeOK
  <1>10. QED
    BY <1>1, <1>6, <1>7, <1>8, <1>9 DEF CirculationIsBounded, G

(***************************************************************************)
(* No interleaving of insertions mints: what circulates never exceeds what *)
(* genesis has allocated (graph.rs:120-156).                               *)
(***************************************************************************)
THEOREM NothingIsMinted == Spec => []CirculationIsBounded
  BY CirculationBound, Invariance, PTL

(***************************************************************************)
(* A balance never reaches the end of a u64: the fetch_add of              *)
(* LedgerState::credit, which would wrap silently, never does              *)
(* (state.rs:57-62), so DagGraph may count balances in Nat.                *)
(***************************************************************************)
THEOREM BalancesNeverWrap == Spec => []BalancesFit
  <1>1. IInv => BalancesFit
    <2> SUFFICES ASSUME IInv, NEW x \in Addr PROVE balances[x] <= MaxU64
      BY DEF BalancesFit
    <2>1. TypeOK /\ balances \in [Addr -> Nat] /\ balances[x] \in Nat
      BY DEF IInv, TypeOK
    <2>2. balances[x] <= Total(balances, Addr) /\ Total(balances, Addr) \in Nat
      <3>1. /\ Total(balances, Addr) = Total(balances, Addr \ {x}) + balances[x]
            /\ Total(balances, Addr \ {x}) \in Nat
        BY <2>1, AddrAssumption, TotalRemove
      <3>2. QED
        BY <2>1, <3>1
    <2>3. Total(balances, Addr) <= Total(Amounts, Genesis \ boot)
      BY CirculationBound DEF CirculationIsBounded
    <2>4. Total(Amounts, Genesis \ boot) <= Total(Amounts, Genesis)
      BY AllocationFits, AmountTypes, GenesisAssumption, TotalBound
    <2>5. /\ Total(Amounts, Genesis \ boot) \in Nat /\ Total(Amounts, Genesis) \in Nat
      <3>1. IsFiniteSet(Genesis \ boot)
        BY AllocationFits, FS_Difference
      <3>2. QED
        BY <3>1, AllocationFits, AmountTypes, GenesisAssumption, UnitsFinite
    <2>6. QED
      BY <2>1, <2>2, <2>3, <2>4, <2>5, AllocationFits, BoundAssumption
  <1>2. QED
    BY <1>1, Invariance, PTL

\* The tip set never holds a transaction that a stored node approves.
THEOREM TipsUnreferenced == Spec => []TipsAreUnreferenced
  <1>1. IInv => TipsAreUnreferenced
    BY DEF IInv, TipInv
  <1>2. QED
    BY <1>1, Invariance, PTL

\* No stored node is lost from the frontier: it is a tip or has a child.
THEOREM FrontierComplete == Spec => []FrontierIsComplete
  <1>1. IInv => FrontierIsComplete
    BY DEF IInv, TipInv
  <1>2. QED
    BY <1>1, Invariance, PTL

\* The stored graph is acyclic: depth grows along every edge, pruning or not.
THEOREM DepthsFollowParents == Spec => []DepthFollowsParents
  <1>1. IInv => DepthFollowsParents
    BY DEF IInv, DepthInv
  <1>2. QED
    BY <1>1, Invariance, PTL

\* The compare-and-swap loop loses no update: max_depth bounds every depth.
THEOREM MaxDepthBounds == Spec => []MaxDepthIsBound
  <1>1. IInv => MaxDepthIsBound
    BY DEF IInv, DepthInv
  <1>2. QED
    BY <1>1, Invariance, PTL

\* Only commit_transaction changes the record of nonces, and it adds to it.
LEMMA CommittedStable ==
    ASSUME TypeOK, LockInv, NonceInv, NonceLogIsExact, [Next]_vars
    PROVE  committed \subseteq committed'
  <1> USE DEF locals, ledger, graph
  <1>1. ASSUME NEW t \in Thread, Step(t) PROVE committed \subseteq committed'
    <2>1. CASE CommitTransaction(t)
      BY <2>1, CommitIsFresh DEF CommitTransaction
    <2>2. CASE ~ CommitTransaction(t)
      BY <1>1, <2>2 DEF Step, ScanBalance, NodeSupplyCheck, PreCheck, DuplicateCheck, ParentCheck1,
           ParentCheck2, DagSupplyCheck, BalanceAndNonceCheck, Debit, Credit, IncrementNonce,
           ComputeDepth, LoadMaxDepth, SwapMaxDepth, LinkParents, RemoveTips, AddTip, StoreNode,
           Finish, Broadcast, Fail, FailLocked, Pass, NoScan, StartScan, EndScan
    <2>3. QED
      BY <2>1, <2>2
  <1>2. CASE ~ \E t \in Thread : Step(t)
    BY <1>2 DEF Next, InsertGenesis, Submit, AcquireLock, SetStatus, Prune, vars
  <1>3. QED
    BY <1>1, <1>2

(***************************************************************************)
(* No interleaving replaces a committed transaction or makes a stored one  *)
(* insertable again: with the sender's lock, a nonce that was used stays   *)
(* with the transaction that used it (graph.rs:136-156, conflict.rs:84-88).*)
(***************************************************************************)
THEOREM SettledForGood == Spec => SettledIsFinal
  <1>1. IInv /\ [Next]_vars => [committed \subseteq committed' /\ Settled \subseteq Settled']_vars
    BY CommittedStable, SettledStable DEF IInv, LedgerInv
  <1>2. QED
    BY <1>1, Invariance, PTL DEF Spec, SettledIsFinal

-----------------------------------------------------------------------------
(***************************************************************************)
(* DagGraph implements Ledger under the refinement mapping of              *)
(* DagGraphLedger.  Only insert_genesis and the credit of an insertion are *)
(* visible; every other step leaves the mapped state alone.                *)
(***************************************************************************)
\* The thread between a sender's checks and its commit is that sender's lock owner.
LEMMA HolderOf ==
    ASSUME TypeOK, LockInv, NEW x \in Addr, NEW l \in {"credit", "nonce"}
    PROVE  /\ \A t \in Thread : pc[t] = l /\ sender(cur[t]) = x => lock[x] = t
           /\ HolderAt(x, l) => /\ lock[x] \in Thread /\ pc[lock[x]] = l
                                /\ sender(cur[lock[x]]) = x
  BY ThreadAssumption DEF TypeOK, LockInv, HolderAt, Holding, Applying

(***************************************************************************)
(* A step that leaves the ledger and the threads that apply a transaction  *)
(* alone is invisible, whatever it does to locks.                          *)
(***************************************************************************)
LEMMA LedgerFrame ==
    ASSUME TypeOK, TypeOK', LockInv, LockInv', UNCHANGED <<balances, nonces, committed, boot>>,
           \A u \in Thread : pc[u] \in Applying \/ pc'[u] \in Applying =>
                                pc'[u] = pc[u] /\ cur'[u] = cur[u]
    PROVE  UNCHANGED L!lvars
  <1>1. ASSUME NEW x \in Addr, NEW l \in {"credit", "nonce"}
        PROVE  /\ HolderAt(x, l)' <=> HolderAt(x, l)
               /\ HolderAt(x, l) => lock'[x] = lock[x] /\ cur'[lock[x]] = cur[lock[x]]
    <2>1. CASE HolderAt(x, l)
      <3>1. lock[x] \in Thread /\ pc[lock[x]] = l /\ sender(cur[lock[x]]) = x
        BY <2>1, HolderOf
      <3>2. pc'[lock[x]] = l /\ cur'[lock[x]] = cur[lock[x]]
        BY <3>1 DEF Applying
      <3>3. lock'[x] = lock[x]
        BY <3>1, <3>2 DEF LockInv, sender, Holding, Applying
      <3>4. QED
        BY <2>1, <3>1, <3>2, <3>3 DEF HolderAt
    <2>2. CASE ~HolderAt(x, l)
      <3>1. SUFFICES ASSUME lock'[x] \in Thread, pc'[lock'[x]] = l PROVE FALSE
        BY <2>2 DEF HolderAt
      <3>2. sender(cur'[lock'[x]]) = x
        BY <3>1, ThreadAssumption DEF LockInv, sender
      <3>3. pc[lock'[x]] = l /\ cur[lock'[x]] = cur'[lock'[x]]
        BY <3>1 DEF Applying
      <3>4. lock[x] = lock'[x]
        BY <3>1, <3>2, <3>3 DEF LockInv, Holding, Applying
      <3>5. QED
        BY <2>2, <3>1, <3>3, <3>4 DEF HolderAt
    <2>3. QED
      BY <2>1, <2>2
  <1>2. AbsBal' = AbsBal
    BY <1>1 DEF AbsBal, total_debit, HolderAt
  <1>3. AbsSeq' = AbsSeq
    BY <1>1 DEF AbsSeq, HolderAt
  <1>4. AbsApplied' = AbsApplied
    BY DEF AbsApplied, Applying
  <1>5. QED
    BY <1>2, <1>3, <1>4 DEF L!lvars

\* With nobody submitting, the mapped ledger is the ledger.
LEMMA QuietMapping ==
    ASSUME TypeOK, \A t \in Thread : pc[t] = "idle"
    PROVE  AbsBal = balances /\ AbsSeq = nonces /\ AbsApplied = committed
  BY DEF TypeOK, AbsBal, AbsSeq, AbsApplied, HolderAt

\* The initial state maps to the initial state of the ledger.
LEMMA InitRefines == Init => L!LInit
  BY InitTypeOK, QuietMapping DEF Init, L!LInit

\* A genesis insertion is an allocation.
LEMMA InsertGenesisRefines ==
    ASSUME TypeOK, TypeOK', BootInv, NEW h \in Hash, InsertGenesis(h)
    PROVE  L!Allocate(h)
  <1>1. AbsBal = balances /\ AbsSeq = nonces /\ AbsApplied = committed
    BY QuietMapping DEF InsertGenesis, BootInv
  <1>2. (\A t \in Thread : pc[t] = "idle")'
    BY DEF InsertGenesis, BootInv
  <1>3. AbsBal' = balances' /\ AbsSeq' = nonces' /\ AbsApplied' = committed'
    BY <1>2 DEF TypeOK, AbsBal, AbsSeq, AbsApplied, HolderAt
  <1>4. QED
    BY <1>1, <1>3 DEF InsertGenesis, L!Allocate, receiver

\* Facts about the thread that applies a transaction.
LEMMA ApplyingFacts ==
    ASSUME IInv, NEW t \in Thread, pc[t] \in {"debit"} \cup Applying
    PROVE  /\ cur[t] \in Hash /\ sender(cur[t]) \in Addr /\ receiver(cur[t]) \in Addr
           /\ total_debit(cur[t]) \in Nat /\ Tx[cur[t]].amount \in Nat
           /\ lock[sender(cur[t])] = t
           /\ boot = {}
  BY TxTypes DEF IInv, TypeOK, LockInv, BootInv, Applying, Holding, BeforeDebit

\* The debit is invisible: the amount is still counted as the sender's.
LEMMA DebitRefines ==
    ASSUME IInv, IInv', NEW t \in Thread, Debit(t)
    PROVE  UNCHANGED L!lvars
  <1> DEFINE a == sender(cur[t])
             c == total_debit(cur[t])
  <1>0. /\ pc[t] = "debit" /\ TypeOK /\ LockInv /\ DebitIsCovered
        /\ balances \in [Addr -> Nat] /\ DOMAIN pc = Thread
    BY DEF Debit, IInv, LedgerInv, TypeOK
  <1>1. cur[t] \in Hash /\ a \in Addr /\ c \in Nat /\ lock[a] = t
    BY <1>0, ApplyingFacts
  <1>2. balances[a] >= c
    BY <1>0 DEF DebitIsCovered
  <1>3. /\ pc' = [pc EXCEPT ![t] = "credit"]
        /\ balances' = [balances EXCEPT ![a] = balances[a] - c]
        /\ UNCHANGED <<nonces, committed, lock, boot, cur>>
    BY <1>0, <1>1, <1>2 DEF Debit, locals
  <1> HIDE DEF c
  <1>4. ASSUME NEW x \in Addr, x # a
        PROVE  /\ HolderAt(x, "credit")' <=> HolderAt(x, "credit")
               /\ HolderAt(x, "nonce")' <=> HolderAt(x, "nonce")
    <2>1. lock[x] # t
      BY <1>0, <1>1, <1>4, ThreadAssumption DEF LockInv
    <2>2. QED
      BY <1>0, <1>3, <2>1 DEF HolderAt
  <1>5. /\ ~HolderAt(a, "credit") /\ HolderAt(a, "credit")'
        /\ ~HolderAt(a, "nonce") /\ ~HolderAt(a, "nonce")'
    BY <1>0, <1>1, <1>3 DEF HolderAt
  <1>6. total_debit(cur[t]) = c
    BY DEF c
  <1>7. AbsBal' = AbsBal
    <2>1. \A x \in Addr : AbsBal'[x] = AbsBal[x]
      BY <1>0, <1>1, <1>2, <1>3, <1>4, <1>5, <1>6 DEF AbsBal, HolderAt, total_debit
    <2>2. QED
      BY <2>1 DEF AbsBal
  <1>8. AbsSeq' = AbsSeq
    BY <1>3, <1>4, <1>5 DEF AbsSeq, HolderAt
  <1>9. AbsApplied' = AbsApplied
    BY <1>0, <1>3 DEF AbsApplied
  <1>10. QED
    BY <1>3, <1>7, <1>8, <1>9 DEF L!lvars

\* Seen through the mapping, only the lock owner's account is affected by its step.
LEMMA OtherHolders ==
    ASSUME IInv, NEW t \in Thread, pc[t] \in Applying, NEW label, NEW x \in Addr,
           x # sender(cur[t]), pc' = [pc EXCEPT ![t] = label], lock' = lock
    PROVE  /\ HolderAt(x, "credit")' <=> HolderAt(x, "credit")
           /\ HolderAt(x, "nonce")' <=> HolderAt(x, "nonce")
  <1>1. lock[x] # t
    BY ThreadAssumption DEF IInv, LockInv
  <1>2. DOMAIN pc = Thread
    BY DEF IInv, TypeOK
  <1>3. QED
    BY <1>1, <1>2 DEF HolderAt

\* A transaction that insert has yet to credit is not in the mapped log.
LEMMA CreditIsNew ==
    ASSUME IInv, NEW t \in Thread, pc[t] = "credit"
    PROVE  cur[t] \notin AbsApplied /\ cur[t] \notin Genesis
  <1> DEFINE a == sender(cur[t])
  <1>1. /\ cur[t] \in Hash /\ a \in Addr /\ nonces[a] \in Nat
        /\ Tx[cur[t]].nonce = nonces[a] + 1
    BY TxTypes DEF IInv, LedgerInv, NonceInv, TypeOK
  <1>2. cur[t] \notin Genesis
    BY <1>1, GenesisAssumption
  <1>3. ~CommitPending(a)
    BY <1>1, OneHolder DEF IInv, CommitPending, Holding, Applying
  <1>4. cur[t] \notin committed
    <2>1. {Tx[d].nonce : d \in CommittedBy(a)} = 1 .. nonces[a]
      BY <1>1, <1>3 DEF IInv, LedgerInv, NonceLogIsExact
    <2>2. nonces[a] + 1 \notin 1 .. nonces[a]
      BY <1>1
    <2>3. QED
      BY <1>1, <2>1, <2>2 DEF CommittedBy
  <1>5. \A u \in Thread : pc[u] \in {"nonce", "commit"} => cur[u] # cur[t]
    BY OneHolder DEF IInv, Holding, Applying
  <1>6. QED
    BY <1>2, <1>4, <1>5 DEF AbsApplied

\* The credit is the step at which the transaction takes effect.
LEMMA CreditRefines ==
    ASSUME IInv, IInv', NEW t \in Thread, Credit(t)
    PROVE  L!Apply(cur[t])
  <1> DEFINE h == cur[t]
             a == sender(h)
             r == receiver(h)
             c == total_debit(h)
             m == Tx[h].amount
  <1>1. /\ pc[t] = "credit" /\ TypeOK /\ balances \in [Addr -> Nat] /\ DOMAIN pc = Thread
        /\ nonces \in [Addr -> Nat] /\ NonceInv
    BY DEF Credit, IInv, LedgerInv, TypeOK
  <1>2. /\ h \in Hash /\ a \in Addr /\ r \in Addr /\ c \in Nat /\ m \in Nat /\ lock[a] = t
        /\ boot = {}
    BY <1>1, ApplyingFacts DEF Applying
  <1>3. /\ pc' = [pc EXCEPT ![t] = "nonce"]
        /\ balances' = [balances EXCEPT ![r] = balances[r] + m]
        /\ UNCHANGED <<nonces, committed, lock, boot, cur>>
    BY <1>1, <1>2 DEF Credit, locals
  <1>4. Tx[h].nonce = nonces[a] + 1
    BY <1>1 DEF NonceInv
  <1>5. /\ HolderAt(a, "credit") /\ ~HolderAt(a, "credit")'
        /\ ~HolderAt(a, "nonce") /\ HolderAt(a, "nonce")'
    BY <1>1, <1>2, <1>3 DEF HolderAt
  <1>6. \A x \in Addr : x # a =>
            /\ HolderAt(x, "credit")' <=> HolderAt(x, "credit")
            /\ HolderAt(x, "nonce")' <=> HolderAt(x, "nonce")
    BY <1>1, <1>3, OtherHolders DEF Applying
  <1>7. AbsBal[a] = balances[a] + c /\ AbsSeq[a] = nonces[a]
    BY <1>2, <1>5 DEF AbsBal, AbsSeq, HolderAt
  <1>8. AbsBal' = [[AbsBal EXCEPT ![a] = @ - c] EXCEPT ![r] = @ + m]
    <2>1. ASSUME NEW x \in Addr, x # a
          PROVE  AbsBal[x] \in Nat /\ AbsBal'[x] = IF x = r THEN AbsBal[x] + m ELSE AbsBal[x]
      <3>1. CASE HolderAt(x, "credit")
        <4>1. lock[x] \in Thread /\ total_debit(cur[lock[x]]) \in Nat
          BY <3>1, <1>1, TxTypes DEF HolderAt, TypeOK
        <4>2. HolderAt(x, "credit")'
          BY <2>1, <3>1, <1>6
        <4>3. AbsBal[x] = balances[x] + total_debit(cur[lock[x]])
          BY <3>1 DEF AbsBal
        <4>4. AbsBal'[x] = balances'[x] + total_debit(cur[lock[x]])
          BY <4>2, <1>3 DEF AbsBal, HolderAt, total_debit
        <4>5. QED
          BY <4>1, <4>3, <4>4, <1>1, <1>2, <1>3
      <3>2. CASE ~HolderAt(x, "credit")
        <4>1. ~HolderAt(x, "credit")'
          BY <2>1, <3>2, <1>6
        <4>2. AbsBal[x] = balances[x] /\ AbsBal'[x] = balances'[x]
          BY <3>2, <4>1 DEF AbsBal, HolderAt
        <4>3. QED
          BY <4>2, <1>1, <1>2, <1>3
      <3>3. QED
        BY <3>1, <3>2
    <2>2. AbsBal'[a] = balances'[a]
      BY <1>2, <1>3, <1>5 DEF AbsBal, HolderAt
    <2>3. AbsBal'[a] = IF a = r THEN (AbsBal[a] - c) + m ELSE AbsBal[a] - c
      BY <2>2, <1>1, <1>2, <1>3, <1>7
    <2>4. DOMAIN AbsBal = Addr /\ DOMAIN AbsBal' = Addr
      BY DEF AbsBal
    <2>5. AbsBal' = [x \in Addr |-> AbsBal'[x]] /\ AbsBal = [x \in Addr |-> AbsBal[x]]
      BY DEF AbsBal
    <2> HIDE DEF a, r, c, m
    <2>6. QED
      BY <2>1, <2>3, <2>4, <2>5, <1>2
  <1>9. AbsSeq' = [AbsSeq EXCEPT ![a] = @ + 1]
    BY <1>2, <1>3, <1>5, <1>6 DEF AbsSeq, HolderAt
  <1>10. AbsApplied' = AbsApplied \cup {h}
    BY <1>1, <1>3 DEF AbsApplied
  <1>11. h \in Hash \ (AbsApplied \cup Genesis)
    BY <1>1, <1>2, CreditIsNew
  <1>12. AbsBal[a] >= c
    BY <1>1, <1>2, <1>7
  <1>13. L!Cost(h) = c
    BY DEF L!Cost, total_debit
  <1>14. QED
    BY <1>2, <1>3, <1>4, <1>7, <1>8, <1>9, <1>10, <1>11, <1>12, <1>13
       DEF L!Apply, sender, receiver

\* The nonce was already counted.
LEMMA IncrementNonceRefines ==
    ASSUME IInv, IInv', NEW t \in Thread, IncrementNonce(t)
    PROVE  UNCHANGED L!lvars
  <1> DEFINE a == sender(cur[t])
  <1>1. pc[t] = "nonce" /\ DOMAIN pc = Thread /\ nonces \in [Addr -> Nat]
    BY DEF IncrementNonce, IInv, TypeOK
  <1>2. a \in Addr /\ lock[a] = t
    BY <1>1, ApplyingFacts DEF Applying
  <1>3. /\ pc' = [pc EXCEPT ![t] = "commit"] /\ nonces' = [nonces EXCEPT ![a] = @ + 1]
        /\ UNCHANGED <<balances, committed, lock, boot, cur>>
    BY <1>1, <1>2 DEF IncrementNonce, locals
  <1>4. /\ ~HolderAt(a, "credit") /\ ~HolderAt(a, "credit")'
        /\ HolderAt(a, "nonce") /\ ~HolderAt(a, "nonce")'
    BY <1>1, <1>2, <1>3 DEF HolderAt
  <1>5. \A x \in Addr : x # a =>
            /\ HolderAt(x, "credit")' <=> HolderAt(x, "credit")
            /\ HolderAt(x, "nonce")' <=> HolderAt(x, "nonce")
    BY <1>1, <1>3, OtherHolders DEF Applying
  <1>6. AbsBal' = AbsBal
    BY <1>3, <1>4, <1>5 DEF AbsBal, HolderAt
  <1>7. AbsSeq' = AbsSeq
    BY <1>1, <1>2, <1>3, <1>4, <1>5 DEF AbsSeq, HolderAt
  <1>8. AbsApplied' = AbsApplied
    BY <1>1, <1>3 DEF AbsApplied
  <1>9. QED
    BY <1>3, <1>6, <1>7, <1>8 DEF L!lvars

\* So was the log entry; it replaces none.
LEMMA CommitRefines ==
    ASSUME IInv, IInv', NEW t \in Thread, CommitTransaction(t)
    PROVE  UNCHANGED L!lvars
  <1>1. /\ pc[t] = "commit" /\ DOMAIN pc = Thread
        /\ TypeOK /\ LockInv /\ NonceInv /\ NonceLogIsExact
    BY DEF CommitTransaction, IInv, TypeOK, LedgerInv
  <1>2. committed' = committed \cup {cur[t]}
    BY <1>1, CommitIsFresh DEF CommitTransaction
  <1>3. pc' = [pc EXCEPT ![t] = "depth"] /\ UNCHANGED <<balances, nonces, lock, boot, cur>>
    BY DEF CommitTransaction, locals
  <1>4. \A x \in Addr : /\ HolderAt(x, "credit")' <=> HolderAt(x, "credit")
                        /\ HolderAt(x, "nonce")' <=> HolderAt(x, "nonce")
    BY <1>1, <1>3 DEF HolderAt
  <1>5. AbsBal' = AbsBal /\ AbsSeq' = AbsSeq
    BY <1>3, <1>4 DEF AbsBal, AbsSeq, HolderAt
  <1>6. AbsApplied' = AbsApplied
    BY <1>1, <1>2, <1>3 DEF AbsApplied
  <1>7. QED
    BY <1>3, <1>5, <1>6 DEF L!lvars

\* Every step of the DAG is a step of the ledger or invisible in it.
LEMMA NextRefines ==
    ASSUME IInv, IInv', [Next]_vars
    PROVE  [L!LNext]_(L!lvars)
  <1>0. TypeOK /\ TypeOK' /\ LockInv /\ LockInv' /\ BootInv
    BY DEF IInv
  <1> USE <1>0 DEF TypeOK, Applying, locals, ledger, graph
  <1>1. ASSUME NEW h \in Hash, InsertGenesis(h) PROVE [L!LNext]_(L!lvars)
    BY <1>1, InsertGenesisRefines DEF L!LNext
  <1>2. ASSUME NEW t \in Thread, NEW h \in Hash, NEW e \in Entry, Submit(t, h, e)
        PROVE  [L!LNext]_(L!lvars)
    BY <1>2, LedgerFrame DEF Submit, StartScan, NoScan
  <1>3. ASSUME NEW t \in Thread, AcquireLock(t) PROVE [L!LNext]_(L!lvars)
    BY <1>3, LedgerFrame DEF AcquireLock
  <1>4. ASSUME NEW t \in Thread, Step(t) PROVE [L!LNext]_(L!lvars)
    <2>1. ASSUME NEW a \in Addr, ScanBalance(t, a) PROVE [L!LNext]_(L!lvars)
      BY <2>1, LedgerFrame DEF ScanBalance
    <2>2. CASE NodeSupplyCheck(t)
      BY <2>2, LedgerFrame DEF NodeSupplyCheck, EndScan, Fail, Pass
    <2>3. CASE PreCheck(t)
      BY <2>3, LedgerFrame DEF PreCheck, NoScan, Fail, Pass
    <2>4. CASE DuplicateCheck(t)
      BY <2>4, LedgerFrame DEF DuplicateCheck, NoScan, StartScan, FailLocked, Pass
    <2>5. CASE ParentCheck1(t)
      BY <2>5, LedgerFrame DEF ParentCheck1, NoScan, FailLocked, Pass
    <2>6. CASE ParentCheck2(t)
      BY <2>6, LedgerFrame DEF ParentCheck2, NoScan, StartScan, FailLocked, Pass
    <2>7. CASE DagSupplyCheck(t)
      BY <2>7, LedgerFrame DEF DagSupplyCheck, EndScan, FailLocked, Pass
    <2>8. CASE BalanceAndNonceCheck(t)
      BY <2>8, LedgerFrame DEF BalanceAndNonceCheck, NoScan, FailLocked, Pass
    <2>9. CASE Debit(t)
      BY <2>9, DebitRefines
    <2>10. CASE Credit(t)
      BY <2>10, CreditRefines, ApplyingFacts DEF Credit, L!LNext
    <2>11. CASE IncrementNonce(t)
      BY <2>11, IncrementNonceRefines
    <2>12. CASE CommitTransaction(t)
      BY <2>12, CommitRefines
    <2>13. CASE ComputeDepth(t)
      BY <2>13, LedgerFrame DEF ComputeDepth
    <2>14. CASE LoadMaxDepth(t)
      BY <2>14, LedgerFrame DEF LoadMaxDepth
    <2>15. CASE SwapMaxDepth(t)
      BY <2>15, LedgerFrame DEF SwapMaxDepth
    <2>16. CASE LinkParents(t)
      BY <2>16, LedgerFrame DEF LinkParents
    <2>17. CASE RemoveTips(t)
      BY <2>17, LedgerFrame DEF RemoveTips
    <2>18. CASE AddTip(t)
      BY <2>18, LedgerFrame DEF AddTip
    <2>19. CASE StoreNode(t)
      BY <2>19, LedgerFrame DEF StoreNode
    <2>20. CASE Finish(t)
      BY <2>20, LedgerFrame DEF Finish
    <2>21. CASE Broadcast(t)
      BY <2>21, LedgerFrame DEF Broadcast
    <2>22. QED
      BY <1>4, <2>1, <2>2, <2>3, <2>4, <2>5, <2>6, <2>7, <2>8, <2>9, <2>10, <2>11, <2>12,
         <2>13, <2>14, <2>15, <2>16, <2>17, <2>18, <2>19, <2>20, <2>21 DEF Step
  <1>5. ASSUME NEW h \in Hash, NEW s \in Reported, SetStatus(h, s) PROVE [L!LNext]_(L!lvars)
    BY <1>5, LedgerFrame DEF SetStatus
  <1>6. ASSUME NEW h \in Hash, Prune(h) PROVE [L!LNext]_(L!lvars)
    BY <1>6, LedgerFrame DEF Prune
  <1>7. CASE UNCHANGED vars
    BY <1>7, LedgerFrame DEF vars
  <1>8. QED
    BY <1>1, <1>2, <1>3, <1>4, <1>5, <1>6, <1>7 DEF Next

(***************************************************************************)
(* The DAG implements the atomic ledger: for any threads, accounts and     *)
(* transactions, the debit, credit, nonce and log entry of an insertion    *)
(* take effect as one step, at most once, in nonce order and only when the *)
(* sender can pay (graph.rs:126-156).                                      *)
(***************************************************************************)
THEOREM Refinement == Spec => ImplementsLedger
  <1>1. Init => L!LInit
    BY InitRefines
  <1>2. IInv /\ IInv' /\ [Next]_vars => [L!LNext]_(L!lvars)
    BY NextRefines
  <1>3. QED
    BY <1>1, <1>2, Invariance, PTL DEF Spec, ImplementsLedger, L!LSpec

=============================================================================
