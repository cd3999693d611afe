------------------------------ MODULE DagGraph ------------------------------
(***************************************************************************)
(* The in-memory DAG of a node and the account ledger it maintains:        *)
(* crates/relyo-dag/src/graph.rs with the parts of state.rs, conflict.rs   *)
(* and tips.rs that DagGraph::insert drives, entered through               *)
(* RelyoNode::submit_transaction (crates/relyo-node/src/node.rs).          *)
(*                                                                         *)
(* submit_transaction runs on any number of runtime threads at once (RPC   *)
(* handlers and the gossip loop).  A thread is a program counter and the   *)
(* local variables of the call it executes.  Every action below makes at   *)
(* most one access to state that a concurrent call can change at the same  *)
(* time; accesses to state that only the holder of the sender's lock can   *)
(* change are grouped with their neighbours.                               *)
(***************************************************************************)
EXTENDS Naturals, FiniteSets

CONSTANTS
    Thread,     \* runtime threads that may execute a submission
    NoThread,   \* "the lock is free"
    Addr,       \* account addresses
    Hash,       \* transaction hashes
    Zero,       \* TransactionHash::zero()
    Tx,         \* the transaction with each hash (hashing is injective)
    Genesis,    \* transactions that start-up inserts with insert_genesis
    BaseFee,    \* RELYO_CONFIG.base_fee
    SupplyCap,  \* TOTAL_SUPPLY
    MaxU64,     \* largest value of a u64
    MinConfirmationDepth,  \* argument of prune_confirmed
    Reported,   \* statuses the consensus engine reports to set_status
    Entry       \* entry points in use: "submit" (node), "insert" (DAG API)

TransactionStatus == {"Pending", "Voting", "Confirmed", "Rejected"}

TransactionType == {"Transfer", "Genesis", "Other"}

(***************************************************************************)
(* signed stands for the two cryptographic checks, verify_sender and       *)
(* verify_signature.                                                       *)
(***************************************************************************)
Transaction ==
    [tx_type : TransactionType, sender : Addr, receiver : Addr,
     amount : Nat, fee : Nat, nonce : Nat,
     parent_1 : Hash \cup {Zero}, parent_2 : Hash \cup {Zero},
     signed : BOOLEAN]

\* An address is a byte string of fixed length.
ASSUME AddrAssumption == IsFiniteSet(Addr)

ASSUME ThreadAssumption == NoThread \notin Thread

ASSUME TxAssumption == Zero \notin Hash /\ Tx \in [Hash -> Transaction]

\* create_genesis builds its transactions with nonce 0 and zero parents.
ASSUME GenesisAssumption ==
    /\ Genesis \subseteq Hash
    /\ \A g \in Genesis :
          /\ Tx[g].tx_type = "Genesis" /\ Tx[g].nonce = 0
          /\ Tx[g].parent_1 = Zero /\ Tx[g].parent_2 = Zero

ASSUME BoundAssumption ==
    /\ BaseFee \in Nat /\ SupplyCap \in Nat /\ MaxU64 \in Nat
    /\ MinConfirmationDepth \in Nat
    /\ Reported \subseteq TransactionStatus
    /\ Entry \subseteq {"submit", "insert"}

VARIABLES
    balances,   \* LedgerState.balances (an absent entry reads 0)
    nonces,     \* LedgerState.nonces
    committed,  \* hashes in ConflictDetector.committed_nonces
    nodes,      \* keys of DagGraph.nodes
    info,       \* the DagNode stored under each key
    tips,       \* TipSelector.tips
    max_depth,
    total_count,
    lock,       \* owner of each sender's mutex in sender_locks
    boot,       \* genesis transactions start-up has still to insert
    pc,         \* where each thread is in submit_transaction / insert
    cur,        \* the transaction it is inserting
    via,        \* the entry point it was called through
    rest,       \* addresses its total_circulating scan has still to read
    acc,        \* what that scan has added up so far
    depth,      \* local variable depth
    current_max,\* local variable current_max of the max_depth loop
    result,     \* what its last call returned ("none" while it runs)
    sent        \* transactions handed to tx_sender for broadcast

ledger == <<balances, nonces, committed>>
graph  == <<nodes, info, tips, max_depth, total_count>>
locals == <<cur, via, rest, acc, depth, current_max>>
vars   == <<ledger, graph, lock, boot, pc, locals, result, sent>>

-----------------------------------------------------------------------------
(***************************************************************************)
(* Transactions.                                                           *)
(***************************************************************************)
is_genesis(h) ==
    /\ Tx[h].tx_type = "Genesis"
    /\ Tx[h].parent_1 = Zero
    /\ Tx[h].parent_2 = Zero

validate(h) ==
    /\ Tx[h].signed
    /\ Tx[h].tx_type = "Transfer" => Tx[h].amount > 0
    /\ Tx[h].tx_type = "Transfer" => Tx[h].sender # Tx[h].receiver
    /\ Tx[h].fee >= BaseFee \/ is_genesis(h)

sender(h)      == Tx[h].sender
receiver(h)    == Tx[h].receiver
total_debit(h) == Tx[h].amount + Tx[h].fee
Parents(h)     == {Tx[h].parent_1, Tx[h].parent_2}

\* The key of a transaction in committed_nonces.
NonceKey(h) == <<Tx[h].sender, Tx[h].nonce>>

NoNode == [status |-> "Pending", children |-> {}, weight |-> 0, depth |-> 0]

NewNode(s, d) == [status |-> s, children |-> {}, weight |-> 1, depth |-> d]

\* self.nodes.get(p).map(|n| n.depth).unwrap_or(0)
DepthOf(p) == IF p \in nodes THEN info[p].depth ELSE 0

MaxOf(a, b) == IF a >= b THEN a ELSE b

-----------------------------------------------------------------------------
Init ==
    /\ balances = [a \in Addr |-> 0]
    /\ nonces = [a \in Addr |-> 0]
    /\ committed = {}
    /\ nodes = {}
    /\ info = [h \in Hash |-> NoNode]
    /\ tips = {}
    /\ max_depth = 0
    /\ total_count = 0
    /\ lock = [a \in Addr |-> NoThread]
    /\ boot = Genesis
    /\ pc = [t \in Thread |-> "idle"]
    /\ cur = [t \in Thread |-> Zero]
    /\ via = [t \in Thread |-> "submit"]
    /\ rest = [t \in Thread |-> {}]
    /\ acc = [t \in Thread |-> 0]
    /\ depth = [t \in Thread |-> 0]
    /\ current_max = [t \in Thread |-> 0]
    /\ result = [t \in Thread |-> "none"]
    /\ sent = {}

-----------------------------------------------------------------------------
(***************************************************************************)
(* Start-up: insert_genesis, called once per genesis transaction before    *)
(* the node serves anything.  It credits the receiver out of nothing.      *)
(* credit is a fetch_add on a u64; what genesis allocates fits in one, and *)
(* no later step adds to the sum of the balances, so it never wraps.       *)
(***************************************************************************)
InsertGenesis(h) ==
    /\ h \in boot
    /\ boot' = boot \ {h}
    /\ balances' = [balances EXCEPT ![receiver(h)] = @ + Tx[h].amount]
    /\ info' = [info EXCEPT ![h] = NewNode("Confirmed", 0)]
    /\ nodes' = nodes \cup {h}
    /\ tips' = tips \cup {h}
    /\ total_count' = total_count + 1
    /\ UNCHANGED <<nonces, committed, max_depth, lock, pc, locals, result, sent>>

-----------------------------------------------------------------------------
(***************************************************************************)
(* One submission, step by step.                                           *)
(***************************************************************************)
At(t, label) == pc[t] = label

Goto(t, label) == pc' = [pc EXCEPT ![t] = label]

\* A check that passes: the call goes on, and nothing else changes.
Pass(t, label) ==
    /\ Goto(t, label)
    /\ UNCHANGED <<ledger, graph, lock, boot, cur, via, depth, current_max,
                   result, sent>>

\* An early return with an error, before the sender's lock is taken ...
Fail(t, e) ==
    /\ Goto(t, "idle")
    /\ result' = [result EXCEPT ![t] = e]
    /\ UNCHANGED <<ledger, graph, lock, boot, cur, via, depth, current_max, sent>>

\* ... and after it: returning drops the guard.
FailLocked(t, e) ==
    /\ Goto(t, "idle")
    /\ result' = [result EXCEPT ![t] = e]
    /\ lock' = [lock EXCEPT ![sender(cur[t])] = NoThread]
    /\ UNCHANGED <<ledger, graph, boot, cur, via, depth, current_max, sent>>

StartScan(t) == rest' = [rest EXCEPT ![t] = Addr] /\ UNCHANGED acc
EndScan(t)   == rest[t] = {} /\ acc' = [acc EXCEPT ![t] = 0] /\ UNCHANGED rest
NoScan       == UNCHANGED <<rest, acc>>

(***************************************************************************)
(* A transaction arrives: over RPC or gossip (submit_transaction, which    *)
(* asks the sender's rate limiter and then starts its own supply check) or *)
(* straight at DagGraph.  The limiter's answer depends on the clock: here  *)
(* it is arbitrary.                                                        *)
(***************************************************************************)
Submit(t, h, entry) ==
    /\ At(t, "idle")
    /\ boot = {}
    /\ \/ /\ entry = "submit" /\ Goto(t, "cap1") /\ StartScan(t)
          /\ result' = [result EXCEPT ![t] = "none"]
       \/ /\ entry = "submit" /\ Goto(t, "idle") /\ NoScan
          /\ result' = [result EXCEPT ![t] = "RateLimitExceeded"]
       \/ /\ entry = "insert" /\ Goto(t, "validate") /\ NoScan
          /\ result' = [result EXCEPT ![t] = "none"]
    /\ cur' = [cur EXCEPT ![t] = h]
    /\ via' = [via EXCEPT ![t] = entry]
    /\ UNCHANGED <<ledger, graph, lock, boot, depth, current_max, sent>>

(***************************************************************************)
(* total_circulating iterates over the balances without any lock that      *)
(* covers them all: one entry per step, in any order.  (Stakes and         *)
(* pending unstakes are empty: no submission creates them.)                *)
(***************************************************************************)
ScanBalance(t, a) ==
    /\ pc[t] \in {"cap1", "cap2"}
    /\ a \in rest[t]
    /\ rest' = [rest EXCEPT ![t] = @ \ {a}]
    /\ acc' = [acc EXCEPT ![t] = @ + balances[a]]
    /\ UNCHANGED <<ledger, graph, lock, boot, pc, cur, via, depth, current_max,
                   result, sent>>

\* node.rs: `total_circulating + tx.amount` wraps in a release build.
NodeCapExceeded(total, h) == (total + Tx[h].amount) % (MaxU64 + 1) > SupplyCap

\* graph.rs: `total_circulating().saturating_add(tx.amount)`.
DagCapExceeded(total, h) ==
    (IF total + Tx[h].amount > MaxU64 THEN MaxU64 ELSE total + Tx[h].amount) > SupplyCap

NodeSupplyCheck(t) ==
    /\ At(t, "cap1")
    /\ EndScan(t)
    /\ \/ /\ NodeCapExceeded(acc[t], cur[t])
          /\ Fail(t, "SupplyCapExceeded")
       \/ /\ ~NodeCapExceeded(acc[t], cur[t])
          /\ Pass(t, "validate")

\* insert: tx.validate(), then the balance check made before the lock exists.
PreCheck(t) ==
    /\ At(t, "validate")
    /\ NoScan
    /\ \/ /\ ~validate(cur[t]) \/ total_debit(cur[t]) > MaxU64
          /\ Fail(t, "InvalidTransaction")
       \/ /\ validate(cur[t]) /\ total_debit(cur[t]) <= MaxU64
          /\ balances[sender(cur[t])] < total_debit(cur[t])
          /\ Fail(t, "InsufficientBalance")
       \/ /\ validate(cur[t]) /\ total_debit(cur[t]) <= MaxU64
          /\ balances[sender(cur[t])] >= total_debit(cur[t])
          /\ Pass(t, "lock")

\* Mutant: the mutex does not exclude.
AcquireLockShared(t) ==
    /\ At(t, "lock") /\ Goto(t, "dup")
    /\ lock' = [lock EXCEPT ![sender(cur[t])] = t]
    /\ UNCHANGED <<ledger, graph, boot, locals, result, sent>>

AcquireLock(t) ==
    /\ At(t, "lock")
    /\ lock[sender(cur[t])] = NoThread
    /\ Goto(t, "dup")
    /\ lock' = [lock EXCEPT ![sender(cur[t])] = t]
    /\ UNCHANGED <<ledger, graph, boot, locals, result, sent>>

DuplicateCheck(t) ==
    /\ At(t, "dup")
    /\ \/ /\ cur[t] \in nodes
          /\ FailLocked(t, "InvalidTransaction") /\ NoScan
       \/ /\ cur[t] \notin nodes /\ ~is_genesis(cur[t])
          /\ Pass(t, "parent1") /\ NoScan
       \/ /\ cur[t] \notin nodes /\ is_genesis(cur[t])
          /\ Pass(t, "cap2") /\ StartScan(t)

ParentCheck1(t) ==
    /\ At(t, "parent1")
    /\ NoScan
    /\ \/ /\ Tx[cur[t]].parent_1 \notin nodes
          /\ FailLocked(t, "InvalidParent")
       \/ /\ Tx[cur[t]].parent_1 \in nodes
          /\ Pass(t, "parent2")

ParentCheck2(t) ==
    /\ At(t, "parent2")
    /\ \/ /\ Tx[cur[t]].parent_2 \notin nodes
          /\ FailLocked(t, "InvalidParent") /\ NoScan
       \/ /\ Tx[cur[t]].parent_2 \in nodes
          /\ Pass(t, "cap2") /\ StartScan(t)

DagSupplyCheck(t) ==
    /\ At(t, "cap2")
    /\ EndScan(t)
    /\ \/ /\ DagCapExceeded(acc[t], cur[t])
          /\ FailLocked(t, "SupplyCapExceeded")
       \/ /\ ~DagCapExceeded(acc[t], cur[t])
          /\ Pass(t, "check")

(***************************************************************************)
(* The balance re-check, ConflictDetector::check_transaction and the nonce *)
(* check.  Only a debit by this sender can lower the balance, and only a   *)
(* holder of this sender's lock touches its nonce or its nonce keys, so    *)
(* the three reads are one step.  check_transaction's DoubleSpend compares *)
(* the same balance with the same sum again and cannot be reached.         *)
(***************************************************************************)
NonceTaken(h) == \E c \in committed : NonceKey(c) = NonceKey(h)

NonceExpected(h) == Tx[h].nonce = nonces[sender(h)] + 1

\* Mutant: any unused nonce will do.
BalanceAndFreshNonceCheck(t) ==
    /\ At(t, "check") /\ NoScan
    /\ \/ /\ balances[sender(cur[t])] < total_debit(cur[t])
          /\ FailLocked(t, "InsufficientBalance")
       \/ /\ balances[sender(cur[t])] >= total_debit(cur[t]) /\ NonceTaken(cur[t])
          /\ FailLocked(t, "DuplicateNonce")
       \/ /\ balances[sender(cur[t])] >= total_debit(cur[t]) /\ ~NonceTaken(cur[t])
          /\ Pass(t, "debit")

BalanceAndNonceCheck(t) ==
    /\ At(t, "check")
    /\ NoScan
    /\ \/ /\ balances[sender(cur[t])] < total_debit(cur[t])
          /\ FailLocked(t, "InsufficientBalance")
       \/ /\ balances[sender(cur[t])] >= total_debit(cur[t])
          /\ NonceTaken(cur[t]) \/ ~NonceExpected(cur[t])
          /\ FailLocked(t, "DuplicateNonce")
       \/ /\ balances[sender(cur[t])] >= total_debit(cur[t])
          /\ ~NonceTaken(cur[t]) /\ NonceExpected(cur[t])
          /\ Pass(t, "debit")

\* Mutant: the fee is not charged.
DebitAmountOnly(t) ==
    /\ At(t, "debit") /\ Goto(t, "credit")
    /\ balances' = [balances EXCEPT ![sender(cur[t])] = @ - Tx[cur[t]].amount]
    /\ UNCHANGED <<nonces, committed, graph, lock, boot, locals, result, sent>>

\* LedgerState::debit re-reads the balance; its error leaves insert by `?`.
Debit(t) ==
    /\ At(t, "debit")
    /\ IF balances[sender(cur[t])] < total_debit(cur[t])
       THEN FailLocked(t, "InsufficientBalance") /\ NoScan
       ELSE /\ Goto(t, "credit")
            /\ balances' = [balances EXCEPT ![sender(cur[t])] = @ - total_debit(cur[t])]
            /\ UNCHANGED <<nonces, committed, graph, lock, boot, locals, result, sent>>

\* Mutant: the receiver is credited the fee as well.
CreditWithFee(t) ==
    /\ At(t, "credit") /\ Goto(t, "nonce")
    /\ balances' = [balances EXCEPT ![receiver(cur[t])] = @ + total_debit(cur[t])]
    /\ UNCHANGED <<nonces, committed, graph, lock, boot, locals, result, sent>>

Credit(t) ==
    /\ At(t, "credit")
    /\ Goto(t, "nonce")
    /\ balances' = [balances EXCEPT ![receiver(cur[t])] = @ + Tx[cur[t]].amount]
    /\ UNCHANGED <<nonces, committed, graph, lock, boot, locals, result, sent>>

IncrementNonce(t) ==
    /\ At(t, "nonce")
    /\ Goto(t, "commit")
    /\ nonces' = [nonces EXCEPT ![sender(cur[t])] = @ + 1]
    /\ UNCHANGED <<balances, committed, graph, lock, boot, locals, result, sent>>

\* committed_nonces.insert replaces whatever the key held.
CommitTransaction(t) ==
    /\ At(t, "commit")
    /\ Goto(t, "depth")
    /\ committed' = {c \in committed : NonceKey(c) # NonceKey(cur[t])} \cup {cur[t]}
    /\ UNCHANGED <<balances, nonces, graph, lock, boot, locals, result, sent>>

\* Mutant: only the first parent's depth counts.
ComputeDepthOfFirst(t) ==
    /\ At(t, "depth") /\ Goto(t, "maxload")
    /\ depth' = [depth EXCEPT ![t] =
                    IF is_genesis(cur[t]) THEN 0 ELSE DepthOf(Tx[cur[t]].parent_1) + 1]
    /\ UNCHANGED <<ledger, graph, lock, boot, cur, via, rest, acc, current_max,
                   result, sent>>

(***************************************************************************)
(* The two parents' depths.  A depth never changes once stored and a node  *)
(* can only disappear, so reading both at once gives every pair of values  *)
(* that two separate reads can.                                            *)
(***************************************************************************)
ComputeDepth(t) ==
    /\ At(t, "depth")
    /\ Goto(t, "maxload")
    /\ depth' = [depth EXCEPT ![t] =
                    IF is_genesis(cur[t]) THEN 0
                    ELSE MaxOf(DepthOf(Tx[cur[t]].parent_1), DepthOf(Tx[cur[t]].parent_2)) + 1]
    /\ UNCHANGED <<ledger, graph, lock, boot, cur, via, rest, acc, current_max,
                   result, sent>>

\* The compare-and-swap loop on max_depth: load and leave, or load and try ...
LoadMaxDepth(t) ==
    /\ At(t, "maxload")
    /\ \/ depth[t] <= max_depth /\ Goto(t, "link") /\ UNCHANGED current_max
       \/ /\ depth[t] > max_depth /\ Goto(t, "maxcas")
          /\ current_max' = [current_max EXCEPT ![t] = max_depth]
    /\ UNCHANGED <<ledger, graph, lock, boot, cur, via, rest, acc, depth,
                   result, sent>>

\* Mutant: a store instead of a compare-and-swap.
StoreMaxDepth(t) ==
    /\ At(t, "maxcas") /\ Goto(t, "link")
    /\ max_depth' = depth[t]
    /\ current_max' = [current_max EXCEPT ![t] = 0]
    /\ UNCHANGED <<ledger, nodes, info, tips, total_count, lock, boot, cur, via, rest,
                   acc, depth, result, sent>>

\* Mutant: max_depth is loaded once, before the loop.
SwapMaxDepthStale(t) ==
    /\ At(t, "maxcas")
    /\ \/ max_depth = current_max[t] /\ Goto(t, "link") /\ max_depth' = depth[t]
       \/ max_depth # current_max[t] /\ UNCHANGED <<pc, max_depth>>
    /\ UNCHANGED <<ledger, nodes, info, tips, total_count, lock, boot, cur, via, rest,
                   acc, depth, current_max, result, sent>>

\* ... to swap, going round again when another thread was faster.
SwapMaxDepth(t) ==
    /\ At(t, "maxcas")
    /\ \/ max_depth = current_max[t] /\ Goto(t, "link") /\ max_depth' = depth[t]
       \/ max_depth # current_max[t] /\ Goto(t, "maxload") /\ UNCHANGED max_depth
    /\ current_max' = [current_max EXCEPT ![t] = 0]
    /\ UNCHANGED <<ledger, nodes, info, tips, total_count, lock, boot, cur, via, rest,
                   acc, depth, result, sent>>

\* Mutant: the second parent is not linked.
LinkFirstParent(t) ==
    /\ At(t, "link") /\ Goto(t, "untip")
    /\ info' = [p \in Hash |->
                  IF p \in {Tx[cur[t]].parent_1} \cap nodes
                  THEN [info[p] EXCEPT !.children = @ \cup {cur[t]}, !.weight = @ + 1]
                  ELSE info[p]]
    /\ UNCHANGED <<ledger, nodes, tips, max_depth, total_count, lock, boot, locals,
                   result, sent>>

(***************************************************************************)
(* add_child and propagate_weight on both parents, each a no-op when the   *)
(* parent has been pruned meanwhile.  They only add to entries nobody else *)
(* reads during an insertion, so their order is not observable.  Two equal *)
(* parents are updated twice: the weight grows by 2.                       *)
(***************************************************************************)
Linked(n, child, times) == [n EXCEPT !.children = @ \cup {child}, !.weight = @ + times]

Times(h) == IF Tx[h].parent_1 = Tx[h].parent_2 THEN 2 ELSE 1

LinkParents(t) ==
    /\ At(t, "link")
    /\ Goto(t, "untip")
    /\ info' = [p \in Hash |-> IF p \in Parents(cur[t]) \cap nodes
                               THEN Linked(info[p], cur[t], Times(cur[t])) ELSE info[p]]
    /\ UNCHANGED <<ledger, nodes, tips, max_depth, total_count, lock, boot, locals,
                   result, sent>>

\* Mutant: the second parent stays a tip.
RemoveFirstTip(t) ==
    /\ At(t, "untip") /\ Goto(t, "tip")
    /\ tips' = tips \ {Tx[cur[t]].parent_1}
    /\ UNCHANGED <<ledger, nodes, info, max_depth, total_count, lock, boot, locals,
                   result, sent>>

\* Two removals; no submission reads the tips, so nobody can tell them apart.
RemoveTips(t) ==
    /\ At(t, "untip")
    /\ Goto(t, "tip")
    /\ tips' = tips \ Parents(cur[t])
    /\ UNCHANGED <<ledger, nodes, info, max_depth, total_count, lock, boot, locals,
                   result, sent>>

\* tips.add comes before nodes.insert: for a moment a tip names no node.
AddTip(t) ==
    /\ At(t, "tip")
    /\ Goto(t, "store")
    /\ tips' = tips \cup {cur[t]}
    /\ UNCHANGED <<ledger, nodes, info, max_depth, total_count, lock, boot, locals,
                   result, sent>>

StoreNode(t) ==
    /\ At(t, "store")
    /\ Goto(t, "count")
    /\ nodes' = nodes \cup {cur[t]}
    /\ info' = [info EXCEPT ![cur[t]] = NewNode("Pending", depth[t])]
    /\ depth' = [depth EXCEPT ![t] = 0]
    /\ UNCHANGED <<ledger, tips, max_depth, total_count, lock, boot, cur, via, rest,
                   acc, current_max, result, sent>>

\* The counter, and Ok(hash): the guard is dropped.
Finish(t) ==
    /\ At(t, "count")
    /\ \/ via[t] = "submit" /\ Goto(t, "send") /\ UNCHANGED result
       \/ /\ via[t] = "insert" /\ Goto(t, "idle")
          /\ result' = [result EXCEPT ![t] = "Ok"]
    /\ total_count' = total_count + 1
    /\ lock' = [lock EXCEPT ![sender(cur[t])] = NoThread]
    /\ UNCHANGED <<ledger, nodes, info, tips, max_depth, boot, locals, sent>>

\* submit_transaction hands an accepted transaction to the broadcast channel.
Broadcast(t) ==
    /\ At(t, "send")
    /\ Goto(t, "idle")
    /\ sent' = sent \cup {cur[t]}
    /\ result' = [result EXCEPT ![t] = "Ok"]
    /\ UNCHANGED <<ledger, graph, lock, boot, locals>>

-----------------------------------------------------------------------------
(***************************************************************************)
(* What the consensus engine and maintenance do to stored nodes.           *)
(***************************************************************************)
SetStatus(h, s) ==
    /\ h \in nodes
    /\ info[h].status # s
    /\ info' = [info EXCEPT ![h].status = s]
    /\ UNCHANGED <<ledger, nodes, tips, max_depth, total_count, lock, boot, pc, locals,
                   result, sent>>

(***************************************************************************)
(* prune_confirmed examines the entries one by one against a max_depth     *)
(* read at its start.  max_depth only grows, so an entry that qualifies    *)
(* against the old value qualifies now: removing one entry per step covers *)
(* every interleaving of a pass.  Tips and total_count are left alone.     *)
(***************************************************************************)
Prunable(h) ==
    /\ h \in nodes
    /\ info[h].status = "Confirmed"
    /\ max_depth > info[h].depth + MinConfirmationDepth

Prune(h) ==
    /\ Prunable(h)
    /\ nodes' = nodes \ {h}
    /\ info' = [info EXCEPT ![h] = NoNode]
    /\ UNCHANGED <<ledger, tips, max_depth, total_count, lock, boot, pc, locals,
                   result, sent>>

-----------------------------------------------------------------------------
\* Every step of a submission but waiting for the lock.
Step(t) ==
    \/ \E a \in Addr : ScanBalance(t, a)
    \/ NodeSupplyCheck(t)
    \/ PreCheck(t)
    \/ DuplicateCheck(t)
    \/ ParentCheck1(t)
    \/ ParentCheck2(t)
    \/ DagSupplyCheck(t)
    \/ BalanceAndNonceCheck(t)
    \/ Debit(t)
    \/ Credit(t)
    \/ IncrementNonce(t)
    \/ CommitTransaction(t)
    \/ ComputeDepth(t)
    \/ LoadMaxDepth(t)
    \/ SwapMaxDepth(t)
    \/ LinkParents(t)
    \/ RemoveTips(t)
    \/ AddTip(t)
    \/ StoreNode(t)
    \/ Finish(t)
    \/ Broadcast(t)

Next ==
    \/ \E h \in Hash : InsertGenesis(h)
    \/ \E t \in Thread, h \in Hash, e \in Entry : Submit(t, h, e)
    \/ \E t \in Thread : AcquireLock(t)
    \/ \E t \in Thread : Step(t)
    \/ \E h \in Hash, s \in Reported : SetStatus(h, s)
    \/ \E h \in Hash : Prune(h)

Spec == Init /\ [][Next]_vars

(***************************************************************************)
(* A runtime thread that can run is eventually run, and parking_lot's      *)
(* mutex is eventually fair: a thread that waits for a lock that keeps     *)
(* being released gets it.  Nothing is assumed about new submissions.      *)
(***************************************************************************)
Fairness ==
    /\ \A t \in Thread : WF_vars(Step(t))
    /\ \A t \in Thread : SF_vars(AcquireLock(t))

FairSpec == Spec /\ Fairness

-----------------------------------------------------------------------------
(***************************************************************************)
(* Properties.                                                             *)
(***************************************************************************)
BeforeLock == {"cap1", "validate", "lock"}
BeforeDebit == {"dup", "parent1", "parent2", "cap2", "check", "debit"}
Applying    == {"credit", "nonce", "commit"}
Weaving     == {"depth", "maxload", "maxcas", "link", "untip", "tip", "store"}
Holding     == BeforeDebit \cup Applying \cup Weaving \cup {"count"}

Results == {"none", "Ok", "RateLimitExceeded", "SupplyCapExceeded", "InvalidTransaction",
            "InvalidParent", "InsufficientBalance", "DuplicateNonce"}

NodeInfo == [status : TransactionStatus, children : SUBSET Hash, weight : Nat, depth : Nat]

\* The state has the types of DagGraph's fields, and a running call has a transaction.
TypeOK ==
    /\ balances \in [Addr -> Nat]
    /\ nonces \in [Addr -> Nat]
    /\ committed \subseteq Hash
    /\ nodes \subseteq Hash
    /\ info \in [Hash -> NodeInfo]
    /\ tips \subseteq Hash
    /\ max_depth \in Nat
    /\ total_count \in Nat
    /\ lock \in [Addr -> Thread \cup {NoThread}]
    /\ boot \subseteq Genesis
    /\ pc \in [Thread -> {"idle", "send"} \cup BeforeLock \cup Holding]
    /\ cur \in [Thread -> Hash \cup {Zero}]
    /\ via \in [Thread -> {"submit", "insert"}]
    /\ rest \in [Thread -> SUBSET Addr]
    /\ acc \in [Thread -> Nat]
    /\ depth \in [Thread -> Nat]
    /\ current_max \in [Thread -> Nat]
    /\ result \in [Thread -> Results]
    /\ sent \subseteq Hash
    /\ \A t \in Thread : pc[t] # "idle" => cur[t] \in Hash

(***************************************************************************)
(* When insert reaches state.debit, the balance covers the debit whatever  *)
(* the other threads did since it was checked: the error that debit can    *)
(* return is never taken, and no balance is overdrawn (graph.rs:126-153).  *)
(***************************************************************************)
DebitIsCovered ==
    \A t \in Thread :
        pc[t] = "debit" => balances[sender(cur[t])] >= total_debit(cur[t])

(***************************************************************************)
(* The nonces a sender has used are exactly 1..nonces[sender], each by one *)
(* transaction, also while a commit is in progress and after pruning: no   *)
(* transaction is applied twice and no two with the same nonce are         *)
(* (graph.rs:136-156).                                                     *)
(***************************************************************************)
CommittedBy(a) == {c \in committed : sender(c) = a}

CommitPending(a) == \E t \in Thread : pc[t] = "commit" /\ sender(cur[t]) = a

NonceLogIsExact ==
    \A a \in Addr :
        /\ {Tx[c].nonce : c \in CommittedBy(a)}
             = 1 .. (IF CommitPending(a) THEN nonces[a] - 1 ELSE nonces[a])
        /\ \A c, d \in CommittedBy(a) : Tx[c].nonce = Tx[d].nonce => c = d

(***************************************************************************)
(* "Tips are transactions not yet referenced as parents by newer           *)
(* transactions" (tips.rs:8): no stored node names a tip as its parent.    *)
(***************************************************************************)
TipsAreUnreferenced == \A h \in nodes : Parents(h) \cap tips = {}

(***************************************************************************)
(* A stored node is a tip until a child is linked to it, so every node can *)
(* be reached from the tips or through children (graph.rs:178-200).        *)
(***************************************************************************)
FrontierIsComplete == \A h \in nodes : h \in tips \/ info[h].children # {}

(***************************************************************************)
(* A stored node lies strictly deeper than each parent still stored, even  *)
(* when pruning ran between the parent check and the depth computation:    *)
(* the stored graph is acyclic (graph.rs:158-165).                         *)
(***************************************************************************)
DepthFollowsParents ==
    \A h \in nodes : \A p \in Parents(h) \cap nodes : info[p].depth < info[h].depth

\* max_depth bounds every stored depth: no update is lost to a race (graph.rs:168-176).
MaxDepthIsBound == \A h \in nodes : info[h].depth <= max_depth

(***************************************************************************)
(* A submission always returns, whatever the others do: no early return    *)
(* keeps the sender's lock and the max_depth loop ends (graph.rs:82-205).  *)
(***************************************************************************)
SubmissionReturns == \A t \in Thread : pc[t] # "idle" ~> pc[t] = "idle"

=============================================================================
