------------------------------- MODULE Mempool ------------------------------
(***************************************************************************)
(* The mempool of crates/relyo-dag/src/mempool.rs: a concurrent map of     *)
(* transactions, an index of it by sender and a counter of the fees in it. *)
(* The three are updated one after the other, without a lock that covers   *)
(* them, by any number of threads: Inserter runs insert, Remover runs      *)
(* remove and the two drains.  Every action makes one access to one map    *)
(* entry or to the counter.                                                *)
(***************************************************************************)
EXTENDS Integers, FiniteSets, Totals

CONSTANTS
    Inserter,   \* threads that run insert
    Remover,    \* threads that run remove, drain_batch or drain_by_priority
    Addr,       \* account addresses
    Hash,       \* transaction hashes
    NoTx,       \* no transaction
    Sender,     \* sender of each transaction
    Fee,        \* fee of each transaction
    Timestamp,  \* timestamp of each transaction
    Weight,     \* fee per byte of each transaction
    MaxSize,    \* max_size
    BatchSize   \* count of a drain

ASSUME MempoolAssumption ==
    /\ Inserter # {} /\ IsFiniteSet(Inserter) /\ IsFiniteSet(Remover)
    /\ IsFiniteSet(Hash) /\ NoTx \notin Hash
    /\ Sender \in [Hash -> Addr] /\ Fee \in [Hash -> Nat]
    /\ Timestamp \in [Hash -> Nat] /\ Weight \in [Hash -> Nat]
    /\ MaxSize \in Nat /\ BatchSize \in Nat

VARIABLES
    txs,         \* keys of the map (the hash determines the transaction)
    by_sender,   \* the index: the set in each sender's entry, {} where there is none
    senders,     \* senders that have an entry
    total_fees,
    ipc, cur,    \* where each inserter is, and its transaction
    unread, len, \* its scan of the shards' sizes: what is still to be counted
    rpc, unseen, \* where each remover is, and what its drain has still to look at
    entries,     \* what it has collected and not yet removed
    order, left, \* the key it drains by, and how many it may still take
    gone         \* the transaction it has removed from the map

index == <<by_sender, senders>>
ilocals == <<ipc, cur, unread, len>>
rlocals == <<rpc, unseen, entries, order, left, gone>>
vars == <<txs, index, total_fees, ilocals, rlocals>>

Init ==
    /\ txs = {}
    /\ by_sender = [a \in Addr |-> {}]
    /\ senders = {}
    /\ total_fees = 0
    /\ ipc = [i \in Inserter |-> "idle"]
    /\ cur = [i \in Inserter |-> NoTx]
    /\ unread = [i \in Inserter |-> {}]
    /\ len = [i \in Inserter |-> 0]
    /\ rpc = [r \in Remover |-> "idle"]
    /\ unseen = [r \in Remover |-> {}]
    /\ entries = [r \in Remover |-> {}]
    /\ order = [r \in Remover |-> "none"]
    /\ left = [r \in Remover |-> 0]
    /\ gone = [r \in Remover |-> NoTx]

-----------------------------------------------------------------------------
(***************************************************************************)
(* insert.  txs.len() adds up the sizes of the map's shards one by one.    *)
(* Keys are spread over the shards by a hash function, so what a scan has  *)
(* and has not yet counted can be any set of keys.                         *)
(***************************************************************************)
Insert(i, h) ==
    /\ ipc[i] = "idle"
    /\ ipc' = [ipc EXCEPT ![i] = "len"]
    /\ cur' = [cur EXCEPT ![i] = h]
    /\ unread' = [unread EXCEPT ![i] = Hash]
    /\ UNCHANGED <<txs, index, total_fees, len, rlocals>>

CountShard(i, h) ==
    /\ ipc[i] = "len" /\ h \in unread[i]
    /\ unread' = [unread EXCEPT ![i] = @ \ {h}]
    /\ len' = [len EXCEPT ![i] = @ + (IF h \in txs THEN 1 ELSE 0)]
    /\ UNCHANGED <<txs, index, total_fees, ipc, cur, rlocals>>

Back(i) == ipc' = [ipc EXCEPT ![i] = "idle"] /\ cur' = [cur EXCEPT ![i] = NoTx]

\* Mutant: one more than max_size.
CheckSizeAbove(i) ==
    /\ ipc[i] = "len" /\ unread[i] = {}
    /\ \/ len[i] > MaxSize /\ Back(i)
       \/ len[i] <= MaxSize /\ ipc' = [ipc EXCEPT ![i] = "exists"] /\ UNCHANGED cur
    /\ len' = [len EXCEPT ![i] = 0]
    /\ UNCHANGED <<txs, index, total_fees, unread, rlocals>>

CheckSize(i) ==
    /\ ipc[i] = "len" /\ unread[i] = {}
    /\ \/ len[i] >= MaxSize /\ Back(i)
       \/ len[i] < MaxSize /\ ipc' = [ipc EXCEPT ![i] = "exists"] /\ UNCHANGED cur
    /\ len' = [len EXCEPT ![i] = 0]
    /\ UNCHANGED <<txs, index, total_fees, unread, rlocals>>

\* Mutant: a transaction that is there already is inserted again.
CheckNothing(i) ==
    /\ ipc[i] = "exists" /\ ipc' = [ipc EXCEPT ![i] = "fee"]
    /\ UNCHANGED <<txs, index, total_fees, cur, unread, len, rlocals>>

CheckExists(i) ==
    /\ ipc[i] = "exists"
    /\ \/ cur[i] \in txs /\ Back(i)
       \/ cur[i] \notin txs /\ ipc' = [ipc EXCEPT ![i] = "fee"] /\ UNCHANGED cur
    /\ UNCHANGED <<txs, index, total_fees, unread, len, rlocals>>

AddFee(i) ==
    /\ ipc[i] = "fee"
    /\ ipc' = [ipc EXCEPT ![i] = "index"]
    /\ total_fees' = total_fees + Fee[cur[i]]
    /\ UNCHANGED <<txs, index, cur, unread, len, rlocals>>

InsertIndex(i) ==
    /\ ipc[i] = "index"
    /\ ipc' = [ipc EXCEPT ![i] = "store"]
    /\ by_sender' = [by_sender EXCEPT ![Sender[cur[i]]] = @ \cup {cur[i]}]
    /\ senders' = senders \cup {Sender[cur[i]]}
    /\ UNCHANGED <<txs, total_fees, cur, unread, len, rlocals>>

Store(i) ==
    /\ ipc[i] = "store"
    /\ Back(i)
    /\ txs' = txs \cup {cur[i]}
    /\ UNCHANGED <<index, total_fees, unread, len, rlocals>>

-----------------------------------------------------------------------------
(***************************************************************************)
(* A drain collects the map's entries shard by shard, sorts them and       *)
(* removes the first ones.  A tie is broken by the order of the iteration, *)
(* which is arbitrary.  remove is a drain of one given transaction.        *)
(***************************************************************************)
Remove(r, h) ==
    /\ rpc[r] = "idle"
    /\ rpc' = [rpc EXCEPT ![r] = "remove"]
    /\ entries' = [entries EXCEPT ![r] = {h}]
    /\ left' = [left EXCEPT ![r] = 1]
    /\ UNCHANGED <<txs, index, total_fees, ilocals, unseen, order, gone>>

Drain(r, key) ==
    /\ rpc[r] = "idle"
    /\ rpc' = [rpc EXCEPT ![r] = "collect"]
    /\ unseen' = [unseen EXCEPT ![r] = Hash]
    /\ order' = [order EXCEPT ![r] = key]
    /\ left' = [left EXCEPT ![r] = BatchSize]
    /\ UNCHANGED <<txs, index, total_fees, ilocals, entries, gone>>

Collect(r, h) ==
    /\ rpc[r] = "collect" /\ h \in unseen[r]
    /\ unseen' = [unseen EXCEPT ![r] = @ \ {h}]
    /\ entries' = [entries EXCEPT ![r] = @ \cup ({h} \cap txs)]
    /\ rpc' = [rpc EXCEPT ![r] = IF unseen[r] = {h} THEN "remove" ELSE "collect"]
    /\ UNCHANGED <<txs, index, total_fees, ilocals, order, left, gone>>

\* Oldest first, or heaviest first.
Before(key, h, k) ==
    \/ key = "timestamp" /\ Timestamp[h] < Timestamp[k]
    \/ key = "weight" /\ Weight[h] > Weight[k]

\* Somebody else may have removed the transaction since it was collected.
RemoveTx(r, h) ==
    /\ rpc[r] = "remove" /\ left[r] > 0
    /\ h \in entries[r] /\ \A k \in entries[r] : ~Before(order[r], k, h)
    /\ entries' = [entries EXCEPT ![r] = @ \ {h}]
    /\ left' = [left EXCEPT ![r] = @ - 1]
    /\ \/ h \in txs /\ rpc' = [rpc EXCEPT ![r] = "fee"] /\ gone' = [gone EXCEPT ![r] = h]
       \/ h \notin txs /\ UNCHANGED <<rpc, gone>>
    /\ txs' = txs \ {h}
    /\ UNCHANGED <<index, total_fees, ilocals, unseen, order>>

\* Mutant: the index is forgotten.
SubtractFeeOnly(r) ==
    /\ rpc[r] = "fee" /\ rpc' = [rpc EXCEPT ![r] = "remove"]
    /\ total_fees' = total_fees - Fee[gone[r]]
    /\ gone' = [gone EXCEPT ![r] = NoTx]
    /\ UNCHANGED <<txs, index, ilocals, unseen, entries, order, left>>

SubtractFee(r) ==
    /\ rpc[r] = "fee"
    /\ rpc' = [rpc EXCEPT ![r] = "index"]
    /\ total_fees' = total_fees - Fee[gone[r]]
    /\ UNCHANGED <<txs, index, ilocals, unseen, entries, order, left, gone>>

\* The entry's lock is released between finding the set empty and dropping it.
RemoveIndex(r) ==
    /\ rpc[r] = "index"
    /\ LET who == Sender[gone[r]] IN
       /\ by_sender' = [by_sender EXCEPT ![who] = @ \ {gone[r]}]
       /\ IF who \in senders /\ by_sender'[who] = {}
          THEN rpc' = [rpc EXCEPT ![r] = "drop"] /\ UNCHANGED gone
          ELSE rpc' = [rpc EXCEPT ![r] = "remove"] /\ gone' = [gone EXCEPT ![r] = NoTx]
    /\ UNCHANGED <<txs, senders, total_fees, ilocals, unseen, entries, order, left>>

DropEntry(r) ==
    /\ rpc[r] = "drop"
    /\ rpc' = [rpc EXCEPT ![r] = "remove"]
    /\ by_sender' = [by_sender EXCEPT ![Sender[gone[r]]] = {}]
    /\ senders' = senders \ {Sender[gone[r]]}
    /\ gone' = [gone EXCEPT ![r] = NoTx]
    /\ UNCHANGED <<txs, total_fees, ilocals, unseen, entries, order, left>>

FinishRemoval(r) ==
    /\ rpc[r] = "remove" /\ (left[r] = 0 \/ entries[r] = {})
    /\ rpc' = [rpc EXCEPT ![r] = "idle"]
    /\ entries' = [entries EXCEPT ![r] = {}]
    /\ order' = [order EXCEPT ![r] = "none"]
    /\ left' = [left EXCEPT ![r] = 0]
    /\ UNCHANGED <<txs, index, total_fees, ilocals, unseen, gone>>

-----------------------------------------------------------------------------
InserterStep(i) ==
    \/ \E h \in Hash : CountShard(i, h)
    \/ CheckSize(i) \/ CheckExists(i) \/ AddFee(i) \/ InsertIndex(i) \/ Store(i)

RemoverStep(r) ==
    \/ \E h \in Hash : Collect(r, h) \/ RemoveTx(r, h)
    \/ SubtractFee(r) \/ RemoveIndex(r) \/ DropEntry(r) \/ FinishRemoval(r)

Next ==
    \/ \E i \in Inserter, h \in Hash : Insert(i, h)
    \/ \E i \in Inserter : InserterStep(i)
    \/ \E r \in Remover, h \in Hash : Remove(r, h)
    \/ \E r \in Remover, key \in {"timestamp", "weight"} : Drain(r, key)
    \/ \E r \in Remover : RemoverStep(r)

Spec == Init /\ [][Next]_vars

-----------------------------------------------------------------------------
(***************************************************************************)
(* Properties.                                                             *)
(***************************************************************************)
\* The state has the types of the mempool's fields, and a running call has a transaction.
TypeOK ==
    /\ txs \subseteq Hash
    /\ by_sender \in [Addr -> SUBSET Hash] /\ senders \subseteq Addr
    /\ total_fees \in Int
    /\ ipc \in [Inserter -> {"idle", "len", "exists", "fee", "index", "store"}]
    /\ cur \in [Inserter -> Hash \cup {NoTx}]
    /\ unread \in [Inserter -> SUBSET Hash] /\ len \in [Inserter -> Nat]
    /\ rpc \in [Remover -> {"idle", "collect", "remove", "fee", "index", "drop"}]
    /\ unseen \in [Remover -> SUBSET Hash] /\ entries \in [Remover -> SUBSET Hash]
    /\ order \in [Remover -> {"none", "timestamp", "weight"}]
    /\ left \in [Remover -> Nat]
    /\ gone \in [Remover -> Hash \cup {NoTx}]
    /\ \A i \in Inserter : ipc[i] # "idle" => cur[i] \in Hash
    /\ \A r \in Remover : rpc[r] \in {"fee", "index", "drop"} => gone[r] \in Hash

(***************************************************************************)
(* The size check is not atomic, neither with the insertion nor in itself, *)
(* but the map outgrows max_size by at most one transaction per further    *)
(* concurrent inserter; a single inserter respects it (mempool.rs:63-80).  *)
(***************************************************************************)
SizeIsBounded == Cardinality(txs) <= MaxSize + Cardinality(Inserter) - 1

(***************************************************************************)
(* The index leaks nothing: a transaction in it is in the map, is about to *)
(* be, or its removal is still going on (mempool.rs:74-80, 88-99).         *)
(***************************************************************************)
IndexHasNoGarbage ==
    \A x \in Addr : \A h \in by_sender[x] :
        /\ Sender[h] = x
        /\ \/ h \in txs
           \/ \E i \in Inserter : ipc[i] = "store" /\ cur[i] = h
           \/ \E r \in Remover : rpc[r] \in {"fee", "index"} /\ gone[r] = h

\* What the counter owes: the fees in the map, on their way in, and not yet subtracted.
Storing  == {i \in Inserter : ipc[i] \in {"index", "store"}}
Removing == {r \in Remover : rpc[r] = "fee"}

StoringFees  == [i \in Storing |-> Fee[cur[i]]]
RemovingFees == [r \in Removing |-> Fee[gone[r]]]

Owed == Total(Fee, txs) + Total(StoringFees, Storing) + Total(RemovingFees, Removing)

(***************************************************************************)
(* The fee counter covers what is still to be subtracted from it, however  *)
(* many threads race, so that the fetch_sub of a removal never wraps; with *)
(* one inserter it is exact at every instant (mempool.rs:72, 89).          *)
(***************************************************************************)
FeesAreExact == total_fees >= Owed /\ (Cardinality(Inserter) = 1 => total_fees = Owed)
=============================================================================
