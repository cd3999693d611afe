# A TLA+ model of the Relyo node

Relyo is a payment ledger kept as a directed acyclic graph of transactions: each transaction
names two parents, a node applies it to an account book as soon as it accepts it, and
validators vote on it afterwards. This directory holds TLA+ modules for the node, its peers
and its clients, TLC configurations that check them on small instances, and TLAPS proofs of
their main properties for every size.

Paths below are relative to the repository; `graph.rs` is
`crates/relyo-dag/src/graph.rs`, `engine.rs` and `vote.rs` are in
`crates/relyo-consensus/src`, `node.rs`, `rpc.rs` and `main.rs` in `crates/relyo-node/src`
unless said otherwise.

## 1. Inventory

| Component | State | Operations | Correct when |
|---|---|---|---|
| DAG graph (`graph.rs`) | `nodes`, `sender_locks`, `max_depth`, `total_count` | `insert_genesis`, `insert`, `set_status`, `prune_confirmed`, traversals | acyclic, complete frontier, no lost update, every call returns |
| Ledger (`state.rs`) | balances, nonces, stakes, unstake requests | `credit`, `debit`, `increment_nonce`, `total_circulating`, staking, snapshots | a transaction is applied once, whole, in nonce order, and covered |
| Conflict detector (`conflict.rs`) | `committed_nonces`, conflict sets | `check_transaction`, `commit_transaction`, conflict registration | one transaction per sender and nonce |
| Tip selector (`tips.rs`) | tips, weights, ages | `add`, `remove`, selection, `prune_stale` | tips are what nothing references |
| Node (`node.rs`, `genesis.rs`) | owns the above | `submit_transaction`, `process_mempool_batch`, `init_genesis` | accepted transactions are broadcast |
| Consensus engine (`engine.rs`) | validators, total voting power | `receive_vote`, `register_validator`, `set_validator_set` | decisions are reached, announced and final |
| Vote aggregator (`vote.rs`) | tallies | `record_vote_weighted`, `evaluate`, `finalize` | a voter counts once, a quorum decides |
| Mempool (`mempool.rs`) | transactions, per-sender index, fee counter | `insert`, `remove`, drains | index and counter agree with the map, bounded |
| Rate limiter (`rate_limiter.rs`) | a window of instants per sender | `check`, `cleanup` | few transactions per second pass |
| Peer manager (`peer_manager.rs`) | peers, peers per bucket | `add_peer`, `remove_peer` | limits hold, counts do not drift |
| Event loop (`main.rs`), swarm | connections, banned peers on disk | gossip, vote and connection handlers, timers | gossip ends, bans hold, a ledger stays closed |
| RPC (`rpc.rs`) | event channel, subscribers | `handle_rpc`, listener, WebSocket task | answers are true, subscribers miss nothing unnoticed |
| Checkpoints, storage (`checkpoint.rs`, `storage.rs`) | counters, epoch, database | `on_transaction`, `create_checkpoint`, `save_checkpoint`, `put_*` | no transaction is between two checkpoints, writes are whole |
| Merkle tree (`merkle.rs`) | pure | build, prove, verify | proofs verify for their leaf only |
| Emission, rewards, fee market, amounts | pure, but for the fee multiplier | rewards, shares, fees, printing | nothing is made or lost by rounding |
| UTXO primitives, addresses | pure | signed bytes, validation | bytes are unambiguous |
| Wallet (`relyo-wallet`) | key file; a run's nonce and parents | `create`, `load`, `send` | a printed address can be opened, what is printed about a payment is true |
| SDKs, explorer, configuration | none of their own | requests, pages, constants | see PROJECT.json |

**Interactions.** The program runs on tokio's multi-threaded runtime. RPC handlers and the one
event loop share a `RelyoNode` behind an `Arc` and call `submit_transaction` at the same time;
it calls `DagGraph::insert`, which drives ledger, conflict detector and tips. The event loop
publishes what was accepted to the gossip network, delivers votes to the engine, which writes
statuses into the DAG and sends `Finalized` events to the WebSocket server, drains the mempool
every 100 ms, and bans the peer that passed on a transaction over the supply cap. The wallet
reaches a node by three RPC calls in a row. There is no global lock: the maps are sharded
concurrent maps, counters are atomics, and only `insert` takes a mutex, one per sender.

**What is hard.** The interleavings inside `insert` (a balance read before the lock,
four ledger updates without a lock on the receiver, a lock-free maximum, tips and nodes
kept in two structures), pruning that runs between two reads of an insertion, the same
transaction or vote arriving twice, votes that arrive after the decision, and updates of
the validator set in several steps. Between nodes: messages that are lost, repeated or
out of order, restarts that forget everything but the bans, and peers that dial again.
Around a node: calls that fail on their way out or back, programs that die between two
writes, and quotients rounded by floating point. `PROJECT.json` lists each hazard at its line with
the properties that cover it.

## 2. Modules

| Module | What it is |
|---|---|
| `DagGraph` | the DAG with the ledger, entered through `submit_transaction` or `insert` |
| `Ledger` | abstract specification: an account book with atomic transactions |
| `DagGraphLedger` | the refinement mapping from `DagGraph` to `Ledger` |
| `DagGraphInv` | the inductive invariant and what follows for settled transactions |
| `DagGraphProofs` | proofs of the invariants and of the refinement |
| `Consensus` | the consensus engine with its vote aggregator |
| `ConsensusProofs` | proofs about it |
| `Mempool` | the mempool: map, per-sender index and fee counter |
| `MempoolProofs` | proofs about it |
| `Network` | several nodes: event loop, gossip, votes, bans, batches, restarts |
| `NetworkProofs` | proofs about it, for any number of nodes |
| `Staking` | the ledger's stakes, unstake requests and snapshots |
| `Checkpoints` | the checkpoint manager on the database |
| `Conflicts` | conflict sets: registration and resolution |
| `Tips` | the tip selector's three structures and its selections |
| `PeerManager` | peers and their network buckets |
| `RateLimiter` | one sender's window |
| `Callers` | the threads that call these five |
| `CheckpointsProofs`, `StoreProofs` | proofs about `Checkpoints` and about the other five |
| `RpcEvents` | consensus listener, statistics, WebSocket subscribers |
| `WalletRpc` | RPC handlers and the wallet's send command |
| `Keystore` | the wallet's key file |
| `ClientsProofs` | proofs about these three |
| `Merkle`, `Economics`, `Formats` | pure algorithms as operators |
| `Totals`, `TotalsProofs` | sums over sets without recursion, and their laws |
| `MCDagGraph`, `MCConsensus`, `MCMempool`, `MCNetwork` | instances of one module each for TLC |
| `MCStore`, `MCClients` | instances of several modules that share nothing and are extended together; only `Merkle`, `Economics` and `Formats` are reached by `INSTANCE` |

Every definition that stands for code is mapped to its lines in `PROJECT.json`.
Operators whose comment begins with "Mutant:" are deliberately wrong variants of a
definition. No specification uses them: each is what a plausible bug would look like,
and TLC finds the property it is paired with violated when it replaces the original.

### DagGraph

State: `balances`, `nonces` and `committed` (the ledger and the nonce log), `nodes`,
`info`, `tips`, `max_depth`, `total_count` (the graph), `lock` (the sender mutexes),
`boot` (genesis still to insert), and per thread a program counter with the locals of the
call it executes. `sent` is what was handed to the broadcast channel.

One submission is a sequence of actions in the order of the code:
`Submit` (rate limiter) → `ScanBalance`* and `NodeSupplyCheck` (node.rs:78-83) →
`PreCheck` → `AcquireLock` → `DuplicateCheck` → `ParentCheck1/2` → `ScanBalance`* and
`DagSupplyCheck` → `BalanceAndNonceCheck` → `Debit` → `Credit` → `IncrementNonce` →
`CommitTransaction` → `ComputeDepth` → `LoadMaxDepth`/`SwapMaxDepth` → `LinkParents` →
`RemoveTips` → `AddTip` → `StoreNode` → `Finish` → `Broadcast`. Every early return is a
disjunct of its check; after the lock it also releases the lock, as dropping the guard
does. `SetStatus` and `Prune` happen at any time.

An action makes at most one access to what a concurrent call can change at that moment.
Where accesses are grouped (the three checks under the lock, the two parents' depths, the
links) the comment at the action says why no other thread can tell. A pruning pass is one
`Prune` per removed entry: `max_depth` only grows, so what qualified at the start of the
pass still qualifies.

Abstractions: a transaction is named by its hash, `Tx` gives its fields, hashes do not
collide, and `signed` stands for both cryptographic checks; stakes are zero in
`total_circulating` because no submission creates any; the rate limiter may answer
either way; `credit` is not reduced modulo 2^64, which is exact as long as what genesis
allocates fits in a u64 (the assumption `AllocationFits`): no step after start-up adds to
the sum of the balances, as `NothingIsMinted` and `BalancesNeverWrap` prove.

The node's own genesis allocates nothing; accounts are funded the way the repository's
tests do it, by genesis transactions with an amount.

### Ledger and the refinement

`Ledger` applies a transaction in one step: the right nonce, a balance that covers amount
and fee, then all changes at once. In `DagGraphLedger` a transaction takes effect when
`Credit` happens. Before that the amount already debited is still counted as the
sender's; after it the nonce and the log entry are counted as written. The lock owner of
a sender is the only thread whose half-done work has to be compensated.

### Consensus

State: `validators` (0 for no entry), `total_voting_power`, `tallies`, the `status` of
each transaction in the DAG, `decided` (the last event sent), the locals of each vote
handler and of each task that changes the validator set, and `heard`, a history variable
with every voter ever counted.

`receive_vote` is `ReceiveVote` → `LookupPower` → `RecordVote` → `SetStatus` →
`Finalize` → `Emit`; `register_validator` is `RegisterValidator` → `SubtractPrevious` →
`AddNew`; `set_validator_set` is `SetValidatorSet` → `ClearEntry`* → `InsertEntry`* →
`CheckLocal` → `InsertLocal` → `StoreTotal`. Its argument is a list, and a list may name a
node more than once: `InsertEntry` walks it entry by entry, adds every power to the sum, and
the map keeps the last. `installed` remembers the list. `RecordVote` is one step because the
code holds the tally's map entry while it counts and evaluates. Counters wrap as `fetch_sub`
and `fetch_add` do. `DagInsert` and `DagPrune` are what the DAG does underneath.

The age check is left out: `process_remote_vote` stamps the vote with the current time.
The node has one vote handler and never calls the validator-set operations; the module
allows any number of each, as the library interface does.

### Mempool

State: `txs` (the map), `by_sender` and `senders` (the index: an entry's set, and which
entries exist), `total_fees`, and the locals of each inserting and each removing thread.

`insert` is `Insert` → `CountShard`* → `CheckSize` → `CheckExists` → `AddFee` →
`InsertIndex` → `Store`. The map's `len()` adds up its shards' sizes one by one while
other threads go on; since keys are spread by a hash function, the model lets a scan visit
keys in any order, one at a time. `remove` and the drains are `Remove`, or `Drain` →
`Collect`*, followed for each transaction taken by `RemoveTx` → `SubtractFee` →
`RemoveIndex` → `DropEntry`, then `FinishRemoval`. `RemoveIndex` and `DropEntry` are two
steps because the code releases the entry before it removes it.

The counter is an unbounded integer: it cannot fall below the fees in the map, and a sum
over 2^64 is out of reach of fees that fit the supply. In the node nothing inserts into
the mempool and one timer drains it; the module allows any number of threads of each
kind, as the library interface does.

### Network

State per node: `status` (the transactions of its DAG), `tally`, `mempool`, `batch` (what was
drained and is still to be inserted), `outbox` (the broadcast channel), what it has
`published`, and `banned`, the one thing on disk. Between
nodes: `links`, connections whose event is not yet handled (`fresh`), and the `wire`.

Each arm of the event loop's `select!` is an action: `Publish`, `ConnectionEstablished`,
`OnBroadcast`, `OnOverCap`, `OnVoteRequest`, `OnVoteResponse`, `MempoolTick`; `Start` and
`Stop` are the process, `RpcSubmit` and `PoolInsert` its clients. `MempoolTick` only drains;
each `InsertDrained` inserts one transaction of the batch. Until the batch is done the loop
listens to nothing else (`Listens`), while clients go on submitting. The swarm is external:
it forwards a message before the loop looks at it, and may lose, repeat and reorder
(`Lose`, the second disjunct of `Arrives`). `submit_transaction` is one step here because
`DagGraph` shows that concurrent calls behave like that, with one exception: the supply check
adds up the balances without a lock. `Crossed` is the sum that reads the sender of a
client's transfer before its debit and the receiver after its credit: the amount counts
twice, an ordinary transaction is refused as over the cap, and `OnOverCap` bans the peer that
passed it on. A ban may fail to be written and
a database may fail to be read, as the code ignores both errors. The node's engine knows
no validator but itself, and a default configuration gives all nodes one name.

### The structures beside the DAG

`Staking`: `request_unstake` and `process_unstakes` take from one map and put into another
in two steps; `create_snapshot` reads the four maps entry by entry and then all of them
again for the hash; `restore_from_snapshot` runs on a quiet ledger, clears the maps and takes
over the entries whose address parses (`Parsed`), as the code skips the others without a word.
The history `begun` remembers what had been staked when the snapshot was begun, and `sound`
says that every restored snapshot was begun between calls and was quiet; the ledger restored
is compared with that, and not with itself. A refused removal
leaves an entry of 0, which counts in the hash. `retain` keeps the requests of a set of
places in their order: `Retained` names the one list that has them.

`Checkpoints`: `on_transaction` counts and compares; `create_checkpoint` takes an epoch,
resets the counter and reads the DAG; `save_checkpoint` is one write transaction of the
database, which is external: one writer at a time, an atomic and durable commit. An
insertion may fail and the program may die at any step.

`Conflicts`: `TakeId` → `StoreSet` → `Point`* registers a conflict, `LookUp` → `TakeSet` →
`Forget`* resolves one. `Tips`: additions, removals, `update_weight`, `prune_stale` and both
selections over the set, the weights and the ages; a draw of the random generator is a number
below the sum of the weights read, and hits the first tip whose running sum exceeds it. The
sums are `u64` and wrap (`WeightLimit`): the release build checks no overflow. `PeerManager`:
the limit is compared with a scan, the bucket counted after the peer map. `RateLimiter`: a
call reads the clock and locks the window afterwards; as the window is only filtered, counted
and appended to, it is a bag, and `accepted` counts what was let through at each instant.
Variables, `Init`, `Next` and `Spec` carry the name of their part (`stakingVars`,
`SelectorInit`, `PeersSpec`), so that one module can extend all of them. In these modules a
history variable marks the races after which the code gives no guarantee (`hurried`, `raced`);
the properties speak of the rest.

### Clients

`RpcEvents`: `Listen` turns a decision into an event if the transaction is still in the
DAG, a subscriber's task alternates `Recv` and `Write`; the broadcast channel is external
and keeps the last `Capacity` events. `WalletRpc`: `handle_rpc` with every method and error
code, and the send command as `Begin` → `GotNonce` → `GotTips` → `GotReply`, where each
call may fail before or after the node has handled it. `Keystore`: `create` checks that no
file exists, truncates, writes, and prints the address; processes may die or overlap.

`Merkle` writes the tree as one vector with the index arithmetic of the code. Data is a
sequence of units of 32 bytes and a hash, one such unit, stands for what was hashed. Leaves and
inner nodes are hashed alike (`sha3_256`), as in the code, so that a leaf whose data are two
hashes has the hash of the node above them.

`Economics` has the emission schedule, the division of a reward pool, the fee market and the
printed amounts. Where the code divides in floating point, the result is a choice from an
interval: `Share` is any number between the exact share less and plus what `n + 16` roundings
can make of it (`Roundings`), each by at most the part 1 / `Precision` (2^53). `Formats` has
the signed bytes of both transaction types, `validate_structure`, addresses and the count of
zero bits; a field of fixed width is one byte, the lists carry their length as the code writes
it, and a checksum takes few enough values (`ChecksumValues`) for different addresses to share
one.

## 3. Runs

| Run | Instance | Checks | Result |
|---|---|---|---|
| `dag` | 2 threads, 2 accounts, 2 genesis and 4 transfers, confirmations, pruning at depth > 0 | all DAG invariants, `LedgerReplaysLog` | holds, 1.1 million states |
| `dag_api` | 2 threads call `insert`: competing, crossing, genesis-typed, overflowing and unsigned transactions; fairness | `IInv`, `SubmissionReturns`, `ImplementsLedger` | holds, 0.14 million states |
| `consensus` | 1 handler, 1 validator-set task, 3 nodes, lists with and without repetitions | counting, quorum, status against event, total power | holds, 2.3 million states |
| `consensus_shared` | 2 handlers, 2 registration tasks | `UndecidedIsPending`, `PowerMatchesSet` | holds, 1.2 million states |
| `consensus_finality` | 1 handler | finality is irreversible | violated |
| `mempool` | 1 inserter, 2 removers, 2 transactions of one sender | `IndexHasNoGarbage`, `FeesAreExact` | holds, 0.3 million states |
| `mempool_size` | 2 inserters, 1 remover, 3 transactions, `max_size` 1 | `SizeIsBounded` | holds, 2.5 million states |
| `mempool_index` | 1 inserter, 1 remover | the index is complete when nothing runs | violated |
| `network` | 2 nodes with the default name, a third voter, 4 transactions, 1 fault | nonces, ancestors, gossip that ends, bans enforced, no decision | holds, 1.65 million states |
| `store` | 2 threads on each structure | one property per structure | holds, 1.5 million states |
| `store_snapshot` | 2 threads, 1 snapshot | a snapshot is a point in time | violated |
| `clients` | 1 subscriber, 2 runs of the wallet, 3 processes on a key file; inputs of the algorithms | one or two properties per component | holds, 0.28 million states |

`MCStore` and `MCClients` exercise several modules; the variable `part` says
which of them a behaviour is about, and a property is the conjunction of what a module
states: `StakesAreKept` (`StakeIsConserved`, `QuietSnapshotIsExact`),
`CheckpointsAreComplete` (`DueCheckpointIsPending`, `CheckpointCoversCounted`),
`ConflictsAreSettled` (`OneWinner`, `EntriesLeadToSets`), `TipsAreConsistent`
(`TipMapsAgree`, `SelectedTipsDiffer`), `PeerCountsHold` (`PeersAreBounded`,
`BucketsAreExact`), `PaymentsAreAsTold` (`AcceptedIsVisible`, `RefusedIsNotApplied`,
`NonceIsPaidOnce`), `MerkleIsSound`, `RoundingIsHarmless` and `BytesAreUnambiguous`.

What the runs beside the DAG show. `network`: whatever is lost, repeated or restarted, and
whatever clients submit between two transactions of a batch, a node's transactions of one
sender have the nonces 1, 2, ... without a gap and all their ancestors; a node publishes a
transaction once between two starts, so that gossip dies out although everything received is
published again; and a banned peer stays connected only until the event of its connection is
handled. That the ban is deserved is not shown, and is not true (section "Findings").
`NothingIsDecided` is a property of the program as it is and not one to wish for: as the node
registers no validator but itself, no votes decide anything, which is at odds with the
finalization that docs/api/websocket.md promises. Nodes that have accepted competing
transactions (`x1` here, `y1` there) differ for good, since no vote ever settles them.
`store`: no interleaving loses a stake or pays it twice, a quiet snapshot gives back what was
staked to every address that parses; none skips a checkpoint, gives one conflict two winners,
leaves a weight without a tip, or lets more than one peer or one transaction per racing thread
over a limit. `clients`: a subscriber that falls behind is cut off rather than left with a
gap, what the wallet prints is true, and a retry pays twice only if it asked for its nonce
after the first payment was applied.

Type invariants: that of `DagGraph` is a part of `IInv`; those of `DagGraph`, `Consensus`,
`Mempool` and `Network` are theorems, and the other proof modules have theirs as the first
part of their inductive invariant.

**Bounds.** The transfers of the DAG runs are chosen so that the interesting cases meet: `x1`
and `z1` compete for one nonce, `x2` follows `x1` and is affordable only after `v1` has paid
its sender, `z1` names one parent twice, and every one can be submitted any number of times,
also after it was pruned. Two threads suffice for every race the code can have on one sender
or between sender and receiver; the theorems remove the bound. `MinConfirmationDepth` 0 lets
pruning race with every insertion. `MaxU64` 15 with a `SupplyCap` of 9 lets both overflow
branches and both cap checks be taken. In the consensus runs a quorum of two of three nodes
with the default threshold makes accepting, rejecting and undecided tallies reachable; in
`consensus` powers below and above `MinPower` occur, in `consensus_shared` the weight quorum
of 3 binds after the count quorum of 2 is met. In `mempool` two removers race for one
transaction and the two transactions share an index entry; in `mempool_size` three
transactions let two inserters exceed `max_size` by one, the most `SizeIsBounded` permits, and
let a scan miss a transaction stored behind it. Fees are zero there, because a transaction
inserted twice makes the counter grow without end.

In `consensus` one list names a node twice, with different powers and next to another node, and
registrations precede and follow it.

In `network` `x2` follows `x1` with the earlier timestamp, so that a batch inserts them in the
wrong order, `y1` has the sender and nonce of `x1` and is submitted by a client where `x1` and
`x2` are in the mempool, so that it can come before, between and after the insertions of the
batch and can overlap a supply check, a batch takes two of up to three waiting transactions
(`BatchSize`; the node passes 1000), `v1` is over the cap unless `x1` was accepted, so that
two nodes disagree about a ban, and one fault (a loss, a repetition, a hang-up or a stop) is
enough for each property to be at risk; the mutants confirm it. In `store` there are two
threads for every race of two calls; two addresses, of which one parses, with three calls
between them (a list with a locked and an unlocked request at once needs more calls; the proof
covers it); two checkpoints in two runs of the program, two overlapping conflicts, weights of
0, 1 and 2 whose sums wrap at 3, three peers for a limit of one, and four ticks of a second of
two. In `clients` the channel keeps two events, so that a subscriber lags behind; the Merkle
trees have up to five leaves, which needs three levels and padding of every length, and up to
four with a leaf that imitates an inner node; the reward pools go up to the largest for which
the roundings stay below a unit; a UTXO transaction has up to two inputs, two outputs and four
parents, so that one list could be read as its neighbour if a length were missing; checksums
take four values, so that damaged addresses with a right checksum occur; supplies of 10 to 100
with a decay of 18/20 and 19/20 run until the reward is 0; amounts have three decimals and
take every value to 1200; bytes have three bits. The runs with symmetry permute only threads
or tasks, which no property names, and check no liveness.

**Fairness.** `dag_api` assumes weak fairness of each thread's own steps (the runtime
keeps running a runnable thread; no step of `insert` awaits) and strong fairness of
taking the sender's mutex (parking_lot's mutex is eventually fair: it hands the lock over
regularly). Nothing is assumed about new submissions or pruning. `clients` assumes weak
fairness of the listener and of a subscriber's task, and that a write into a socket
completes or fails (a client that neither reads nor hangs up blocks only its own task).
Nothing is assumed of the wallet or of the node's other tasks.

Deadlock is checked in the runs of `DagGraph`, `Consensus` and `Mempool`. The other runs
allow a stop: runs of the wallet end, and where counters are bounded (calls, faults, time)
nothing is left to do once the bound is reached.

### Findings

The three violated properties each state what a document, comment or test of the
repository says:

1. *Finality is undone by a late vote* (`consensus_finality`): docs/api/websocket.md:23
   calls a finalized transaction irreversible; `finalize` forgets the tally, so one more
   vote opens a new one and sets the confirmed transaction back to Voting.
2. *The index loses a transaction* (`mempool_index`): the comment at mempool.rs:44 says it
   serves conflict checking; an entry found empty is removed after its lock was released,
   with whatever was indexed in between.
3. *A snapshot is no point in time* (`store_snapshot`): the comment at state.rs:22 says it
   is; the maps are copied one after the other without a lock over them (state.rs:320-362).

Seen while modelling, and not the subject of a run of their own:

- *Ledger and DAG.* `insert` debits amount and fee and credits the amount only, so that
  fees vanish (README.md:34 says validators receive them). A rejection only sets a status:
  the rejected transaction stays in the balances (docs/api/rly_getBalance.md:3 says
  confirmed balance). The balance is compared before the supply cap, so that the over-cap
  amount of tests/network_simulation.rs:44 is refused with `InsufficientBalance`. A pruned
  node stays a tip if it was one, and a wallet that chooses it as a parent is refused.
- *Validators.* `set_validator_set` clears and refills the map entry by entry, although
  the comment at engine.rs:207 says atomically: a vote looked up meanwhile is dropped. From a
  list that names a node twice it counts both powers and keeps the last (engine.rs:211-215):
  the total exceeds the power of the set until the next replacement, which `PowerMatchesSet`
  states exactly. Only `total_voting_power()` shows it; the quorum is measured per tally.
- *Mempool.* The bound of `SizeIsBounded` is reached: two concurrent insertions do exceed
  `max_size` (mempool.rs:61). Two concurrent insertions of one transaction both add its
  fee (mempool.rs:72), which is why `FeesAreExact` is an equation for one inserter and a
  lower bound for more.
- *Network.* A ban is permanent (main.rs:288), although the configuration documents the
  seconds for which a banned peer remains banned (`ban_duration_secs`, relyo-network
  config.rs:66-67, 3600 by default, which config.rs:155 tests): nothing reads it. The sum over
  the balances is taken without a lock (node.rs:78), so that it may count a transfer under way
  twice, refuse an ordinary transaction and ban the peer that passed it on (main.rs:286-291):
  `Crossed` and `OnOverCap`.
- *Staking and checkpoints.* `restore_from_snapshot` skips an entry whose address does not
  parse (state.rs:384, 390, 396, 402) and reports success: what it held is gone. Such an
  address gets into a ledger because the JSON form of an `Address` is any string.
  A refused `remove_stake` or `debit` leaves an entry of 0,
  which changes `state_hash`; the hash has no separators between its maps. A restarted
  `CheckpointManager` begins at epoch 1 again and overwrites the earlier checkpoints.
- *Tips.* The sum of the weights may wrap (tips.rs:91); a draw then goes by what is left of it
  and ends in the fallback or on the wrong tip. Both tips of a selection are still different.
- *Merkle.* The list of one leaf `h(a) || h(b)` has the root of the list `a, b`, because
  leaves (merkle.rs:25) and nodes (merkle.rs:62) are hashed alike; `RootIsBinding` is therefore
  about trees of one height and leaves that are not 64 bytes long. checkpoint.rs:59 makes trees
  of transaction hashes only, of 32 bytes.
- *Wallet and SDK.* `sign` without a node uses zero parents, which the DAG refuses;
  `create_transaction_with_pow` mines nothing; `verify_payment` ignores the reference.
  `submit_transaction` does not validate the receiver's address.
- *Arithmetic and formats.* `rly_to_base` goes through a double and loses units above 2^53.
  The first epoch's reward is computed in floating point and comes out two units high; because
  every later one is rounded down, the sum of all epochs stays below the supply. Shares of a
  reward pool are floats that may come out high (rewards.rs:65-67): from a pool for which
  `pool * (n + 16)` is not below 2^53 they may exceed it, and the last node's `daily_pool -
  distributed` then wraps. A pool of 9007199254740995 with a last node of score 0 does that.
  The largest daily emission, about 1.9 * 10^13, is safe for up to 464 nodes.
  `Address::from_bytes` accepts address types that `validate` refuses. `validate_structure`
  does not check what its comment lists about genesis parents and sums of inputs
  (primitives.rs:276-282).

## 4. Proofs

All theorems hold for any number of threads, handlers, accounts, transactions, nodes and
for any `Tx`, under the assumptions named in the modules (`TxAssumption`,
`GenesisAssumption`, `ThreadAssumption`, `BoundAssumption`, `ConsensusAssumption`,
`MempoolAssumption`, `NetworkAssumption`): types
of the constants, genesis transactions with nonce 0 and no parents, a quorum of at least
one vote, finitely many accounts, a genesis that fits 64 bits (`AddrAssumption`,
`AllocationFits`). The theorems about the structures beside the DAG, and those whose property
needs it, have hypotheses of their own:

| Theorem | Hypothesis | Why the code justifies it |
|---|---|---|
| `ConflictsSettled` | the conflicting pairs are finitely many | the detector's memory is finite |
| `CheckpointsComplete`, `EpochSavedOnce` | `tx_interval` is positive; other callers write no checkpoint (`WritesElsewhere`, second theorem only) | the interval is a configured number of transactions; every `put_` operation of storage.rs names its own table |
| `BatchAtomic` | `WritesElsewhere`; `BatchesAreDistinct`: batches write into existing tables, and no key of a batch is written by another | storage.rs:6-11 names the tables; a key that two batches write tells nothing about either |
| `StatusMatchesEvents` | `SingleHandler` | votes are handled by the one event loop (main.rs:347-365) |
| `PowerMatches` | `Administered`: finitely many nodes and tasks; the powers of each list, and the largest power of each node and task with the repeated entries of a list, fit a `u64` together; one task alone if whole sets are replaced | `total_voting_power` is an `AtomicU64` and `sum` a saturating one; engine.rs:207 takes `set_validator_set` for atomic, which it is only without a concurrent update |
| `TipsConsistent` | weights are natural numbers | they are `u64` |
| `PeerCounts` | `Configured`: finitely many callers, at least one caller and one peer, addresses that exist, a natural `max_peers` | the types of peer_manager.rs |
| `RateBounded` | `Limited`: finitely many threads, a natural limit, a window of at least one tick | the constants of rate_limiter.rs |
| `StakesKept` | `Stakeable`: finitely many threads, natural amounts and lock periods, at least one address; any of them may parse or not | the types of state.rs |
| `KeysOpen` | `KeysAreKeys`: no key is the word for an error | `load` returns a `Result` |
| `PaymentsTold` | `Payable`: finitely many runs, natural amounts, fee and funds | the types of transaction.rs |

The inductive invariants whose argument is not plain from the code (both size bounds, the
epochs, the tips, the clients) were checked with TLC on small instances of their own before
they were proved.

**Totals.** Several properties are about sums over sets: balances, fees, powers, stakes,
accepted transactions. A recursive sum would need an induction for each law. `Totals` counts
units instead: `Total(f, S)` is the number of pairs of an element `x` of `S` and a number up
to `f[x]`. Then what an element adds, leaves or changes, that a sum of zeros is zero, bounds,
unions and renamings (`TotalAdd`, `TotalUpdate`, `TotalBound`, `TotalUnion`, `TotalReindex`)
are facts about the cardinality of finite sets, and the proofs below cite them. The models
use the same definition, so that TLC checks what is proved.

**DagGraph.** None of the properties is inductive alone. `IInv` (module `DagGraphInv`)
adds, in the order in which the proof uses them:

- `LockInv`: a thread past `AcquireLock` owns its sender's lock, and an owned lock has its
  owner there. This is what makes a balance check last until the debit.
- `BootInv`: nothing is submitted before start-up is over.
- `NonceInv`: what a thread has established about its nonce; with the lock it cannot
  become false. `NonceLogIsExact` needs it at `CommitTransaction`, and in turn shows that
  a committed transaction is never committed again.
- `SettledInv`: stored nodes and parents that passed the check are *settled*: committed
  or genesis, and not being inserted now. A settled transaction never becomes unsettled,
  although pruning forgets it, because its nonce is used up. Hence no stored node can name
  a transaction in progress as its parent, which both the tip and the depth argument need:
  a pruned parent cannot come back as a new tip or with another depth.
- `TipInv`, `DepthInv`: what a thread knows between linking, untipping, adding the tip and
  storing, and about its computed depth.

- `ReplayInv`: each balance, with what the log says was taken from the account, is what
  the log says it was given (`LedgerReplaysLog`), and the same for the sum of all. `Debit`
  and `Credit` each add one transaction to one side; that it was not there before is
  `NonceInv`. `NothingIsMinted` and `BalancesNeverWrap` follow.

Each part is shown preserved by one step per action (`DagGraphProofs`), and
`Refinement` shows from `IInv` that every step is a ledger step or a stutter under the
mapping: only `InsertGenesis` and `Credit` are visible. `SettledForGood` is an action
property that rests on the same facts: `commit_transaction` overwrites what it finds under
its key, and yet never replaces anything.

**Consensus.** `VotersCountedOnce` is proved from an exactness invariant of the tallies.
`QuorumsAreDecided` needs `UndecidedIsPending`: until the first decision, a tally knows
every voter ever heard and is below the quorum. Its crucial step is `Finalize`, the only
action that shrinks a tally: a handler gets there only with a decision, so the transaction
counts as being decided. `StatusMatchesEvents` follows the one handler from `RecordVote` to
`Emit` (`StatusInv`): the status it has written is the one it is about to announce, and a
decided transaction that nobody works on has the status of its last event.

`PowerMatches` (`PowerInv`): a registration changes the map first and the counter in two
later steps, so the counter is off by what the calls under way have still to add and to
subtract, modulo 2^64 (`BalanceInv`), and by what the list last installed counted for entries
that a later one of the same node replaced (`Repeated`). A replacement that has got to some
entry of its list has summed up all entries so far, while the map has the last one of each node
(`UpdateInv`, `Filled`); that the two differ by the repeated entries is a split of one sum over
the places of the list. When no call is left, two numbers below 2^64 that differ by a multiple
of it are equal. For a list without repetitions the total is the power of the set.

**Mempool.** `IndexLeaksNothing` is inductive together with `TypeOK`. An indexed
transaction has a reason to be there: it is in the map, some insertion is about to store
it, or some removal is about to take it out of the index. Every step that ends a reason
replaces it by the next one, and `RemoveIndex`, which ends the last, empties the entry.

`FeesExact` (`FeeInv`): the counter covers the fees in the map, those of insertions that
have counted theirs already and those of removals that have yet to subtract. An insertion
that finds its transaction there already would count it twice; with one inserter that
cannot happen, because only it stores (`FreshInv`), and the bound is an equation.

`SizeBounded` is about scans that miss what is stored behind them, which looks as if it
needed a history of each scan. It does not (`SizeInv`): take any set `J` of inserters that are
still scanning. Either all of them may still be admitted without exceeding the bound
(`Fits`), or one of them, the last to have started, has missed nothing but what the others
had on their way when it started (`Counted`), so that its own scan will tell. A finished
scan that finds room moves its thread from `J` to the admitted ones.

**Network.** `NetworkInv` joins the parts that need each other. A transaction enters a DAG
only with the nonce that follows its sender's. `NonceInv` has every nonce of a sender
between 1 and the number of its transactions, and no two alike; that none is missing
follows by counting (`NoncesGapless`, with an injection between finite sets). A batch needs no
argument of its own: each `InsertDrained` decides anew against the DAG as it is then, whatever
was submitted since the batch was drained, and `Crossed` inserts a client's transaction like
`RpcSubmit` does.
`OutboxInv`: what is queued is in the DAG, is queued once and was not published, which
gives `AnnouncesOnce`. `BansEnforced` follows the event of a connection through redials and
restarts. `TallyInv`: a tally holds votes of the node's own name only, one per transaction,
which is below any quorum above one (`NothingDecided`).

**Conflicts.** `ConflictsSettled`: an id is handed out to one thread (`IdInv`), a conflict has
no winner as long as its set is in the map, and the set is taken out once (`WinnerInv`); an
entry leads to its set or to one that a thread is taking apart (`EntryInv`), unless the
conflict was resolved before its registration had ended.

**Checkpoints.** `CheckpointsComplete`: inserted transactions are counted or have a thread
about to count them (`CountInv`), a due checkpoint has a thread before its reset (`DueInv`),
and each field of a record is read after the reset that fixes what it must cover
(`CoverInv`). `EpochSavedOnce`: the checkpoints being made are of this run and have an epoch
each (`RecordInv`), a stored one is of an earlier run or of an epoch no thread has any more
(`DiskInv`), and an open write transaction holds what is stored and at most the checkpoint
it saves (`StagedInv`). `BatchAtomic` (`BatchInv`): on disk every batch is whole, all of it
there or nothing, and the open transaction has every batch whole but the one it writes, of
which it has the first `n` entries (`HalfWay`); only a transaction with nothing left commits.

**Tips.** `TipsInv`: one thread adds a hash, in the order of the code (`AddingInv`); what is
being removed has left the tips for good, and what is being pruned has lost its age for good
(`LeavingInv`); otherwise the three structures agree, but for a hash some thread is about to
remove or prune (`AgreeInv`). A selection works on a list of two or more different tips, so
`pick` always has another one to fall back on (`SelectInv`, `PickOther`); that a draw is a place
of the list is all it needs of the running sums, which may have wrapped.

**PeerManager.** The size bound is the argument of the mempool. `BucketInv`: for a bucket
that no race has hit, its count and the calls about to raise it equal its peers and the
calls about to lower it.

**RateLimiter.** `RateBounded`: filtering forgets only what is older than a second, but for
whom? A call with an early instant keeps more than a later one, and one with a late instant
has already thrown away what an early one would count. `SecondInv` speaks of the second from
any instant `from` while it lasts: what was let through since `from` is in the window with
an instant since `from`, or took one of the calls that had read the clock before `from`; each
thread can do that once, since it reads the clock again afterwards. A check that is not late
finds at most `max_tps` in the window.

**Staking.** `StakesKept` (`StakingInv`): each step moves an amount between the balance, the
stake, the requests and the call under way; that the unlocked requests and the retained ones
add up to all of them is `SumOfRetained`. For snapshots, `SnapshotInv` follows the states seen
since the snapshot began: as long as there is only one, the first `n` cells are collected as
they are in it (`Shows`), and so are the cells read again for the hash; and if it was begun
between calls, that one state holds of every address what had been staked by then. A restore
therefore gives a parsing address its part of that state, whatever the maps held before
(`Parsing`, `RestoreKeepsStakes`), and the others nothing.

**Clients.** `KeysOpen` (`KeyInv`): without an overlap one process writes, and every key that
is printed, or about to be, is in the file. `StreamHasNoGap` (`StreamInv`): a subscriber's
place in the channel is where it subscribed plus what it has received. `PaymentsTold`
(`WalletInv`): what a run may believe at each of its steps, together with the request or the
reply that is on its way (`RequestOK`, `StepOK`), and that the applied transactions have the
nonces up to the account's, each its own (`NoncesOK`).

**Only model-checked.**

- `SubmissionReturns` and `AcceptedReachesSubscriber` are liveness properties under fairness.
- What `Merkle`, `Economics` and `Formats` compute for inputs of any length
  (`MerkleIsSound`, `RoundingIsHarmless`, `BytesAreUnambiguous`) would need an induction
  over data.

Every other property of a passing run is the property of a theorem.

## 5. Not modelled, and the plan

Done in this order: `DagGraph`; `Ledger` with the refinement; the inductive invariant and
the proofs; `Consensus` and `Mempool` with their proofs; `Network`; the structures beside
the DAG; the clients and the pure algorithms; the theorems about `Network`, `Conflicts`,
`Checkpoints`, `Tips` and `PeerManager`, and the mempool's size bound; sums as counts of
units, and with them the theorems about the ledger, the fees, the voting power, the rate
limiter and the stakes; the batches of the database; the key file, the event stream and the
wallet's payments. What could follow: a proof for the Merkle tree of a fixed height, and the
refinement of `Network`'s one-step submission by `DagGraph`, which is argued from
`ImplementsLedger` and not stated as a theorem.

Left out, with the reason:

- hashing, signatures and encryption: injective names and flags stand for them;
- `emission.rs` of the node: floating-point powers for display;
- `set_balance`, `set_nonce`, `set_stake` and `revert_transaction`: stores for tests and
  tools, with no caller in the node;
- peer statistics and transaction priorities: written and read by nothing that decides;
- heartbeats and sync messages: the event loop only logs them;
- SDKs, explorer, the wallet's other commands: they format what one call returns;
- configuration and error types: constants of the modules, and wording.
