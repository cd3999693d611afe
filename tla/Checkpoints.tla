----------------------------- MODULE Checkpoints ----------------------------
(***************************************************************************)
(* CheckpointManager (checkpoint.rs) and DagStorage (storage.rs) of        *)
(* crates/relyo-dag: threads that insert transactions make a checkpoint    *)
(* when one is due and save it, with crashes in between.  The embedded     *)
(* database is external: it runs one write transaction at a time, and a    *)
(* commit is atomic and durable.                                           *)
(***************************************************************************)
EXTENDS Callers, Integers, SequencesExt, FiniteSetsExt

CONSTANTS
    tx_interval,    \* transactions between two checkpoints
    Writes,         \* what other callers write: sequences of [table, key, value]
    MaxTxs,         \* bound on the transactions of one run of the program
    MaxRuns         \* bound on the runs of the program

VARIABLES
    count,          \* tx_since_checkpoint
    last_epoch,     \* last_epoch
    txs,            \* transactions in the DAG
    counted,        \* transactions on_transaction was called for
    calls,          \* what each thread is doing, and the record it is making
    writer,         \* the open write transaction: the thread that saves with it, what is staged, what is left
    disk,           \* the database: one partial function per table
    runs            \* runs of the program so far

vars == <<count, last_epoch, txs, counted, calls, writer, disk, runs>>
manager == <<count, last_epoch, txs, counted>>

Table == {"transactions", "status", "meta", "balances", "nonces", "checkpoints"}
NoWriter == [by |-> {}]
NoRecord == [run |-> 0, epoch |-> 0, covers |-> 0, state |-> 0, merkle |-> 0, len |-> 0]
Idle == [pc |-> "idle", record |-> NoRecord]

\* Mutant: the counter is reset once the record is complete.
OrderLate == <<"epoch", "state", "merkle", "len", "reset", "save">>

\* What create_checkpoint does one after the other, and then save_checkpoint.
Order == <<"epoch", "reset", "state", "merkle", "len", "save">>

After(pc) == Order[1 + CHOOSE i \in DOMAIN Order : Order[i] = pc]

Init ==
    /\ count = 0 /\ last_epoch = 0 /\ txs = 0 /\ counted = 0
    /\ calls = [t \in Thread |-> Idle]
    /\ writer = NoWriter
    /\ disk = [table \in Table |-> <<>>]
    /\ runs = 1

Goto(t, pc) == calls' = [calls EXCEPT ![t].pc = pc]
Fill(t, pc, field, v) ==
    /\ calls[t].pc = pc
    /\ calls' = [calls EXCEPT ![t].pc = After(pc), ![t].record[field] = v]

-----------------------------------------------------------------------------
Insert(t) ==
    /\ calls[t].pc = "idle" /\ txs < MaxTxs
    /\ txs' = txs + 1
    /\ Goto(t, "notify")
    /\ UNCHANGED <<count, last_epoch, counted, writer, disk, runs>>

\* Mutant: the counter is compared as it was before the call.
IsDueLate(n) == n - 1 >= tx_interval

\* What on_transaction returns when it makes the counter n.
IsDue(n) == n >= tx_interval

on_transaction(t) ==
    /\ calls[t].pc = "notify"
    /\ count' = count + 1 /\ counted' = counted + 1
    /\ Goto(t, IF IsDue(count + 1) THEN "epoch" ELSE "idle")
    /\ UNCHANGED <<last_epoch, txs, writer, disk, runs>>

\* Mutant: the epoch is taken from what is stored.
TakeEpochFromDisk(t) ==
    /\ calls[t].pc = "epoch"
    /\ last_epoch' = Cardinality(DOMAIN disk["checkpoints"]) + 1
    /\ calls' = [calls EXCEPT ![t].pc = After("epoch"),
                              ![t].record = [NoRecord EXCEPT !.run = runs, !.epoch = last_epoch']]
    /\ UNCHANGED <<count, txs, counted, writer, disk, runs>>

TakeEpoch(t) ==
    /\ calls[t].pc = "epoch"
    /\ last_epoch' = last_epoch + 1
    /\ calls' = [calls EXCEPT ![t].pc = After("epoch"),
                              ![t].record = [NoRecord EXCEPT !.run = runs, !.epoch = last_epoch + 1]]
    /\ UNCHANGED <<count, txs, counted, writer, disk, runs>>

ResetCount(t) ==
    /\ Fill(t, "reset", "covers", counted)
    /\ count' = 0
    /\ UNCHANGED <<last_epoch, txs, counted, writer, disk, runs>>

ReadDag(t) ==
    /\ \/ Fill(t, "state", "state", txs)
       \/ Fill(t, "merkle", "merkle", txs)
       \/ Fill(t, "len", "len", txs)
    /\ UNCHANGED <<manager, writer, disk, runs>>

-----------------------------------------------------------------------------
(***************************************************************************)
(* The put_ operations of DagStorage: a write transaction with one         *)
(* insertion, and put_transaction_batch one with several.  Opening the     *)
(* transaction or a table, serializing, inserting and committing may fail, *)
(* and then nothing of it is kept.                                         *)
(***************************************************************************)
BeginWrite(by, puts) ==
    /\ writer = NoWriter
    /\ writer' = [by |-> by, left |-> puts, staged |-> disk]

save_checkpoint(t) ==
    LET r == calls[t].record
    IN  /\ calls[t].pc = "save"
        /\ \/ BeginWrite({t}, <<[table |-> "checkpoints", key |-> r.epoch, value |-> r]>>) /\ Goto(t, "commit")
           \/ UNCHANGED writer /\ Goto(t, "idle")
        /\ UNCHANGED <<manager, disk, runs>>

\* Each entry is put once, which bounds what other callers do.
put(W) ==
    /\ BeginWrite({}, W)
    /\ \A i \in DOMAIN W : W[i].key \notin DOMAIN disk[W[i].table]
    /\ UNCHANGED <<manager, calls, disk, runs>>

Apply(tables, p) ==
    [tables EXCEPT ![p.table] =
        [k \in DOMAIN @ \cup {p.key} |-> IF k = p.key THEN p.value ELSE @[k]]]

\* Mutant: every insertion is written at once.
InsertThrough ==
    /\ writer # NoWriter /\ writer.left # <<>>
    /\ disk' = Apply(disk, Head(writer.left))
    /\ writer' = [writer EXCEPT !.left = Tail(@), !.staged = Apply(@, Head(writer.left))]
    /\ UNCHANGED <<manager, calls, runs>>

InsertEntry ==
    /\ writer # NoWriter /\ writer.left # <<>>
    /\ writer' = [writer EXCEPT !.left = Tail(@), !.staged = Apply(@, Head(writer.left))]
    /\ UNCHANGED <<manager, calls, disk, runs>>

Return == calls' = [t \in Thread |-> IF t \in writer.by THEN Idle ELSE calls[t]]

Commit ==
    /\ writer # NoWriter /\ writer.left = <<>>
    /\ disk' = writer.staged
    /\ writer' = NoWriter
    /\ Return
    /\ UNCHANGED <<manager, runs>>

Abort ==
    /\ writer # NoWriter
    /\ writer' = NoWriter
    /\ Return
    /\ UNCHANGED <<manager, disk, runs>>

\* get_: what a table holds under a key, 0 for a balance or a nonce that it does not hold.
Get(table, key) ==
    IF key \in DOMAIN disk[table] THEN disk[table][key]
    ELSE IF table \in {"balances", "nonces"} THEN 0 ELSE "None"

(***************************************************************************)
(* A crash or an exit, and the next run: CheckpointManager::new starts at  *)
(* epoch 0, DagStorage::open keeps the tables that are there.              *)
(***************************************************************************)
Restart ==
    /\ runs < MaxRuns /\ runs' = runs + 1
    /\ count' = 0 /\ last_epoch' = 0 /\ txs' = 0 /\ counted' = 0
    /\ calls' = [t \in Thread |-> Idle]
    /\ writer' = NoWriter
    /\ UNCHANGED disk

Next ==
    \/ \E t \in Thread : Insert(t) \/ on_transaction(t) \/ TakeEpoch(t) \/ ResetCount(t)
                         \/ ReadDag(t) \/ save_checkpoint(t)
    \/ \E W \in Writes : put(W)
    \/ InsertEntry \/ Commit \/ Abort \/ Restart

Spec == Init /\ [][Next]_vars

-----------------------------------------------------------------------------
(***************************************************************************)
(* Once the interval is reached a thread is about to reset the counter:    *)
(* no interleaving of counting and resetting lets a due checkpoint go by   *)
(* (checkpoint.rs:38-50).                                                  *)
(***************************************************************************)
DueCheckpointIsPending ==
    LET reset == CHOOSE i \in DOMAIN Order : Order[i] = "reset"
    IN  count >= tx_interval => \E t \in Thread, i \in 1 .. reset : calls[t].pc = Order[i]

(***************************************************************************)
(* The counter is reset before the DAG is read, so that a checkpoint       *)
(* covers every transaction whose count its reset has discarded: none      *)
(* falls between two checkpoints (checkpoint.rs:49-67).                    *)
(***************************************************************************)
CheckpointCoversCounted ==
    \A t \in Thread :
        LET r == calls[t].record
        IN  calls[t].pc \in {"save", "commit"} =>
                r.covers <= r.state /\ r.covers <= r.merkle /\ r.covers <= r.len

(***************************************************************************)
(* What on_transaction and create_checkpoint promise together: a due       *)
(* checkpoint is being made, and no transaction falls between two          *)
(* checkpoints.                                                            *)
(***************************************************************************)
CheckpointsAreComplete == DueCheckpointIsPending /\ CheckpointCoversCounted

\* What a step may do to the stored checkpoints.
ReplacesEarlierRun ==
    \A e \in DOMAIN disk["checkpoints"] :
        LET old == disk["checkpoints"][e]  new == disk'["checkpoints"][e]
        IN  new = old \/ old.run < new.run

(***************************************************************************)
(* A stored checkpoint is replaced only by one of a later run of the       *)
(* program, whose epochs start again at 1 (checkpoint.rs:28-34, 49): two   *)
(* threads never save under one epoch.                                     *)
(***************************************************************************)
EpochIsSavedOnce == [][ReplacesEarlierRun]_vars

(***************************************************************************)
(* put_transaction_batch is all or nothing, also when an insertion fails   *)
(* or the program dies half way (storage.rs:174-185).                      *)
(***************************************************************************)
BatchIsAtomic ==
    \A W \in Writes : \A i, j \in DOMAIN W :
        Get(W[i].table, W[i].key) = W[i].value <=> Get(W[j].table, W[j].key) = W[j].value
=============================================================================
