------------------------------- MODULE Staking ------------------------------
(***************************************************************************)
(* The part of LedgerState (crates/relyo-dag/src/state.rs) that DagGraph   *)
(* leaves out: stakes, unstake requests with their lock period, and        *)
(* snapshots.  The four maps are concurrent ones: an operation on one      *)
(* entry is atomic, an operation on two of them is not, and an iteration   *)
(* reads one entry after the other.  A map holds the entries that were     *)
(* ever touched: a refused removal leaves an entry of 0 behind.            *)
(***************************************************************************)
EXTENDS Callers, Integers, SequencesExt, Totals

CONSTANTS
    Addresses,  \* the addresses, as a sequence in the order of their strings
    Parsed,     \* those of them that Address::validate accepts; a ledger may hold others
    Amounts,    \* amounts of calls
    LockTime, LockEpochs,   \* the lock period: 30 days, 10 epochs
    MaxTime, MaxEpoch,      \* bounds on the clock
    MaxCalls    \* bound on the calls other than process_unstakes, which ends by itself

VARIABLES
    ledger,     \* the maps balances, nonces, stakes and unstake_requests
    tasks,      \* what each thread has yet to do
    clock,      \* the callers' time and epoch
    made,       \* calls made
    cell,       \* position of the snapshot being made, 0 if there is none
    data,       \* what it has collected
    copy,       \* what its state_hash has collected
    seen,       \* states of the ledger since the snapshot was begun
    staked,     \* what was ever staked for each address
    begun,      \* the value of staked when the snapshot was begun, and whether no call was under way
    sound       \* no snapshot was restored but one that was settled and quiet

stakingVars == <<ledger, tasks, clock, made, cell, data, copy, seen, staked, begun, sound>>
snapshot == <<cell, data, copy, begun, sound>>

Addr == ToSet(Addresses)
Maps == <<"balances", "nonces", "stakes", "unstake_requests">>
MapNames == {"balances", "nonces", "stakes", "unstake_requests"}
Empty == [m \in MapNames |-> <<>>]

\* A map after a write to an entry, which is made if it is not there.
Entered(map, a, v) == [x \in DOMAIN map \cup {a} |-> IF x = a THEN v ELSE map[x]]

Entry(L, m, a) == IF a \in DOMAIN L[m] THEN L[m][a] ELSE 0
Value(m, a) == Entry(ledger, m, a)
Put(m, a, v) == [ledger EXCEPT ![m] = Entered(@, a, v)]
Requests(L, a) == IF a \in DOMAIN L["unstake_requests"] THEN L["unstake_requests"][a] ELSE <<>>
AmountsOf(reqs) == [i \in DOMAIN reqs |-> reqs[i].amount]
SumOf(reqs) == Total(AmountsOf(reqs), DOMAIN reqs)

NoTask == [op |-> "idle"]

StakingInit ==
    /\ ledger = Empty
    /\ tasks = [t \in Thread |-> NoTask]
    /\ clock = [time |-> 0, epoch |-> 0]
    /\ made = 0
    /\ cell = 0 /\ data = Empty /\ copy = Empty /\ seen = {}
    /\ staked = [a \in Addr |-> 0]
    /\ begun = [staked |-> staked, settled |-> FALSE] /\ sound = TRUE

AllIdle == \A t \in Thread : tasks[t] = NoTask

Begin(t) == tasks[t] = NoTask /\ made < MaxCalls /\ made' = made + 1

-----------------------------------------------------------------------------
add_stake(t, a, v) ==
    /\ Begin(t)
    /\ ledger' = Put("stakes", a, Value("stakes", a) + v)
    /\ staked' = [staked EXCEPT ![a] = @ + v]
    /\ UNCHANGED <<tasks, clock, snapshot>>

increment_nonce(t, a) ==
    /\ Begin(t)
    /\ ledger' = Put("nonces", a, Value("nonces", a) + 1)
    /\ UNCHANGED <<tasks, clock, snapshot, staked>>

\* remove_stake: what its compare-and-swap loop leaves of the stake; it refuses to take more than there is.
Covers(a, v) == Value("stakes", a) >= v
remove_stake(a, v) == Value("stakes", a) - (IF Covers(a, v) THEN v ELSE 0)

(***************************************************************************)
(* request_unstake: the stake is reduced, or the call refused, and then    *)
(* the request is appended.                                                *)
(***************************************************************************)
request_unstake(t, a, v) ==
    /\ Begin(t)
    /\ ledger' = Put("stakes", a, remove_stake(a, v))
    /\ \/ ~Covers(a, v) /\ UNCHANGED tasks
       \/ Covers(a, v) /\ tasks' = [tasks EXCEPT ![t] = [op |-> "push", addr |-> a, amount |-> v,
                                                         time |-> clock.time, epoch |-> clock.epoch]]
    /\ UNCHANGED <<clock, snapshot, staked>>

PushRequest(t) ==
    LET c == tasks[t]
        r == [amount |-> c.amount, unlock_time_ms |-> c.time + LockTime, unlock_epoch |-> c.epoch + LockEpochs]
    IN  /\ c.op = "push"
        /\ ledger' = Put("unstake_requests", c.addr, Append(Requests(ledger, c.addr), r))
        /\ tasks' = [tasks EXCEPT ![t] = NoTask]
        /\ UNCHANGED <<clock, made, snapshot, staked>>

(***************************************************************************)
(* process_unstakes: under the lock of the entry the unlocked requests are *)
(* taken out, and then their sum is credited.  The others stay, in their   *)
(* order.                                                                  *)
(***************************************************************************)
IsUnlocked(r) == clock.time >= r.unlock_time_ms \/ clock.epoch >= r.unlock_epoch
UnlockedIn(reqs) == {i \in DOMAIN reqs : IsUnlocked(reqs[i])}

\* The lists that have the requests at these places in this order: there is one.
InOrder(places) == {f \in [1 .. Cardinality(places) -> places] : \A i, j \in DOMAIN f : i < j => f[i] < f[j]}
Retained(reqs, places) == {[i \in DOMAIN f |-> reqs[f[i]]] : f \in InOrder(places)}

Credited(t, a, unlocked) ==
    tasks' = [tasks EXCEPT ![t] = IF unlocked = 0 THEN NoTask
                                  ELSE [op |-> "credit", addr |-> a, amount |-> unlocked]]

\* Mutant: the requests are read, not taken out.
process_unstakesRead(t, a) ==
    LET reqs == Requests(ledger, a)
    IN  /\ tasks[t] = NoTask
        /\ Credited(t, a, Total(AmountsOf(reqs), UnlockedIn(reqs)))
        /\ UNCHANGED <<ledger, clock, made, snapshot, staked>>

process_unstakes(t, a) ==
    LET reqs == Requests(ledger, a)
    IN  /\ tasks[t] = NoTask
        /\ a \in DOMAIN ledger["unstake_requests"]
        /\ \E rest \in Retained(reqs, DOMAIN reqs \ UnlockedIn(reqs)) :
               ledger' = Put("unstake_requests", a, rest)
        /\ Credited(t, a, Total(AmountsOf(reqs), UnlockedIn(reqs)))
        /\ UNCHANGED <<clock, made, snapshot, staked>>

credit(t) ==
    /\ tasks[t].op = "credit"
    /\ ledger' = Put("balances", tasks[t].addr, Value("balances", tasks[t].addr) + tasks[t].amount)
    /\ tasks' = [tasks EXCEPT ![t] = NoTask]
    /\ UNCHANGED <<clock, made, snapshot, staked>>

PassTime ==
    /\ \/ clock.time < MaxTime /\ clock' = [clock EXCEPT !.time = @ + 1]
       \/ clock.epoch < MaxEpoch /\ clock' = [clock EXCEPT !.epoch = @ + 1]
    /\ UNCHANGED <<ledger, tasks, made, snapshot, staked>>

-----------------------------------------------------------------------------
(***************************************************************************)
(* create_snapshot reads the maps in their order, entry by entry, and then *)
(* state_hash reads all of them again.  The hash stands for the bytes it   *)
(* is computed from: the entries of all maps in the order of the           *)
(* addresses, with nothing between the maps.                               *)
(***************************************************************************)
N == Len(Addresses)
Cells == 4 * N
CellMap(i) == Maps[((i - 1) \div N) + 1]
CellAddr(i) == Addresses[((i - 1) % N) + 1]

state_hash(L) ==
    LET Bytes(m, a) ==
            IF a \notin DOMAIN L[m] THEN <<>>
            ELSE IF m # "unstake_requests" THEN <<a, L[m][a]>>
            ELSE FoldSeq(LAMBDA r, s : s \o <<r.amount, r.unlock_time_ms, r.unlock_epoch>>, <<a>>, L[m][a])
        Upto[i \in 0 .. Cells] == IF i = 0 THEN <<>> ELSE Upto[i - 1] \o Bytes(CellMap(i), CellAddr(i))
    IN  Upto[Cells]

\* Mutant: entries without a value are left out.
CollectPositive(into, i) ==
    LET m == CellMap(i)  a == CellAddr(i)
    IN  IF a \in DOMAIN ledger[m] /\ (m = "unstake_requests" \/ Value(m, a) # 0)
        THEN [into EXCEPT ![m] = Entered(@, a, ledger[m][a])] ELSE into

Collect(into, i) ==
    LET m == CellMap(i)  a == CellAddr(i)
    IN  IF a \in DOMAIN ledger[m] THEN [into EXCEPT ![m] = Entered(@, a, ledger[m][a])] ELSE into

create_snapshot ==
    /\ cell = 0 /\ cell' = 1
    /\ data' = Empty /\ copy' = Empty
    /\ begun' = [staked |-> staked, settled |-> AllIdle]
    /\ UNCHANGED <<ledger, tasks, clock, made, staked, sound>>

CollectCell ==
    /\ cell \in 1 .. Cells /\ cell' = cell + 1
    /\ data' = Collect(data, cell)
    /\ UNCHANGED <<ledger, tasks, clock, made, copy, staked, begun, sound>>

HashCell ==
    /\ cell \in Cells + 1 .. 2 * Cells /\ cell' = cell + 1
    /\ copy' = Collect(copy, cell - Cells)
    /\ UNCHANGED <<ledger, tasks, clock, made, data, staked, begun, sound>>

Complete == cell = 2 * Cells + 1

TotalOf(L, a) == Entry(L, "balances", a) + Entry(L, "stakes", a) + SumOf(Requests(L, a))

(***************************************************************************)
(* restore_from_snapshot, on a ledger no thread uses meanwhile: the maps   *)
(* are cleared and filled with what was collected, but for the entries     *)
(* whose address does not parse: they are skipped.  Parsing addresses then *)
(* have what had been staked for them when the snapshot was begun, if no   *)
(* call was under way then and none changed the ledger while it was made.  *)
(***************************************************************************)
Rewound == [a \in Addr |-> IF a \in Parsed THEN begun.staked[a] ELSE 0]

\* Mutant: the maps are not cleared.
RestoreOver ==
    /\ Complete /\ AllIdle
    /\ cell' = 2 * Cells + 2
    /\ ledger' = [m \in MapNames |-> [a \in DOMAIN ledger[m] \cup (DOMAIN data[m] \cap Parsed) |->
                                        IF a \in DOMAIN data[m] \cap Parsed THEN data[m][a] ELSE ledger[m][a]]]
    /\ staked' = Rewound
    /\ sound' = (begun.settled /\ Cardinality(seen) = 1)
    /\ UNCHANGED <<tasks, clock, made, data, copy, begun>>

restore_from_snapshot ==
    /\ Complete /\ AllIdle
    /\ cell' = 2 * Cells + 2
    /\ ledger' = [m \in MapNames |-> [a \in DOMAIN data[m] \cap Parsed |-> data[m][a]]]
    /\ staked' = Rewound
    /\ sound' = (begun.settled /\ Cardinality(seen) = 1)
    /\ UNCHANGED <<tasks, clock, made, data, copy, begun>>

-----------------------------------------------------------------------------
Operation ==
    \/ \E t \in Thread, a \in Addr : increment_nonce(t, a) \/ process_unstakes(t, a)
    \/ \E t \in Thread, a \in Addr, v \in Amounts : add_stake(t, a, v) \/ request_unstake(t, a, v)
    \/ \E t \in Thread : PushRequest(t) \/ credit(t)
    \/ PassTime
    \/ CollectCell \/ HashCell \/ restore_from_snapshot

StakingNext ==
    \/ create_snapshot /\ seen' = {ledger}
    \/ Operation /\ seen' = IF cell \in 1 .. 2 * Cells THEN seen \cup {ledger'} ELSE seen

StakingSpec == StakingInit /\ [][StakingNext]_stakingVars

-----------------------------------------------------------------------------
\* What the calls that are not over hold of an address.
Held(task, a) == IF task.op # "idle" /\ task.addr = a THEN task.amount ELSE 0
OnItsWay(a) == [t \in Thread |-> Held(tasks[t], a)]

(***************************************************************************)
(* Nothing that was staked is lost or paid twice, whatever calls race for  *)
(* one stake or one request (state.rs:129-150, 168-181, 192-207): it is a  *)
(* stake, a request, a balance, or on its way in exactly one call.  After  *)
(* a restore it is what had been staked by the time the snapshot was       *)
(* begun, whatever was in the maps before, if the snapshot is quiet and    *)
(* was begun between calls; an address that does not parse loses all of it *)
(* (state.rs:377-406).                                                     *)
(***************************************************************************)
StakeIsConserved ==
    sound => \A a \in Addr : TotalOf(ledger, a) + Total(OnItsWay(a), Thread) = staked[a]

(***************************************************************************)
(* A snapshot during which no call changed the ledger is the ledger, the   *)
(* empty entries included, and its state_hash is that of its data          *)
(* (state.rs:319-374).                                                     *)
(***************************************************************************)
QuietSnapshotIsExact ==
    Complete /\ Cardinality(seen) = 1 =>
        data \in seen /\ state_hash(copy) = state_hash(data)

\* Stakes are neither lost nor paid twice (request_unstake, process_unstakes), and
\* a snapshot of a quiet ledger is exact (create_snapshot, state_hash).
StakesAreKept == StakeIsConserved /\ QuietSnapshotIsExact

(***************************************************************************)
(* What state.rs:22 says of a snapshot, that it is the ledger "at a point  *)
(* in time": it shows a state the ledger had while it was made.            *)
(***************************************************************************)
SnapshotIsPointInTime == Complete => data \in seen
=============================================================================
