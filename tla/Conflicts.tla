------------------------------ MODULE Conflicts -----------------------------
(***************************************************************************)
(* The conflict sets of ConflictDetector (crates/relyo-dag/src/            *)
(* conflict.rs): register_conflict and resolve_conflict called by several  *)
(* threads, one access to a shared map per step.  The nonces it also keeps *)
(* are modelled in DagGraph; revert_transaction gives one back.            *)
(***************************************************************************)
EXTENDS Callers, Integers, FiniteSets

CONSTANT
    Pairs       \* conflicts that are reported: sets of two transaction hashes

VARIABLES
    next_conflict_id,
    conflicts,          \* set of each conflict id, {} without an entry
    tx_to_conflict,     \* conflict id of each transaction, NoConflict without an entry
    duty,               \* what each thread runs
    winners,            \* transactions each conflict was resolved for
    hurried             \* conflicts resolved while they were still being registered

detectorVars == <<next_conflict_id, conflicts, tx_to_conflict, duty, winners, hurried>>

NoConflict == -1
Conflicting == UNION Pairs
Id == 1 .. Cardinality(Pairs)
NoDuty == [pc |-> "idle", id |-> 0, accepted |-> NoConflict, left |-> {}]

DetectorInit ==
    /\ next_conflict_id = 1
    /\ conflicts = [c \in Id |-> {}]
    /\ tx_to_conflict = [h \in Conflicting |-> NoConflict]
    /\ duty = [t \in Thread |-> NoDuty]
    /\ winners = [c \in Id |-> {}]
    /\ hurried = {}

SetDuty(t, pc, id, accepted, left) ==
    duty' = [duty EXCEPT ![t] = [pc |-> pc, id |-> id, accepted |-> accepted, left |-> left]]

-----------------------------------------------------------------------------
(***************************************************************************)
(* register_conflict: take an id, store the set, and point its two         *)
(* transactions to it, one after the other.  The bound on the calls is the *)
(* number of pairs.                                                        *)
(***************************************************************************)
TakeId(t, pair) ==
    /\ duty[t] = NoDuty /\ next_conflict_id \in Id
    /\ next_conflict_id' = next_conflict_id + 1
    /\ SetDuty(t, "store", next_conflict_id, NoConflict, pair)
    /\ UNCHANGED <<conflicts, tx_to_conflict, winners, hurried>>

StoreSet(t) ==
    /\ duty[t].pc = "store"
    /\ conflicts' = [conflicts EXCEPT ![duty[t].id] = duty[t].left]
    /\ SetDuty(t, "point", duty[t].id, NoConflict, duty[t].left)
    /\ UNCHANGED <<next_conflict_id, tx_to_conflict, winners, hurried>>

Point(t, h) ==
    /\ duty[t].pc = "point" /\ h \in duty[t].left
    /\ tx_to_conflict' = [tx_to_conflict EXCEPT ![h] = duty[t].id]
    /\ IF duty[t].left = {h} THEN duty' = [duty EXCEPT ![t] = NoDuty]
       ELSE SetDuty(t, "point", duty[t].id, NoConflict, duty[t].left \ {h})
    /\ UNCHANGED <<next_conflict_id, conflicts, winners, hurried>>

-----------------------------------------------------------------------------
(***************************************************************************)
(* resolve_conflict: look up the id of the accepted transaction, remove    *)
(* the set in one step, and then the entries of its transactions.  Without *)
(* an id or a set it rejects nothing.                                      *)
(***************************************************************************)
LookUp(t, accepted) ==
    /\ duty[t] = NoDuty /\ tx_to_conflict[accepted] # NoConflict
    /\ SetDuty(t, "take", tx_to_conflict[accepted], accepted, {})
    /\ UNCHANGED <<next_conflict_id, conflicts, tx_to_conflict, winners, hurried>>

\* Mutant: the set is read and removed later.
TakeSetLater(t) ==
    /\ duty[t].pc = "take" /\ conflicts[duty[t].id] # {}
    /\ winners' = [winners EXCEPT ![duty[t].id] = @ \cup {duty[t].accepted}]
    /\ SetDuty(t, "forget", duty[t].id, duty[t].accepted, conflicts[duty[t].id])
    /\ UNCHANGED <<next_conflict_id, conflicts, tx_to_conflict, hurried>>

TakeSet(t) ==
    LET set == conflicts[duty[t].id]
    IN  /\ duty[t].pc = "take"
        /\ \/ set = {} /\ duty' = [duty EXCEPT ![t] = NoDuty] /\ UNCHANGED <<conflicts, winners, hurried>>
           \/ /\ set # {}
              /\ conflicts' = [conflicts EXCEPT ![duty[t].id] = {}]
              /\ winners' = [winners EXCEPT ![duty[t].id] = @ \cup {duty[t].accepted}]
              /\ hurried' = hurried \cup
                             {duty[u].id : u \in {u \in Thread : duty[u].pc = "point" /\ duty[u].id = duty[t].id}}
              /\ SetDuty(t, "forget", duty[t].id, duty[t].accepted, set)
        /\ UNCHANGED <<next_conflict_id, tx_to_conflict>>

\* Mutant: the accepted transaction keeps its entry.
ForgetRejected(t, h) ==
    /\ duty[t].pc = "forget" /\ h \in duty[t].left
    /\ tx_to_conflict' = [tx_to_conflict EXCEPT ![h] = IF h = duty[t].accepted THEN @ ELSE NoConflict]
    /\ IF duty[t].left = {h} THEN duty' = [duty EXCEPT ![t] = NoDuty]
       ELSE SetDuty(t, "forget", duty[t].id, duty[t].accepted, duty[t].left \ {h})
    /\ UNCHANGED <<next_conflict_id, conflicts, winners, hurried>>

Forget(t, h) ==
    /\ duty[t].pc = "forget" /\ h \in duty[t].left
    /\ h # duty[t].accepted => duty[t].accepted \notin duty[t].left
    /\ tx_to_conflict' = [tx_to_conflict EXCEPT ![h] = NoConflict]
    /\ IF duty[t].left = {h} THEN duty' = [duty EXCEPT ![t] = NoDuty]
       ELSE SetDuty(t, "forget", duty[t].id, duty[t].accepted, duty[t].left \ {h})
    /\ UNCHANGED <<next_conflict_id, conflicts, winners, hurried>>

DetectorNext ==
    \E t \in Thread :
        \/ \E pair \in Pairs : TakeId(t, pair)
        \/ StoreSet(t) \/ TakeSet(t)
        \/ \E h \in Conflicting : Point(t, h) \/ LookUp(t, h) \/ Forget(t, h)

DetectorSpec == DetectorInit /\ [][DetectorNext]_detectorVars

-----------------------------------------------------------------------------
(***************************************************************************)
(* A conflict is resolved for one transaction at most: of two threads that *)
(* resolve it for different ones, one gets the set and the other nothing   *)
(* to reject, so that they never reject each other's (conflict.rs:123).    *)
(***************************************************************************)
OneWinner == \A c \in Id : Cardinality(winners[c]) <= 1

(***************************************************************************)
(* Between calls an entry of tx_to_conflict leads to a set that holds the  *)
(* transaction, also when sets overlap, unless a conflict was resolved     *)
(* before both its entries were made (conflict.rs:100-102, 121-130): only  *)
(* then does is_conflicting stay true for good.                            *)
(***************************************************************************)
EntriesLeadToSets ==
    (\A t \in Thread : duty[t] = NoDuty) =>
        \A h \in Conflicting : tx_to_conflict[h] \in Id \ hurried => h \in conflicts[tx_to_conflict[h]]

(***************************************************************************)
(* What register_conflict and resolve_conflict promise together: a         *)
(* conflict is resolved for one transaction, and between calls no          *)
(* transaction points to a conflict that is gone.                          *)
(***************************************************************************)
ConflictsAreSettled == OneWinner /\ EntriesLeadToSets
=============================================================================
