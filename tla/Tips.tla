-------------------------------- MODULE Tips --------------------------------
(***************************************************************************)
(* TipSelector (crates/relyo-dag/src/tips.rs): the tip set and the weight  *)
(* and age of each tip in maps of their own, changed one after the other   *)
(* by several threads.  As in DagGraph, a hash is added once, and removed  *)
(* only when its addition has returned.                                    *)
(***************************************************************************)
EXTENDS Callers, Integers, SequencesExt, FiniteSets

CONSTANTS
    Hash,
    Weights,    \* weights given by add_weighted and update_weight; add gives 1
    WeightLimit \* sums of weights wrap here: 2^64 in the code

VARIABLES
    tips,       \* the set, behind its lock
    weights,    \* weight of each tip, NoWeight without an entry
    added_at,   \* age of each tip, "fresh" or "old", NoWeight without an entry
    added,      \* hashes whose addition has begun, and whether it has returned
    job,        \* what each thread runs
    lock        \* thread that holds the write lock of tips over several steps

selectorVars == <<tips, weights, added_at, added, job, lock>>

NoWeight == -1
NoOne == "none"
NoJob == [pc |-> "idle", hash |-> {}, weight |-> 1, list |-> <<>>, read |-> <<>>, chosen |-> <<>>]

SelectorInit ==
    /\ tips = {} /\ lock = NoOne
    /\ weights = [h \in Hash |-> NoWeight]
    /\ added_at = [h \in Hash |-> "none"]
    /\ added = [h \in Hash |-> "no"]
    /\ job = [t \in Thread |-> NoJob]

Unlocked == lock = NoOne
GoOn(t, pc) == job' = [job EXCEPT ![t].pc = pc]
EndJob(t) == job' = [job EXCEPT ![t] = NoJob]

-----------------------------------------------------------------------------
\* add and add_weighted: into the set, then the weight, then the age.
AddTip(t, h, w) ==
    /\ job[t].pc = "idle" /\ added[h] = "no" /\ Unlocked
    /\ added' = [added EXCEPT ![h] = "begun"]
    /\ tips' = tips \cup {h}
    /\ job' = [job EXCEPT ![t] = [NoJob EXCEPT !.pc = "weight", !.hash = {h}, !.weight = w]]
    /\ UNCHANGED <<weights, added_at, lock>>

AddWeight(t) ==
    /\ job[t].pc = "weight"
    /\ \E h \in job[t].hash : weights' = [weights EXCEPT ![h] = job[t].weight]
    /\ GoOn(t, "age")
    /\ UNCHANGED <<tips, added_at, added, lock>>

AddAge(t) ==
    /\ job[t].pc = "age"
    /\ \E h \in job[t].hash : /\ added_at' = [added_at EXCEPT ![h] = "fresh"]
                              /\ added' = [added EXCEPT ![h] = "yes"]
    /\ EndJob(t)
    /\ UNCHANGED <<tips, weights, lock>>

\* remove, in the same order.
RemoveTip(t, h) ==
    /\ job[t].pc = "idle" /\ added[h] = "yes" /\ Unlocked
    /\ tips' = tips \ {h}
    /\ job' = [job EXCEPT ![t] = [NoJob EXCEPT !.pc = "unweigh", !.hash = {h}]]
    /\ UNCHANGED <<weights, added_at, added, lock>>

RemoveWeight(t) ==
    /\ job[t].pc = "unweigh"
    /\ weights' = [h \in Hash |-> IF h \in job[t].hash THEN NoWeight ELSE weights[h]]
    /\ GoOn(t, "unage")
    /\ UNCHANGED <<tips, added_at, added, lock>>

RemoveAge(t) ==
    /\ job[t].pc = "unage"
    /\ added_at' = [h \in Hash |-> IF h \in job[t].hash THEN "none" ELSE added_at[h]]
    /\ EndJob(t)
    /\ UNCHANGED <<tips, weights, added, lock>>

\* Mutant: a weight is stored for a tip that is gone.
update_any_weight(t, h, w) ==
    /\ job[t].pc = "idle" /\ added[h] = "yes"
    /\ weights' = [weights EXCEPT ![h] = w]
    /\ UNCHANGED <<tips, added_at, added, job, lock>>

update_weight(t, h, w) ==
    /\ job[t].pc = "idle" /\ weights[h] # NoWeight
    /\ weights' = [weights EXCEPT ![h] = w]
    /\ UNCHANGED <<tips, added_at, added, job, lock>>

-----------------------------------------------------------------------------
(***************************************************************************)
(* prune_stale: collect and drop the old ages, then drop the tips and      *)
(* their weights, one by one, under the write lock.                        *)
(***************************************************************************)
Grow(h) ==
    /\ added_at[h] = "fresh"
    /\ added_at' = [added_at EXCEPT ![h] = "old"]
    /\ UNCHANGED <<tips, weights, added, job, lock>>

CollectStale(t) ==
    LET stale == {h \in Hash : added_at[h] = "old"}
    IN  /\ job[t].pc = "idle" /\ stale # {}
        /\ added_at' = [h \in Hash |-> IF h \in stale THEN "none" ELSE added_at[h]]
        /\ job' = [job EXCEPT ![t] = [NoJob EXCEPT !.pc = "lock", !.hash = stale]]
        /\ UNCHANGED <<tips, weights, added, lock>>

LockTips(t) ==
    /\ job[t].pc = "lock" /\ Unlocked
    /\ lock' = t
    /\ GoOn(t, "prune")
    /\ UNCHANGED <<tips, weights, added_at, added>>

PruneTip(t, h) ==
    /\ job[t].pc = "prune" /\ h \in job[t].hash
    /\ tips' = tips \ {h}
    /\ weights' = [weights EXCEPT ![h] = NoWeight]
    /\ job' = [job EXCEPT ![t].hash = @ \ {h}]
    /\ UNCHANGED <<added_at, added, lock>>

Unlock(t) ==
    /\ job[t].pc = "prune" /\ job[t].hash = {}
    /\ lock' = NoOne
    /\ EndJob(t)
    /\ UNCHANGED <<tips, weights, added_at, added>>

-----------------------------------------------------------------------------
(***************************************************************************)
(* select_two and select_weighted copy the tips under the lock, the latter *)
(* then reads the weights one by one, 1 for a tip that has gone, and falls *)
(* back to select_two when their sum is 0, or has wrapped to 0.            *)
(***************************************************************************)
ReadTips(t, how) ==
    /\ job[t].pc \in {"idle", "again"} /\ Unlocked
    /\ job[t].pc = "again" => how = "two"
    /\ \/ /\ Cardinality(tips) >= 2
          /\ \E list \in SetToSeqs(tips) :
                 job' = [job EXCEPT ![t] = [NoJob EXCEPT !.pc = how, !.list = list]]
       \/ Cardinality(tips) < 2 /\ EndJob(t)
    /\ UNCHANGED <<tips, weights, added_at, added, lock>>

ReadWeight(t) ==
    LET i == Len(job[t].read) + 1
    IN  /\ job[t].pc = "weighted" /\ i <= Len(job[t].list)
        /\ job' = [job EXCEPT ![t].read =
                     Append(@, IF weights[job[t].list[i]] = NoWeight THEN 1 ELSE weights[job[t].list[i]])]
        /\ UNCHANGED <<tips, weights, added_at, added, lock>>

\* The running sums of the weights read, 64 bits wide.
Cumulative(read) ==
    LET Upto[i \in 0 .. Len(read)] == IF i = 0 THEN 0 ELSE (Upto[i - 1] + read[i]) % WeightLimit IN Upto

total_weight(read) == Cumulative(read)[Len(read)]

\* The places that a draw below the total can hit: the first whose sum is above it.
Drawn(read) ==
    LET sums == Cumulative(read)
    IN  {i \in DOMAIN read : \E target \in 0 .. sums[Len(read)] - 1 :
            sums[i] > target /\ \A j \in 1 .. i - 1 : sums[j] <= target}

(***************************************************************************)
(* What pick can return: a tip that can be drawn, other than the excluded  *)
(* one, or, as after a hundred draws of the excluded one, the first other. *)
(***************************************************************************)
\* Mutant: the fallback forgets the exclusion.
pickFirst(list, read, exclude) ==
    {list[i] : i \in {i \in Drawn(read) : list[i] \notin exclude}}
        \cup {list[1] : i \in {i \in Drawn(read) : list[i] \in exclude}}

pick(list, read, exclude) ==
    LET others == {i \in DOMAIN list : list[i] \notin exclude}
        first  == IF others = {} THEN {1} ELSE {i \in others : \A j \in others : i <= j}
    IN  {list[i] : i \in (Drawn(read) \cap others) \cup (IF Drawn(read) \subseteq others THEN {} ELSE first)}

Chosen(t, h, i) ==
    /\ job' = [job EXCEPT ![t].pc = "chosen", ![t].chosen = <<h, i>>]
    /\ UNCHANGED <<tips, weights, added_at, added, lock>>

ChooseTwo(t) ==
    /\ job[t].pc = "two"
    /\ \E i, j \in DOMAIN job[t].list : i # j /\ Chosen(t, job[t].list[i], job[t].list[j])

ChooseWeighted(t) ==
    LET list == job[t].list  read == job[t].read
    IN  /\ job[t].pc = "weighted" /\ Len(read) = Len(list)
        /\ \E h \in pick(list, read, {}) : \E i \in pick(list, read, {h}) : Chosen(t, h, i)

Weightless(t) ==
    /\ job[t].pc = "weighted" /\ Len(job[t].read) = Len(job[t].list)
    /\ total_weight(job[t].read) = 0
    /\ job' = [job EXCEPT ![t] = [NoJob EXCEPT !.pc = "again"]]
    /\ UNCHANGED <<tips, weights, added_at, added, lock>>

Selected(t) ==
    /\ job[t].pc = "chosen"
    /\ EndJob(t)
    /\ UNCHANGED <<tips, weights, added_at, added, lock>>

SelectorNext ==
    \/ \E h \in Hash : Grow(h)
    \/ \E t \in Thread :
          \/ \E h \in Hash, w \in Weights \cup {1} : AddTip(t, h, w) \/ update_weight(t, h, w)
          \/ \E h \in Hash : RemoveTip(t, h) \/ PruneTip(t, h)
          \/ AddWeight(t) \/ AddAge(t) \/ RemoveWeight(t) \/ RemoveAge(t)
          \/ CollectStale(t) \/ LockTips(t) \/ Unlock(t)
          \/ ReadTips(t, "two") \/ ReadTips(t, "weighted") \/ ReadWeight(t)
          \/ ChooseTwo(t) \/ ChooseWeighted(t) \/ Weightless(t) \/ Selected(t)

SelectorSpec == SelectorInit /\ [][SelectorNext]_selectorVars

-----------------------------------------------------------------------------
(***************************************************************************)
(* Between calls the tips, their weights and their ages name the same      *)
(* hashes, whatever additions, removals, updates and prunings have         *)
(* interleaved: no tip is left that pruning cannot see, and no weight of a *)
(* hash that is no tip (tips.rs:26-49, 139-156).                           *)
(***************************************************************************)
TipMapsAgree ==
    (\A t \in Thread : job[t].pc = "idle") =>
        \A h \in Hash : /\ h \in tips <=> weights[h] # NoWeight
                        /\ h \in tips <=> added_at[h] # "none"

(***************************************************************************)
(* A selection gives two different tips of the list it read, weights of 0, *)
(* weights that change meanwhile and sums that wrap included; the last     *)
(* fallback, which "should never" be reached (tips.rs:124), is not.        *)
(***************************************************************************)
SelectedTipsDiffer ==
    \A t \in Thread : job[t].pc = "chosen" =>
        /\ job[t].chosen[1] # job[t].chosen[2]
        /\ {job[t].chosen[1], job[t].chosen[2]} \subseteq ToSet(job[t].list)

TipsAreConsistent == TipMapsAgree /\ SelectedTipsDiffer
=============================================================================
