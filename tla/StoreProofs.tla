------------------------------ MODULE StoreProofs ---------------------------
(***************************************************************************)
(* What the structures that a node's threads share promise, for any number *)
(* of threads: a conflict is settled once (Conflicts), the tip selector's  *)
(* maps agree and its selections differ (Tips), the peer manager counts    *)
(* its peers (PeerManager), the rate limiter bounds what a sender gets     *)
(* through in a second (RateLimiter), and the ledger loses no stake, nor   *)
(* does its snapshot (Staking).                                            *)
(***************************************************************************)
EXTENDS Conflicts, Tips, PeerManager, RateLimiter, Staking, SequenceTheorems, TotalsProofs

-----------------------------------------------------------------------------
(***************************************************************************)
(* The conflict sets, for any finite number of reported pairs.             *)
(***************************************************************************)
Duty == [pc : {"idle", "store", "point", "take", "forget"}, id : Id \cup {0},
        accepted : Conflicting \cup {NoConflict}, left : SUBSET Conflicting]

\* Every variable has its type; a thread that runs a call has a conflict's id.
DetectorTypeOK ==
    /\ next_conflict_id \in Nat
    /\ conflicts \in [Id -> SUBSET Conflicting]
    /\ tx_to_conflict \in [Conflicting -> Id \cup {NoConflict}]
    /\ duty \in [Thread -> Duty]
    /\ winners \in [Id -> SUBSET Conflicting]
    /\ \A t \in Thread : duty[t].pc = "idle" \/ duty[t].id \in Id
    /\ \A t \in Thread : duty[t].pc = "take" => duty[t].accepted \in Conflicting

Registers(t) == duty[t].pc \in {"store", "point"}

\* One thread registers a conflict, and its id is one that was handed out.
IdInv ==
    /\ \A t \in Thread : Registers(t) => duty[t].id < next_conflict_id
    /\ \A t, u \in Thread : Registers(t) /\ Registers(u) /\ duty[t].id = duty[u].id => t = u

\* A conflict has no winner before its set is stored nor while the set is there; and
\* once it has one, there is no second.
WinnerInv ==
    /\ \A c \in Id : c >= next_conflict_id => winners[c] = {} /\ conflicts[c] = {}
    /\ \A t \in Thread : duty[t].pc = "store" => winners[duty[t].id] = {} /\ conflicts[duty[t].id] = {}
    /\ \A c \in Id : conflicts[c] # {} => winners[c] = {}
    /\ \A c \in Id : \A h, g \in winners[c] : h = g

\* An entry leads to its set, or to one that is being taken apart; and the entries
\* that are still to be made will, unless the conflict was resolved too early.
EntryInv ==
    /\ \A h \in Conflicting : tx_to_conflict[h] \in Id \ hurried =>
           \/ h \in conflicts[tx_to_conflict[h]]
           \/ \E t \in Thread : duty[t].pc = "forget" /\ duty[t].id = tx_to_conflict[h] /\ h \in duty[t].left
    /\ \A t \in Thread : duty[t].pc = "point" => duty[t].id \in hurried \/ duty[t].left \subseteq conflicts[duty[t].id]

ConflictsInv == DetectorTypeOK /\ IdInv /\ WinnerInv /\ EntryInv

-----------------------------------------------------------------------------
\* With finitely many pairs the ids are numbers.
LEMMA IdType == ASSUME IsFiniteSet(Pairs) PROVE \A c \in Id : c \in Nat /\ c > 0
BY FS_CardinalityType DEF Id

\* Ending a call or going on with it changes the job of the one thread.
LEMMA DutyEffect ==
    ASSUME DetectorTypeOK, NEW t \in Thread, NEW j, duty' = [duty EXCEPT ![t] = j]
    PROVE  duty'[t] = j /\ \A u \in Thread \ {t} : duty'[u] = duty[u]
BY DEF DetectorTypeOK

\* The jobs keep their types when the one of t does.
LEMMA DutyType ==
    ASSUME DetectorTypeOK, NEW t \in Thread, NEW j \in Duty, duty' = [duty EXCEPT ![t] = j],
           j.pc = "idle" \/ j.id \in Id, j.pc = "take" => j.accepted \in Conflicting
    PROVE  /\ duty' \in [Thread -> Duty]
           /\ \A u \in Thread : duty'[u].pc = "idle" \/ duty'[u].id \in Id
           /\ \A u \in Thread : duty'[u].pc = "take" => duty'[u].accepted \in Conflicting
<1>1. duty' \in [Thread -> Duty]
  BY DEF DetectorTypeOK
<1>2. duty'[t] = j /\ \A u \in Thread \ {t} : duty'[u] = duty[u]
  BY DutyEffect
<1> QED
  BY <1>1, <1>2 DEF DetectorTypeOK

\* The steps of both calls, with what they do to the job of the thread.
LEMMA NoDutyType == NoDuty \in Duty /\ NoDuty.pc = "idle"
BY DEF NoDuty, Duty

\* No action breaks the types.
LEMMA NextDetectorTypeOK == ASSUME IsFiniteSet(Pairs), DetectorTypeOK, [DetectorNext]_detectorVars PROVE DetectorTypeOK'
<1> USE IdType
<1>1. ASSUME NEW t \in Thread, NEW pair \in Pairs, TakeId(t, pair) PROVE DetectorTypeOK'
  <2> DEFINE j == [pc |-> "store", id |-> next_conflict_id, accepted |-> NoConflict, left |-> pair]
  <2>1. j \in Duty /\ j.pc = "store" /\ j.id \in Id
    BY <1>1 DEF TakeId, Duty, Conflicting
  <2>2. duty' = [duty EXCEPT ![t] = j]
    BY <1>1 DEF TakeId, SetDuty
  <2> HIDE DEF j
  <2>3. /\ duty' \in [Thread -> Duty]
        /\ \A u \in Thread : duty'[u].pc = "idle" \/ duty'[u].id \in Id
        /\ \A u \in Thread : duty'[u].pc = "take" => duty'[u].accepted \in Conflicting
    BY <2>1, <2>2, DutyType
  <2> QED
    BY <1>1, <2>3 DEF TakeId, DetectorTypeOK
<1>2. ASSUME NEW t \in Thread, StoreSet(t) PROVE DetectorTypeOK'
  <2> DEFINE j == [pc |-> "point", id |-> duty[t].id, accepted |-> NoConflict, left |-> duty[t].left]
  <2>1. duty[t].id \in Id /\ duty[t].left \subseteq Conflicting /\ j \in Duty /\ j.pc = "point" /\ j.id \in Id
    BY <1>2 DEF StoreSet, DetectorTypeOK, Duty
  <2>2. duty' = [duty EXCEPT ![t] = j]
    BY <1>2 DEF StoreSet, SetDuty
  <2> HIDE DEF j
  <2>3. /\ duty' \in [Thread -> Duty]
        /\ \A u \in Thread : duty'[u].pc = "idle" \/ duty'[u].id \in Id
        /\ \A u \in Thread : duty'[u].pc = "take" => duty'[u].accepted \in Conflicting
    BY <2>1, <2>2, DutyType
  <2> QED
    BY <1>2, <2>1, <2>3 DEF StoreSet, DetectorTypeOK
<1>3. ASSUME NEW t \in Thread, NEW h \in Conflicting, NEW at \in {"point", "forget"}, duty[t].pc = at, NEW v \in Id \cup {NoConflict},
             NEW j, j = NoDuty \/ j = [pc |-> at, id |-> duty[t].id, accepted |-> duty[t].accepted, left |-> duty[t].left \ {h}]
                            \/ j = [pc |-> at, id |-> duty[t].id, accepted |-> NoConflict, left |-> duty[t].left \ {h}],
             duty' = [duty EXCEPT ![t] = j], tx_to_conflict' = [tx_to_conflict EXCEPT ![h] = v],
             UNCHANGED <<next_conflict_id, conflicts, winners>>
      PROVE  DetectorTypeOK'
  <2>1. duty[t] \in Duty /\ duty[t].id \in Id
    BY <1>3 DEF DetectorTypeOK
  <2>2. j \in Duty /\ (j.pc = "idle" \/ j.id \in Id) /\ j.pc # "take"
    BY <1>3, <2>1, NoDutyType DEF Duty
  <2>3. /\ duty' \in [Thread -> Duty]
        /\ \A u \in Thread : duty'[u].pc = "idle" \/ duty'[u].id \in Id
        /\ \A u \in Thread : duty'[u].pc = "take" => duty'[u].accepted \in Conflicting
    BY <1>3, <2>2, DutyType
  <2> QED
    BY <1>3, <2>3 DEF DetectorTypeOK
<1>4. ASSUME NEW t \in Thread, NEW h \in Conflicting, Point(t, h) PROVE DetectorTypeOK'
  <2>1. duty[t].id \in Id
    BY <1>4 DEF Point, DetectorTypeOK
  <2> QED
    BY <1>3, <1>4, <2>1 DEF Point, SetDuty
<1>5. ASSUME NEW t \in Thread, NEW h \in Conflicting, Forget(t, h) PROVE DetectorTypeOK'
  BY <1>3, <1>5 DEF Forget, SetDuty
<1>6. ASSUME NEW t \in Thread, NEW h \in Conflicting, LookUp(t, h) PROVE DetectorTypeOK'
  <2> DEFINE j == [pc |-> "take", id |-> tx_to_conflict[h], accepted |-> h, left |-> {}]
  <2>1. j \in Duty /\ j.id \in Id /\ j.accepted \in Conflicting
    BY <1>6 DEF LookUp, DetectorTypeOK, Duty
  <2>2. duty' = [duty EXCEPT ![t] = j]
    BY <1>6 DEF LookUp, SetDuty
  <2> HIDE DEF j
  <2>3. /\ duty' \in [Thread -> Duty]
        /\ \A u \in Thread : duty'[u].pc = "idle" \/ duty'[u].id \in Id
        /\ \A u \in Thread : duty'[u].pc = "take" => duty'[u].accepted \in Conflicting
    BY <2>1, <2>2, DutyType
  <2> QED
    BY <1>6, <2>3 DEF LookUp, DetectorTypeOK
<1>7. ASSUME NEW t \in Thread, TakeSet(t) PROVE DetectorTypeOK'
  <2> DEFINE c == duty[t].id
             j == [pc |-> "forget", id |-> c, accepted |-> duty[t].accepted, left |-> conflicts[c]]
  <2>1. c \in Id /\ duty[t].accepted \in Conflicting
    BY <1>7 DEF TakeSet, DetectorTypeOK
  <2>2. CASE duty' = [duty EXCEPT ![t] = NoDuty] /\ UNCHANGED <<conflicts, winners>>
    <3>1. /\ duty' \in [Thread -> Duty]
          /\ \A u \in Thread : duty'[u].pc = "idle" \/ duty'[u].id \in Id
          /\ \A u \in Thread : duty'[u].pc = "take" => duty'[u].accepted \in Conflicting
      BY <2>2, NoDutyType, DutyType
    <3> QED
      BY <1>7, <2>2, <3>1 DEF TakeSet, DetectorTypeOK
  <2>3. CASE /\ conflicts' = [conflicts EXCEPT ![c] = {}]
             /\ winners' = [winners EXCEPT ![c] = @ \cup {duty[t].accepted}]
             /\ SetDuty(t, "forget", c, duty[t].accepted, conflicts[c])
    <3>1. j \in Duty /\ j.pc = "forget" /\ j.id \in Id
      BY <2>1 DEF DetectorTypeOK, Duty
    <3>2. duty' = [duty EXCEPT ![t] = j]
      BY <2>3 DEF SetDuty
    <3> HIDE DEF j
    <3>3. /\ duty' \in [Thread -> Duty]
          /\ \A u \in Thread : duty'[u].pc = "idle" \/ duty'[u].id \in Id
          /\ \A u \in Thread : duty'[u].pc = "take" => duty'[u].accepted \in Conflicting
      BY <3>1, <3>2, DutyType
    <3>4. conflicts' \in [Id -> SUBSET Conflicting] /\ winners' \in [Id -> SUBSET Conflicting]
      BY <2>1, <2>3 DEF DetectorTypeOK
    <3> QED
      BY <1>7, <3>3, <3>4 DEF TakeSet, DetectorTypeOK
  <2> QED
    BY <1>7, <2>2, <2>3 DEF TakeSet
<1>8. ASSUME UNCHANGED detectorVars PROVE DetectorTypeOK'
  BY <1>8 DEF detectorVars, DetectorTypeOK
<1> QED
  BY <1>1, <1>2, <1>4, <1>5, <1>6, <1>7, <1>8 DEF DetectorNext

-----------------------------------------------------------------------------
\* Ids are handed out once.
LEMMA NextIdInv == ASSUME IsFiniteSet(Pairs), DetectorTypeOK, IdInv, [DetectorNext]_detectorVars PROVE IdInv'
<1>1. ASSUME UNCHANGED next_conflict_id,
             \A t \in Thread : Registers(t)' => Registers(t) /\ duty'[t].id = duty[t].id
      PROVE  IdInv'
  BY <1>1 DEF IdInv
<1>2. ASSUME NEW t \in Thread, NEW pair \in Pairs, TakeId(t, pair) PROVE IdInv'
  <2>1. /\ duty'[t] = [pc |-> "store", id |-> next_conflict_id, accepted |-> NoConflict, left |-> pair]
        /\ \A u \in Thread \ {t} : duty'[u] = duty[u]
    BY <1>2, DutyEffect DEF TakeId, SetDuty
  <2>2. next_conflict_id \in Nat /\ next_conflict_id' = next_conflict_id + 1
    BY <1>2 DEF TakeId, DetectorTypeOK
  <2>3. \A u \in Thread : Registers(u) => duty[u].id \in Nat /\ duty[u].id < next_conflict_id
    BY IdType DEF IdInv, Registers, DetectorTypeOK
  <2>4. \A u \in Thread \ {t} : Registers(u)' <=> Registers(u)
    BY <2>1 DEF Registers
  <2>5. \A u \in Thread \ {t} : Registers(u)' => duty'[u].id \in Nat /\ duty'[u].id < next_conflict_id
    BY <2>1, <2>3, <2>4
  <2>6. duty'[t].id = next_conflict_id
    BY <2>1
  <2>7. \A u \in Thread : Registers(u)' => duty'[u].id < next_conflict_id'
    BY <2>2, <2>5, <2>6
  <2>8. ASSUME NEW u \in Thread, NEW w \in Thread, Registers(u)', Registers(w)', duty'[u].id = duty'[w].id
        PROVE  u = w
    <3>1. CASE u # t /\ w # t
      BY <2>1, <2>4, <2>8, <3>1 DEF IdInv
    <3>2. CASE u = t \/ w = t
      BY <2>2, <2>5, <2>6, <2>8, <3>2
    <3> QED
      BY <3>1, <3>2
  <2> QED
    BY <2>7, <2>8 DEF IdInv
<1>3. ASSUME NEW t \in Thread, NEW j, duty' = [duty EXCEPT ![t] = j], UNCHANGED next_conflict_id,
             j.pc \in {"store", "point"} => Registers(t) /\ j.id = duty[t].id
      PROVE  IdInv'
  <2>1. duty'[t] = j /\ \A u \in Thread \ {t} : duty'[u] = duty[u]
    BY <1>3, DutyEffect
  <2> QED
    BY <1>1, <1>3, <2>1 DEF Registers
<1>4. ASSUME NEW t \in Thread, StoreSet(t) PROVE IdInv'
  BY <1>3, <1>4 DEF StoreSet, SetDuty, Registers
<1>5. ASSUME NEW t \in Thread, NEW h \in Conflicting, Point(t, h) PROVE IdInv'
  BY <1>3, <1>5, NoDutyType DEF Point, SetDuty, Registers
<1>6. ASSUME NEW t \in Thread, NEW h \in Conflicting, LookUp(t, h) \/ Forget(t, h) PROVE IdInv'
  BY <1>3, <1>6, NoDutyType DEF LookUp, Forget, SetDuty
<1>7. ASSUME NEW t \in Thread, TakeSet(t) PROVE IdInv'
  BY <1>3, <1>7, NoDutyType DEF TakeSet, SetDuty
<1>8. ASSUME UNCHANGED detectorVars PROVE IdInv'
  BY <1>1, <1>8 DEF detectorVars, Registers
<1> QED
  BY <1>2, <1>4, <1>5, <1>6, <1>7, <1>8 DEF DetectorNext

\* The set is removed in the step that reads it, so that it is read for one winner.
LEMMA NextWinnerInv == ASSUME IsFiniteSet(Pairs), DetectorTypeOK, IdInv, WinnerInv, [DetectorNext]_detectorVars PROVE WinnerInv'
<1> USE IdType
<1>1. ASSUME UNCHANGED <<next_conflict_id, conflicts, winners>>,
             \A t \in Thread : duty'[t].pc = "store" => duty'[t] = duty[t]
      PROVE  WinnerInv'
  BY <1>1 DEF WinnerInv
<1>2. ASSUME NEW t \in Thread, NEW j, duty' = [duty EXCEPT ![t] = j], j.pc # "store",
             UNCHANGED <<next_conflict_id, conflicts, winners>>
      PROVE  WinnerInv'
  BY <1>1, <1>2, DutyEffect
<1>3. ASSUME NEW t \in Thread, NEW pair \in Pairs, TakeId(t, pair) PROVE WinnerInv'
  <2>1. /\ duty'[t] = [pc |-> "store", id |-> next_conflict_id, accepted |-> NoConflict, left |-> pair]
        /\ \A u \in Thread \ {t} : duty'[u] = duty[u]
    BY <1>3, DutyEffect DEF TakeId, SetDuty
  <2>2. /\ next_conflict_id \in Nat /\ next_conflict_id \in Id /\ next_conflict_id' = next_conflict_id + 1
        /\ UNCHANGED <<conflicts, winners>>
    BY <1>3 DEF TakeId, DetectorTypeOK
  <2>3. duty'[t].id = next_conflict_id
    BY <2>1
  <2>4. winners[next_conflict_id] = {} /\ conflicts[next_conflict_id] = {}
    BY <2>2 DEF WinnerInv
  <2>5. \A u \in Thread : duty'[u].pc = "store" => winners[duty'[u].id] = {} /\ conflicts[duty'[u].id] = {}
    BY <2>1, <2>3, <2>4 DEF WinnerInv
  <2> QED
    BY <2>2, <2>5 DEF WinnerInv
<1>4. ASSUME NEW t \in Thread, StoreSet(t) PROVE WinnerInv'
  <2> DEFINE c == duty[t].id
  <2>1. c \in Id /\ c < next_conflict_id /\ winners[c] = {}
    BY <1>4 DEF StoreSet, DetectorTypeOK, IdInv, WinnerInv, Registers
  <2>2. duty'[t].pc = "point" /\ \A u \in Thread \ {t} : duty'[u] = duty[u]
    <3>1. /\ duty'[t] = [pc |-> "point", id |-> c, accepted |-> NoConflict, left |-> duty[t].left]
          /\ \A u \in Thread \ {t} : duty'[u] = duty[u]
      BY <1>4, DutyEffect DEF StoreSet, SetDuty
    <3> QED
      BY <3>1
  <2>3. \A d \in Id \ {c} : conflicts'[d] = conflicts[d]
    BY <1>4, <2>1 DEF StoreSet, DetectorTypeOK
  <2>4. \A u \in Thread \ {t} : duty[u].pc = "store" => duty[u].id \in Id /\ duty[u].id # c
    BY <1>4 DEF StoreSet, IdInv, Registers, DetectorTypeOK
  <2>5. UNCHANGED <<next_conflict_id, winners>>
    BY <1>4 DEF StoreSet
  <2> HIDE DEF c
  <2>6. \A d \in Id : d >= next_conflict_id => winners[d] = {} /\ conflicts'[d] = {}
    BY <2>1, <2>3 DEF WinnerInv, DetectorTypeOK
  <2>7. \A u \in Thread : duty'[u].pc = "store" => winners[duty'[u].id] = {} /\ conflicts'[duty'[u].id] = {}
    BY <2>2, <2>3, <2>4 DEF WinnerInv
  <2>8. \A d \in Id : conflicts'[d] # {} => winners[d] = {}
    BY <2>1, <2>3 DEF WinnerInv
  <2> QED
    BY <2>5, <2>6, <2>7, <2>8 DEF WinnerInv
<1>5. ASSUME NEW t \in Thread, NEW h \in Conflicting, Point(t, h) PROVE WinnerInv'
  BY <1>2, <1>5, NoDutyType DEF Point, SetDuty
<1>6. ASSUME NEW t \in Thread, NEW h \in Conflicting, LookUp(t, h) \/ Forget(t, h) PROVE WinnerInv'
  BY <1>2, <1>6, NoDutyType DEF LookUp, Forget, SetDuty
<1>7. ASSUME NEW t \in Thread, TakeSet(t) PROVE WinnerInv'
  <2> DEFINE c == duty[t].id
  <2>1. CASE duty' = [duty EXCEPT ![t] = NoDuty] /\ UNCHANGED <<conflicts, winners>>
    BY <1>2, <1>7, <2>1, NoDutyType DEF TakeSet
  <2>2. CASE /\ conflicts[c] # {}
             /\ conflicts' = [conflicts EXCEPT ![c] = {}]
             /\ winners' = [winners EXCEPT ![c] = @ \cup {duty[t].accepted}]
             /\ SetDuty(t, "forget", c, duty[t].accepted, conflicts[c])
    <3>1. c \in Id /\ winners[c] = {}
      BY <1>7, <2>2 DEF TakeSet, DetectorTypeOK, WinnerInv
    <3>2. duty'[t].pc = "forget" /\ \A u \in Thread \ {t} : duty'[u] = duty[u]
      <4>1. /\ duty'[t] = [pc |-> "forget", id |-> c, accepted |-> duty[t].accepted, left |-> conflicts[c]]
            /\ \A u \in Thread \ {t} : duty'[u] = duty[u]
        BY <2>2, DutyEffect DEF SetDuty
      <4> QED
        BY <4>1
    <3>3. /\ conflicts'[c] = {} /\ winners'[c] = {duty[t].accepted}
          /\ \A d \in Id \ {c} : conflicts'[d] = conflicts[d] /\ winners'[d] = winners[d]
      BY <2>2, <3>1 DEF DetectorTypeOK
    <3>4. UNCHANGED next_conflict_id
      BY <1>7 DEF TakeSet
    <3>5. \A u \in Thread : duty[u].pc = "store" => duty[u].id \in Id \ {c}
      BY <2>2, <3>1 DEF WinnerInv, DetectorTypeOK
    <3>6. ~(c >= next_conflict_id)
      BY <2>2, <3>1 DEF WinnerInv
    <3> HIDE DEF c
    <3>7. \A d \in Id : d >= next_conflict_id => winners'[d] = {} /\ conflicts'[d] = {}
      BY <3>3, <3>6 DEF WinnerInv
    <3>8. \A u \in Thread : duty'[u].pc = "store" => winners'[duty'[u].id] = {} /\ conflicts'[duty'[u].id] = {}
      BY <3>2, <3>3, <3>5 DEF WinnerInv
    <3>9. \A d \in Id : conflicts'[d] # {} => winners'[d] = {}
      BY <3>3 DEF WinnerInv
    <3>10. \A d \in Id : \A h, g \in winners'[d] : h = g
      BY <3>3 DEF WinnerInv
    <3> QED
      BY <3>4, <3>7, <3>8, <3>9, <3>10 DEF WinnerInv
  <2> QED
    BY <1>7, <2>1, <2>2 DEF TakeSet
<1>8. ASSUME UNCHANGED detectorVars PROVE WinnerInv'
  BY <1>1, <1>8 DEF detectorVars
<1> QED
  BY <1>3, <1>4, <1>5, <1>6, <1>7, <1>8 DEF DetectorNext

\* An entry is made while its set is there, and the set is removed together with the
\* promise to remove its entries.
LEMMA NextEntryInv == ASSUME IsFiniteSet(Pairs), DetectorTypeOK, IdInv, WinnerInv, EntryInv, [DetectorNext]_detectorVars PROVE EntryInv'
<1> USE IdType
<1> DEFINE Leads(h) == tx_to_conflict[h] \in Id \ hurried =>
               \/ h \in conflicts[tx_to_conflict[h]]
               \/ \E t \in Thread : duty[t].pc = "forget" /\ duty[t].id = tx_to_conflict[h] /\ h \in duty[t].left
           Pointing(t) == duty[t].pc = "point" =>
               duty[t].id \in hurried \/ duty[t].left \subseteq conflicts[duty[t].id]
<1>1. (\A h \in Conflicting : Leads(h)) /\ (\A t \in Thread : Pointing(t))
  BY DEF EntryInv
<1>2. SUFFICES (\A h \in Conflicting : Leads(h)') /\ (\A t \in Thread : Pointing(t)')
  BY DEF EntryInv
<1>3. ASSUME NEW t \in Thread, NEW j, duty' = [duty EXCEPT ![t] = j],
             duty[t].pc # "forget", j.pc # "point", UNCHANGED <<conflicts, tx_to_conflict, hurried>>
      PROVE  (\A h \in Conflicting : Leads(h)') /\ (\A u \in Thread : Pointing(u)')
  <2>1. duty'[t] = j /\ \A u \in Thread \ {t} : duty'[u] = duty[u]
    BY <1>3, DutyEffect
  <2>2. \A h \in Conflicting : Leads(h)'
    BY <1>1, <1>3, <2>1
  <2>3. \A u \in Thread : Pointing(u)'
    BY <1>1, <1>3, <2>1
  <2> QED
    BY <2>2, <2>3
<1>4. ASSUME NEW t \in Thread, NEW pair \in Pairs, TakeId(t, pair)
      PROVE  (\A h \in Conflicting : Leads(h)') /\ (\A u \in Thread : Pointing(u)')
  <2> DEFINE j == [pc |-> "store", id |-> next_conflict_id, accepted |-> NoConflict, left |-> pair]
  <2>1. duty' = [duty EXCEPT ![t] = j] /\ duty[t].pc # "forget" /\ UNCHANGED <<conflicts, tx_to_conflict, hurried>>
    BY <1>4, NoDutyType DEF TakeId, SetDuty
  <2>2. j.pc # "point"
    OBVIOUS
  <2> HIDE DEF j, Leads, Pointing
  <2> QED
    BY <1>3, <2>1, <2>2
<1>5. ASSUME NEW t \in Thread, NEW h \in Conflicting, LookUp(t, h)
      PROVE  (\A g \in Conflicting : Leads(g)') /\ (\A u \in Thread : Pointing(u)')
  <2> DEFINE j == [pc |-> "take", id |-> tx_to_conflict[h], accepted |-> h, left |-> {}]
  <2>1. duty' = [duty EXCEPT ![t] = j] /\ duty[t].pc # "forget" /\ UNCHANGED <<conflicts, tx_to_conflict, hurried>>
    BY <1>5, NoDutyType DEF LookUp, SetDuty
  <2>2. j.pc # "point"
    OBVIOUS
  <2> HIDE DEF j, Leads, Pointing
  <2> QED
    BY <1>3, <2>1, <2>2
<1>6. ASSUME NEW t \in Thread, StoreSet(t)
      PROVE  (\A h \in Conflicting : Leads(h)') /\ (\A u \in Thread : Pointing(u)')
  <2> DEFINE c == duty[t].id
  <2>1. c \in Id /\ conflicts[c] = {} /\ duty[t].pc = "store"
    BY <1>6 DEF StoreSet, DetectorTypeOK, WinnerInv
  <2>2. /\ duty'[t] = [pc |-> "point", id |-> c, accepted |-> NoConflict, left |-> duty[t].left]
        /\ \A u \in Thread \ {t} : duty'[u] = duty[u]
    BY <1>6, DutyEffect DEF StoreSet, SetDuty
  <2>3. conflicts'[c] = duty[t].left /\ \A d \in Id \ {c} : conflicts'[d] = conflicts[d]
    BY <1>6, <2>1 DEF StoreSet, DetectorTypeOK
  <2>4. UNCHANGED <<tx_to_conflict, hurried>>
    BY <1>6 DEF StoreSet
  <2>5. \A d \in Id : conflicts[d] \subseteq conflicts'[d]
    BY <2>1, <2>3
  <2> HIDE DEF c
  <2>6. ASSUME NEW h \in Conflicting PROVE Leads(h)'
    BY <1>1, <2>1, <2>2, <2>4, <2>5
  <2>7. ASSUME NEW u \in Thread PROVE Pointing(u)'
    <3>1. CASE u = t
      BY <2>2, <2>3, <3>1
    <3>2. CASE u # t
      <4>1. duty[u].pc = "point" => duty[u].id \in Id
        BY DEF DetectorTypeOK
      <4> QED
        BY <1>1, <2>2, <2>4, <2>5, <3>2, <4>1
    <3> QED
      BY <3>1, <3>2
  <2> QED
    BY <2>6, <2>7
<1>7. ASSUME NEW t \in Thread, NEW h \in Conflicting, Point(t, h)
      PROVE  (\A g \in Conflicting : Leads(g)') /\ (\A u \in Thread : Pointing(u)')
  <2> DEFINE c == duty[t].id
  <2>1. /\ c \in Id /\ duty[t].pc = "point" /\ h \in duty[t].left
        /\ c \in hurried \/ duty[t].left \subseteq conflicts[c]
    BY <1>1, <1>7 DEF Point, DetectorTypeOK
  <2>2. /\ tx_to_conflict'[h] = c /\ \A g \in Conflicting \ {h} : tx_to_conflict'[g] = tx_to_conflict[g]
        /\ UNCHANGED <<conflicts, hurried>>
    BY <1>7, <2>1 DEF Point, DetectorTypeOK
  <2>3. PICK j : /\ duty' = [duty EXCEPT ![t] = j]
                 /\ j.pc = "point" => j.id = c /\ j.left \subseteq duty[t].left
    BY <1>7, NoDutyType DEF Point, SetDuty
  <2>4. duty'[t] = j /\ \A u \in Thread \ {t} : duty'[u] = duty[u]
    BY <2>3, DutyEffect
  <2> HIDE DEF c
  <2>5. ASSUME NEW g \in Conflicting PROVE Leads(g)'
    BY <1>1, <2>1, <2>2, <2>4
  <2>6. ASSUME NEW u \in Thread PROVE Pointing(u)'
    BY <1>1, <2>1, <2>2, <2>3, <2>4 DEF c
  <2> QED
    BY <2>5, <2>6
<1>8. ASSUME NEW t \in Thread, TakeSet(t)
      PROVE  (\A h \in Conflicting : Leads(h)') /\ (\A u \in Thread : Pointing(u)')
  <2> DEFINE c == duty[t].id
  <2>1. duty[t].pc = "take" /\ UNCHANGED tx_to_conflict
    BY <1>8 DEF TakeSet
  <2>2. CASE duty' = [duty EXCEPT ![t] = NoDuty] /\ UNCHANGED <<conflicts, hurried>>
    BY <1>3, <2>1, <2>2, NoDutyType
  <2>3. CASE /\ conflicts' = [conflicts EXCEPT ![c] = {}]
             /\ hurried' = hurried \cup
                   {duty[u].id : u \in {u \in Thread : duty[u].pc = "point" /\ duty[u].id = duty[t].id}}
             /\ SetDuty(t, "forget", c, duty[t].accepted, conflicts[c])
    <3>1. c \in Id
      BY <2>1 DEF DetectorTypeOK
    <3>2. /\ duty'[t] = [pc |-> "forget", id |-> c, accepted |-> duty[t].accepted, left |-> conflicts[c]]
          /\ \A u \in Thread \ {t} : duty'[u] = duty[u]
      BY <2>3, DutyEffect DEF SetDuty
    <3>3. \A d \in Id \ {c} : conflicts'[d] = conflicts[d]
      BY <2>3, <3>1 DEF DetectorTypeOK
    <3>4. hurried \subseteq hurried' /\ \A u \in Thread : duty[u].pc = "point" /\ duty[u].id = c => c \in hurried'
      BY <2>3
    <3> HIDE DEF c
    <3>5. ASSUME NEW h \in Conflicting PROVE Leads(h)'
      BY <1>1, <2>1, <3>1, <3>2, <3>3, <3>4
    <3>6. ASSUME NEW u \in Thread PROVE Pointing(u)'
      <4>1. duty[u].pc = "point" => duty[u].id \in Id
        BY DEF DetectorTypeOK
      <4> QED
        BY <1>1, <3>2, <3>3, <3>4, <4>1
    <3> QED
      BY <3>5, <3>6
  <2> QED
    BY <1>8, <2>2, <2>3 DEF TakeSet
<1>9. ASSUME NEW t \in Thread, NEW h \in Conflicting, Forget(t, h)
      PROVE  (\A g \in Conflicting : Leads(g)') /\ (\A u \in Thread : Pointing(u)')
  <2>1. /\ tx_to_conflict'[h] = NoConflict /\ \A g \in Conflicting \ {h} : tx_to_conflict'[g] = tx_to_conflict[g]
        /\ UNCHANGED <<conflicts, hurried>> /\ duty[t].pc = "forget"
    BY <1>9 DEF Forget, DetectorTypeOK
  <2>2. NoConflict \notin Id
    BY DEF NoConflict
  <2>3. PICK j : /\ duty' = [duty EXCEPT ![t] = j]
                 /\ j.pc # "point"
                 /\ \A g \in duty[t].left \ {h} : j.pc = "forget" /\ j.id = duty[t].id /\ g \in j.left
    BY <1>9, NoDutyType DEF Forget, SetDuty
  <2>4. duty'[t] = j /\ \A u \in Thread \ {t} : duty'[u] = duty[u]
    BY <2>3, DutyEffect
  <2>5. ASSUME NEW g \in Conflicting PROVE Leads(g)'
    <3>1. CASE g = h
      BY <2>1, <2>2, <3>1
    <3>2. CASE g # h
      <4>1. ASSUME NEW u \in Thread, duty[u].pc = "forget", duty[u].id = tx_to_conflict[g], g \in duty[u].left
            PROVE  duty'[u].pc = "forget" /\ duty'[u].id = tx_to_conflict[g] /\ g \in duty'[u].left
        BY <2>3, <2>4, <3>2, <4>1
      <4> QED
        BY <1>1, <2>1, <3>2, <4>1
    <3> QED
      BY <3>1, <3>2
  <2>6. ASSUME NEW u \in Thread PROVE Pointing(u)'
    BY <1>1, <2>1, <2>3, <2>4
  <2> QED
    BY <2>5, <2>6
<1>10. ASSUME UNCHANGED detectorVars PROVE (\A h \in Conflicting : Leads(h)') /\ (\A u \in Thread : Pointing(u)')
  BY <1>1, <1>10 DEF detectorVars
<1> QED
  BY <1>4, <1>5, <1>6, <1>7, <1>8, <1>9, <1>10 DEF DetectorNext

-----------------------------------------------------------------------------
\* All is empty at the start.
LEMMA InitConflictsInv == ASSUME IsFiniteSet(Pairs), DetectorInit PROVE ConflictsInv
<1> USE IdType
<1>1. \A t \in Thread : duty[t] = NoDuty
  BY DEF DetectorInit
<1>2. DetectorTypeOK
  BY <1>1, NoDutyType DEF DetectorInit, DetectorTypeOK
<1>3. IdInv /\ WinnerInv /\ EntryInv
  BY <1>1, NoDutyType DEF DetectorInit, IdInv, WinnerInv, EntryInv, Registers, NoConflict
<1> QED
  BY <1>2, <1>3 DEF ConflictsInv

(***************************************************************************)
(* Of any number of threads that resolve one conflict, one gets the set;   *)
(* and once all calls have returned, an entry of tx_to_conflict leads to a *)
(* set with the transaction, unless its conflict was resolved while it was *)
(* being registered (conflict.rs:90-133).                                  *)
(***************************************************************************)
THEOREM ConflictsSettled == IsFiniteSet(Pairs) => (DetectorSpec => []ConflictsAreSettled)
<1> SUFFICES ASSUME IsFiniteSet(Pairs) PROVE DetectorSpec => []ConflictsAreSettled
  OBVIOUS
<1>1. DetectorInit => ConflictsInv
  BY InitConflictsInv
<1>2. ConflictsInv /\ [DetectorNext]_detectorVars => ConflictsInv'
  BY NextDetectorTypeOK, NextIdInv, NextWinnerInv, NextEntryInv DEF ConflictsInv
<1>3. ConflictsInv => ConflictsAreSettled
  <2> SUFFICES ASSUME ConflictsInv PROVE ConflictsAreSettled
    OBVIOUS
  <2>1. ASSUME NEW c \in Id PROVE Cardinality(winners[c]) <= 1
    <3>1. CASE winners[c] = {}
      BY <3>1, FS_EmptySet
    <3>2. ASSUME NEW h \in winners[c] PROVE winners[c] = {h}
      BY DEF ConflictsInv, WinnerInv
    <3>3. CASE winners[c] # {}
      <4>1. PICK h : winners[c] = {h}
        BY <3>2, <3>3
      <4>2. Cardinality({h}) = 1
        BY FS_Singleton
      <4> QED
        BY <4>1, <4>2
    <3> QED
      BY <3>1, <3>3
  <2>2. EntriesLeadToSets
    BY NoDutyType DEF ConflictsInv, EntryInv, EntriesLeadToSets
  <2> QED
    BY <2>1, <2>2 DEF ConflictsAreSettled, OneWinner
<1> QED
  BY <1>1, <1>2, <1>3, PTL DEF DetectorSpec

-----------------------------------------------------------------------------
(***************************************************************************)
(* The tip selector, for any number of hashes.                             *)
(***************************************************************************)
\* Where a thread can be, and what it can hold there.
Adding(t) == job[t].pc \in {"weight", "age"}
Removing(t) == job[t].pc \in {"unweigh", "unage"}
Pruning(t) == job[t].pc \in {"lock", "prune"}

Place == {"idle", "weight", "age", "unweigh", "unage", "lock", "prune", "two", "weighted", "again", "chosen"}

Job ==
    [pc : Place, hash : SUBSET Hash, weight : Nat, list : Seq(Hash), read : Seq(Nat), chosen : Seq(Hash)]

SelectorTypeOK ==
    /\ tips \in SUBSET Hash /\ IsFiniteSet(tips)
    /\ weights \in [Hash -> Nat \cup {NoWeight}]
    /\ added_at \in [Hash -> {"fresh", "old", "none"}]
    /\ added \in [Hash -> {"no", "begun", "yes"}]
    /\ job \in [Thread -> Job]

(***************************************************************************)
(* A thread that adds a hash is the only one that works on it, and the     *)
(* entries appear in the order of the code.                                *)
(***************************************************************************)
AddingInv ==
    \A t \in Thread : Adding(t) =>
        \A h \in job[t].hash :
            /\ job[t].hash = {h}
            /\ added[h] = "begun" /\ h \in tips
            /\ weights[h] = NoWeight <=> job[t].pc = "weight"
            /\ \A u \in Thread : Adding(u) /\ h \in job[u].hash => u = t

\* What is being removed has left the tips for good; what is being pruned has no age.
LeavingInv ==
    \A t \in Thread : \A h \in job[t].hash :
        /\ Removing(t) => added[h] = "yes" /\ h \notin tips
        /\ job[t].pc = "unage" => weights[h] = NoWeight
        /\ Pruning(t) => added[h] = "yes" /\ added_at[h] = "none"

\* A hash whose addition has not begun has no entry, and one under way has no age.
FreshInv ==
    \A h \in Hash :
        /\ added[h] = "no" => h \notin tips /\ weights[h] = NoWeight
        /\ added[h] # "yes" => added_at[h] = "none"
        /\ added[h] = "begun" => \E t \in Thread : Adding(t) /\ h \in job[t].hash

\* The entries of an added hash agree, but for what a thread is about to remove or to prune.
AgreeInv ==
    \A h \in Hash : added[h] = "yes" =>
        /\ h \in tips => weights[h] # NoWeight
        /\ weights[h] # NoWeight => h \in tips \/ \E t \in Thread : job[t].pc = "unweigh" /\ h \in job[t].hash
        /\ h \in tips => added_at[h] # "none" \/ \E t \in Thread : Pruning(t) /\ h \in job[t].hash
        /\ added_at[h] # "none" => h \in tips \/ \E t \in Thread : Removing(t) /\ h \in job[t].hash

\* A selection works on two or more tips, all different, and keeps two different ones of them.
Different(list) == Len(list) >= 2 /\ \A i, j \in 1 .. Len(list) : i # j => list[i] # list[j]

Selection(r) ==
    /\ r.pc \in {"two", "weighted", "chosen"} => Different(r.list)
    /\ r.pc = "chosen" => /\ r.chosen[1] # r.chosen[2]
                          /\ {r.chosen[1], r.chosen[2]} \subseteq ToSet(r.list)

SelectInv == \A t \in Thread : Selection(job[t])

TipsInv == SelectorTypeOK /\ AddingInv /\ LeavingInv /\ FreshInv /\ AgreeInv /\ SelectInv

\* Selecting two tips reads the maps and changes nothing but the thread's own locals.
Selecting == {"idle", "again", "two", "weighted", "chosen"}

SelectStep(t) ==
    /\ UNCHANGED <<tips, weights, added_at, added>>
    /\ job[t].pc \in Selecting
    /\ \E r \in Job : r.pc \in Selecting /\ Selection(r) /\ job' = [job EXCEPT ![t] = r]

-----------------------------------------------------------------------------
\* A job that is idle has its type.
LEMMA NoJobType == NoJob \in Job /\ NoJob.pc = "idle"
  BY DEF NoJob, Job, Place

\* A list of the tips in any order has them all, once each.
LEMMA ListOfTips ==
    ASSUME SelectorTypeOK, Cardinality(tips) >= 2, NEW list \in SetToSeqs(tips)
    PROVE  list \in Seq(Hash) /\ Different(list)
  <1>1. Cardinality(tips) \in Nat
    BY FS_CardinalityType DEF SelectorTypeOK
  <1> DEFINE n == Cardinality(tips)
  <1>2. list \in [1 .. n -> tips] /\ \A i, j \in 1 .. n : i # j => list[i] # list[j]
    BY DEF SetToSeqs
  <1> HIDE DEF n
  <1>3. n \in Nat /\ n >= 2 /\ tips \subseteq Hash
    BY <1>1 DEF n, SelectorTypeOK
  <1>4. list \in Seq(Hash) /\ Len(list) = n
    BY <1>2, <1>3
  <1> QED
    BY <1>2, <1>3, <1>4 DEF Different

\* pick without an exclusion returns a tip of the list.
LEMMA PickAny ==
    ASSUME NEW list \in Seq(Hash), NEW read, DOMAIN read = DOMAIN list, NEW h \in pick(list, read, {})
    PROVE  \E k \in DOMAIN list : h = list[k]
  <1>1. Drawn(read) \subseteq DOMAIN list
    BY DEF Drawn
  <1>2. {k \in DOMAIN list : list[k] \notin {}} = DOMAIN list
    OBVIOUS
  <1>3. h \in {list[k] : k \in Drawn(read)}
    BY <1>1, <1>2 DEF pick
  <1>4. QED
    BY <1>1, <1>3

\* pick with an exclusion returns another tip of the list: there is one to fall back on.
LEMMA PickOther ==
    ASSUME NEW list \in Seq(Hash), Different(list), NEW read, NEW h \in Hash,
           NEW i \in pick(list, read, {h})
    PROVE  i # h /\ \E k \in DOMAIN list : i = list[k]
  <1> DEFINE others == {k \in DOMAIN list : list[k] \notin {h}}
             first == IF others = {} THEN {1} ELSE {k \in others : \A j \in others : k <= j}
  <1>1. others # {}
    BY DEF Different
  <1>2. i \in {list[k] : k \in (Drawn(read) \cap others) \cup (IF Drawn(read) \subseteq others THEN {} ELSE first)}
    BY DEF pick
  <1>3. first \subseteq others
    BY <1>1
  <1> HIDE DEF first
  <1>4. PICK k \in others : i = list[k]
    BY <1>2, <1>3
  <1> QED
    BY <1>4

\* Every step of a selection is one.
LEMMA Selects ==
    ASSUME SelectorTypeOK, SelectInv, NEW t \in Thread,
           \/ ReadTips(t, "two") \/ ReadTips(t, "weighted") \/ ReadWeight(t)
           \/ ChooseTwo(t) \/ ChooseWeighted(t) \/ Weightless(t) \/ Selected(t)
    PROVE  SelectStep(t)
  <1> DEFINE r0 == job[t]
  <1>0. r0 \in Job /\ Selection(r0) /\ NoJob \in Job
    BY NoJobType DEF SelectorTypeOK, SelectInv
  <1>1. ASSUME NEW how \in {"two", "weighted"}, ReadTips(t, how) PROVE SelectStep(t)
    <2> DEFINE Read(list) == job' = [job EXCEPT ![t] = [NoJob EXCEPT !.pc = how, !.list = list]]
    <2>1. CASE Cardinality(tips) >= 2 /\ \E list \in SetToSeqs(tips) : Read(list)
      <3>1. PICK list \in SetToSeqs(tips) : Read(list)
        BY <2>1
      <3>2. list \in Seq(Hash) /\ Different(list)
        BY <2>1, ListOfTips
      <3> DEFINE r == [NoJob EXCEPT !.pc = how, !.list = list]
      <3>3. r \in Job /\ r.pc = how /\ r.list = list
        BY <1>0, <3>2 DEF Job, Place
      <3>4. r.pc \in Selecting /\ Selection(r)
        BY <3>2, <3>3 DEF Selection, Selecting
      <3> QED
        BY <1>1, <3>1, <3>3, <3>4 DEF SelectStep, ReadTips, Selecting
    <2>2. CASE job' = [job EXCEPT ![t] = NoJob]
      BY <1>0, <1>1, <2>2 DEF SelectStep, ReadTips, Selecting, Selection, NoJob
    <2> QED
      BY <1>1, <2>1, <2>2 DEF ReadTips, EndJob
  <1>2. CASE ReadWeight(t)
    <2>1. PICK v \in Nat : job' = [job EXCEPT ![t].read = Append(@, v)]
      <3> DEFINE i == Len(job[t].read) + 1
                 v == IF weights[job[t].list[i]] = NoWeight THEN 1 ELSE weights[job[t].list[i]]
      <3>1. job[t].list[i] \in Hash
        BY <1>0, <1>2 DEF ReadWeight, Job
      <3>2. v \in Nat
        BY <3>1 DEF SelectorTypeOK
      <3> QED
        BY <1>2, <3>2 DEF ReadWeight
    <2> DEFINE r == [r0 EXCEPT !.read = Append(@, v)]
    <2>2. r \in Job /\ r.pc = "weighted" /\ r.list = r0.list
      <3>1. r0.read \in Seq(Nat) /\ r0.pc = "weighted"
        BY <1>0, <1>2 DEF Job, ReadWeight
      <3>2. Append(r0.read, v) \in Seq(Nat)
        BY <3>1
      <3>3. r \in Job
        BY <1>0, <3>2 DEF Job, Place
      <3> QED
        BY <1>0, <3>1, <3>3 DEF Job
    <2>3. job' = [job EXCEPT ![t] = r]
      BY <2>1 DEF SelectorTypeOK, Job
    <2>4. Selection(r) /\ r.pc \in Selecting
      BY <1>0, <1>2, <2>2 DEF Selection, Selecting, ReadWeight
    <2> QED
      BY <1>2, <2>2, <2>3, <2>4 DEF SelectStep, ReadWeight, Selecting
  <1>3. ASSUME NEW h \in ToSet(r0.list), NEW i \in ToSet(r0.list), h # i, Chosen(t, h, i),
               r0.pc \in {"two", "weighted"}
        PROVE  SelectStep(t)
    <2> DEFINE r == [r0 EXCEPT !.pc = "chosen", !.chosen = <<h, i>>]
    <2>0. h \in Hash /\ i \in Hash
      BY <1>0 DEF Job, ToSet
    <2>1. r \in Job /\ r.pc = "chosen" /\ r.list = r0.list /\ r.chosen = <<h, i>>
      <3>1. <<h, i>> \in Seq(Hash)
        BY <2>0
      <3>2. r \in Job
        BY <1>0, <3>1 DEF Job, Place
      <3> QED
        BY <1>0, <3>2 DEF Job
    <2>2. Selection(r) /\ r.pc \in Selecting
      BY <1>0, <1>3, <2>1 DEF Selection, Selecting
    <2>3. job' = [job EXCEPT ![t] = r]
      BY <1>3 DEF Chosen, SelectorTypeOK, Job
    <2> QED
      BY <1>3, <2>1, <2>2, <2>3 DEF SelectStep, Selecting, Chosen
  <1>4. CASE ChooseTwo(t)
    <2>1. PICK i, j \in DOMAIN r0.list : i # j /\ Chosen(t, r0.list[i], r0.list[j])
      BY <1>4 DEF ChooseTwo
    <2>2. Different(r0.list) /\ r0.list \in Seq(Hash)
      BY <1>0, <1>4 DEF Selection, ChooseTwo, Job
    <2>3. r0.list[i] # r0.list[j]
      BY <2>1, <2>2 DEF Different
    <2> QED
      BY <1>3, <1>4, <2>1, <2>3 DEF ChooseTwo, ToSet
  <1>5. CASE ChooseWeighted(t)
    <2>1. PICK h \in pick(r0.list, r0.read, {}) : \E i \in pick(r0.list, r0.read, {h}) : Chosen(t, h, i)
      BY <1>5 DEF ChooseWeighted
    <2>2. PICK i \in pick(r0.list, r0.read, {h}) : Chosen(t, h, i)
      BY <2>1
    <2>3. Different(r0.list) /\ r0.list \in Seq(Hash)
      BY <1>0, <1>5 DEF Selection, ChooseWeighted, Job
    <2>4. h \in ToSet(r0.list) /\ h \in Hash
      <3>1. DOMAIN r0.read = DOMAIN r0.list
        BY <1>0, <1>5 DEF ChooseWeighted, Job
      <3> QED
        BY <2>1, <2>3, <3>1, PickAny DEF ToSet
    <2>5. i # h /\ i \in ToSet(r0.list)
      BY <2>3, <2>4, PickOther DEF ToSet
    <2> QED
      BY <1>3, <1>5, <2>2, <2>4, <2>5 DEF ChooseWeighted
  <1>6. CASE Weightless(t)
    <2> DEFINE r == [NoJob EXCEPT !.pc = "again"]
    <2>1. r \in Job /\ r.pc = "again"
      BY <1>0 DEF Job, Place
    <2> QED
      BY <1>6, <2>1 DEF SelectStep, Weightless, Selecting, Selection
  <1>7. CASE Selected(t)
    BY <1>0, <1>7 DEF SelectStep, Selected, Selecting, Selection, EndJob, NoJob
  <1> QED
    BY <1>1, <1>2, <1>4, <1>5, <1>6, <1>7

\* Every step keeps TypeOK.
LEMMA StepSelectorTypeOK ==
    ASSUME Weights \subseteq Nat, TipsInv, [SelectorNext]_selectorVars
    PROVE  SelectorTypeOK'
  <1> USE DEF GoOn, EndJob
  <1>0. /\ SelectorTypeOK
        /\ \A t \in Thread : job[t] \in Job
        /\ \A t \in Thread : job[t].hash \in SUBSET Hash /\ job[t].weight \in Nat
    BY DEF TipsInv, SelectorTypeOK, Job
  <1>1. ASSUME NEW t \in Thread, NEW r \in Job, job' = [job EXCEPT ![t] = r]
        PROVE  job' \in [Thread -> Job]
    BY <1>0, <1>1 DEF SelectorTypeOK
  <1>2. ASSUME NEW t \in Thread, NEW p \in Place, job' = [job EXCEPT ![t].pc = p]
        PROVE  job' \in [Thread -> Job]
    <2>1. job' = [job EXCEPT ![t] = [job[t] EXCEPT !.pc = p]]
      BY <1>0, <1>2 DEF SelectorTypeOK
    <2> QED
      BY <1>0, <1>1, <2>1 DEF Job
  <1>3. ASSUME NEW h \in Hash, Grow(h) PROVE SelectorTypeOK'
    BY <1>0, <1>3 DEF SelectorTypeOK, Grow
  <1>4. ASSUME NEW t \in Thread, NEW h \in Hash, NEW w \in Weights \cup {1}, AddTip(t, h, w) PROVE SelectorTypeOK'
    <2>1. IsFiniteSet(tips')
      BY <1>0, <1>4, FS_AddElement DEF SelectorTypeOK, AddTip
    <2>0. w \in Nat
      OBVIOUS
    <2>2. [NoJob EXCEPT !.pc = "weight", !.hash = {h}, !.weight = w] \in Job
      BY <2>0, NoJobType DEF Job, Place
    <2>3. job' \in [Thread -> Job]
      BY <1>1, <1>4, <2>2 DEF AddTip
    <2> QED
      BY <1>0, <1>4, <2>1, <2>3 DEF SelectorTypeOK, AddTip
  <1>5. ASSUME NEW t \in Thread, NEW h \in Hash, NEW w \in Weights \cup {1}, update_weight(t, h, w) PROVE SelectorTypeOK'
    BY <1>0, <1>5 DEF SelectorTypeOK, update_weight
  <1>6. ASSUME NEW t \in Thread, NEW h \in Hash, RemoveTip(t, h) PROVE SelectorTypeOK'
    <2>1. IsFiniteSet(tips')
      BY <1>0, <1>6, FS_RemoveElement DEF SelectorTypeOK, RemoveTip
    <2>2. [NoJob EXCEPT !.pc = "unweigh", !.hash = {h}] \in Job
      BY NoJobType DEF Job, Place
    <2>3. job' \in [Thread -> Job]
      BY <1>1, <1>6, <2>2 DEF RemoveTip
    <2> QED
      BY <1>0, <1>6, <2>1, <2>3 DEF SelectorTypeOK, RemoveTip
  <1>7. ASSUME NEW t \in Thread, NEW h \in Hash, PruneTip(t, h) PROVE SelectorTypeOK'
    <2>1. IsFiniteSet(tips')
      BY <1>0, <1>7, FS_RemoveElement DEF SelectorTypeOK, PruneTip
    <2>2. [job[t] EXCEPT !.hash = job[t].hash \ {h}] \in Job
      BY <1>0 DEF Job
    <2>3. job' = [job EXCEPT ![t] = [job[t] EXCEPT !.hash = job[t].hash \ {h}]]
      BY <1>0, <1>7 DEF SelectorTypeOK, PruneTip
    <2>4. job' \in [Thread -> Job]
      BY <1>1, <2>2, <2>3
    <2> QED
      BY <1>0, <1>7, <2>1, <2>4 DEF SelectorTypeOK, PruneTip
  <1>8. ASSUME NEW t \in Thread, AddWeight(t) PROVE SelectorTypeOK'
    <2>1. job' \in [Thread -> Job]
      BY <1>2, <1>8 DEF AddWeight, Place
    <2>2. weights' \in [Hash -> Nat \cup {NoWeight}]
      BY <1>0, <1>8 DEF SelectorTypeOK, AddWeight
    <2> QED
      BY <1>0, <1>8, <2>1, <2>2 DEF SelectorTypeOK, AddWeight
  <1>9. ASSUME NEW t \in Thread, AddAge(t) \/ RemoveAge(t) \/ Unlock(t) PROVE SelectorTypeOK'
    <2>1. job' \in [Thread -> Job]
      BY <1>1, <1>9, NoJobType DEF AddAge, RemoveAge, Unlock
    <2> QED
      BY <1>0, <1>9, <2>1 DEF SelectorTypeOK, AddAge, RemoveAge, Unlock
  <1>10. ASSUME NEW t \in Thread, RemoveWeight(t) \/ LockTips(t) PROVE SelectorTypeOK'
    <2>1. job' \in [Thread -> Job]
      BY <1>2, <1>10 DEF RemoveWeight, LockTips, Place
    <2> QED
      BY <1>0, <1>10, <2>1 DEF SelectorTypeOK, RemoveWeight, LockTips
  <1>11. ASSUME NEW t \in Thread, CollectStale(t) PROVE SelectorTypeOK'
    <2> DEFINE stale == {h \in Hash : added_at[h] = "old"}
    <2>1. [NoJob EXCEPT !.pc = "lock", !.hash = stale] \in Job
      BY NoJobType DEF Job, Place
    <2>2. job' \in [Thread -> Job]
      BY <1>1, <1>11, <2>1 DEF CollectStale
    <2> QED
      BY <1>0, <1>11, <2>2 DEF SelectorTypeOK, CollectStale
  <1>12. ASSUME NEW t \in Thread, SelectStep(t) PROVE SelectorTypeOK'
    <2>1. job' \in [Thread -> Job]
      BY <1>1, <1>12 DEF SelectStep
    <2> QED
      BY <1>0, <1>12, <2>1 DEF SelectorTypeOK, SelectStep
  <1>13. ASSUME UNCHANGED selectorVars PROVE SelectorTypeOK'
    BY <1>0, <1>13 DEF SelectorTypeOK, selectorVars
  <1> QED
    BY <1>3, <1>4, <1>5, <1>6, <1>7, <1>8, <1>9, <1>10, <1>11, <1>12, <1>13, Selects DEF SelectorNext, TipsInv

\* Every step keeps AddingInv.
LEMMA StepAddingInv ==
    ASSUME Weights \subseteq Nat, TipsInv, [SelectorNext]_selectorVars
    PROVE  AddingInv'
  <1> USE DEF SelectorTypeOK, Job, Place, NoJob, NoWeight, GoOn, EndJob
  <1>1. ASSUME NEW h \in Hash, Grow(h) PROVE AddingInv'
    BY <1>1 DEF TipsInv, AddingInv, Adding, FreshInv, AgreeInv, LeavingInv, Removing, Pruning, Grow
  <1>2. ASSUME NEW t \in Thread, NEW h \in Hash, NEW w \in Weights \cup {1}, AddTip(t, h, w) PROVE AddingInv'
    BY <1>2 DEF TipsInv, AddingInv, Adding, FreshInv, AgreeInv, LeavingInv, Removing, Pruning, AddTip
  <1>3. ASSUME NEW t \in Thread, NEW h \in Hash, NEW w \in Weights \cup {1}, update_weight(t, h, w) PROVE AddingInv'
    BY <1>3 DEF TipsInv, AddingInv, Adding, FreshInv, AgreeInv, LeavingInv, Removing, Pruning, update_weight
  <1>4. ASSUME NEW t \in Thread, NEW h \in Hash, RemoveTip(t, h) PROVE AddingInv'
    BY <1>4 DEF TipsInv, AddingInv, Adding, FreshInv, AgreeInv, LeavingInv, Removing, Pruning, RemoveTip
  <1>5. ASSUME NEW t \in Thread, NEW h \in Hash, PruneTip(t, h) PROVE AddingInv'
    BY <1>5 DEF TipsInv, AddingInv, Adding, FreshInv, AgreeInv, LeavingInv, Removing, Pruning, PruneTip
  <1>6. ASSUME NEW t \in Thread, AddWeight(t) PROVE AddingInv'
    BY <1>6 DEF TipsInv, AddingInv, Adding, FreshInv, AgreeInv, LeavingInv, Removing, Pruning, AddWeight
  <1>7. ASSUME NEW t \in Thread, AddAge(t) PROVE AddingInv'
    BY <1>7 DEF TipsInv, AddingInv, Adding, FreshInv, AgreeInv, LeavingInv, Removing, Pruning, AddAge
  <1>8. ASSUME NEW t \in Thread, RemoveWeight(t) PROVE AddingInv'
    BY <1>8 DEF TipsInv, AddingInv, Adding, FreshInv, AgreeInv, LeavingInv, Removing, Pruning, RemoveWeight
  <1>9. ASSUME NEW t \in Thread, RemoveAge(t) PROVE AddingInv'
    BY <1>9 DEF TipsInv, AddingInv, Adding, FreshInv, AgreeInv, LeavingInv, Removing, Pruning, RemoveAge
  <1>10. ASSUME NEW t \in Thread, CollectStale(t) PROVE AddingInv'
    BY <1>10 DEF TipsInv, AddingInv, Adding, FreshInv, AgreeInv, LeavingInv, Removing, Pruning, CollectStale
  <1>11. ASSUME NEW t \in Thread, LockTips(t) PROVE AddingInv'
    BY <1>11 DEF TipsInv, AddingInv, Adding, FreshInv, AgreeInv, LeavingInv, Removing, Pruning, LockTips
  <1>12. ASSUME NEW t \in Thread, Unlock(t) PROVE AddingInv'
    BY <1>12 DEF TipsInv, AddingInv, Adding, FreshInv, AgreeInv, LeavingInv, Removing, Pruning, Unlock
  <1>13. ASSUME NEW t \in Thread, SelectStep(t) PROVE AddingInv'
    <2>1. PICK r \in Job : r.pc \in Selecting /\ job' = [job EXCEPT ![t] = r]
      BY <1>13 DEF SelectStep
    <2>2. \A u \in Thread : Adding(u)' => u # t /\ job'[u] = job[u] /\ Adding(u)
      BY <2>1 DEF TipsInv, Adding, Selecting
    <2> QED
      BY <1>13, <2>2 DEF TipsInv, AddingInv, SelectStep
  <1>14. ASSUME UNCHANGED selectorVars PROVE AddingInv'
    BY <1>14 DEF TipsInv, AddingInv, Adding, FreshInv, AgreeInv, LeavingInv, Removing, Pruning, selectorVars
  <1> HIDE DEF SelectorTypeOK, Job, Place, NoJob, NoWeight, GoOn, EndJob
  <1> QED
    BY <1>1, <1>2, <1>3, <1>4, <1>5, <1>6, <1>7, <1>8, <1>9, <1>10, <1>11, <1>12, <1>13, <1>14, Selects DEF SelectorNext, TipsInv

\* Every step keeps LeavingInv.
LEMMA StepLeavingInv ==
    ASSUME Weights \subseteq Nat, TipsInv, [SelectorNext]_selectorVars
    PROVE  LeavingInv'
  <1> USE DEF SelectorTypeOK, Job, Place, NoJob, NoWeight, GoOn, EndJob
  <1>1. ASSUME NEW h \in Hash, Grow(h) PROVE LeavingInv'
    BY <1>1 DEF TipsInv, LeavingInv, Removing, Pruning, AddingInv, Adding, FreshInv, Grow
  <1>2. ASSUME NEW t \in Thread, NEW h \in Hash, NEW w \in Weights \cup {1}, AddTip(t, h, w) PROVE LeavingInv'
    BY <1>2 DEF TipsInv, LeavingInv, Removing, Pruning, AddingInv, Adding, FreshInv, AddTip
  <1>3. ASSUME NEW t \in Thread, NEW h \in Hash, NEW w \in Weights \cup {1}, update_weight(t, h, w) PROVE LeavingInv'
    BY <1>3 DEF TipsInv, LeavingInv, Removing, Pruning, AddingInv, Adding, FreshInv, update_weight
  <1>4. ASSUME NEW t \in Thread, NEW h \in Hash, RemoveTip(t, h) PROVE LeavingInv'
    BY <1>4 DEF TipsInv, LeavingInv, Removing, Pruning, AddingInv, Adding, FreshInv, RemoveTip
  <1>5. ASSUME NEW t \in Thread, NEW h \in Hash, PruneTip(t, h) PROVE LeavingInv'
    BY <1>5 DEF TipsInv, LeavingInv, Removing, Pruning, AddingInv, Adding, FreshInv, PruneTip
  <1>6. ASSUME NEW t \in Thread, AddWeight(t) PROVE LeavingInv'
    BY <1>6 DEF TipsInv, LeavingInv, Removing, Pruning, AddingInv, Adding, FreshInv, AddWeight
  <1>7. ASSUME NEW t \in Thread, AddAge(t) PROVE LeavingInv'
    BY <1>7 DEF TipsInv, LeavingInv, Removing, Pruning, AddingInv, Adding, FreshInv, AddAge
  <1>8. ASSUME NEW t \in Thread, RemoveWeight(t) PROVE LeavingInv'
    BY <1>8 DEF TipsInv, LeavingInv, Removing, Pruning, AddingInv, Adding, FreshInv, RemoveWeight
  <1>9. ASSUME NEW t \in Thread, RemoveAge(t) PROVE LeavingInv'
    BY <1>9 DEF TipsInv, LeavingInv, Removing, Pruning, AddingInv, Adding, FreshInv, RemoveAge
  <1>10. ASSUME NEW t \in Thread, CollectStale(t) PROVE LeavingInv'
    BY <1>10 DEF TipsInv, LeavingInv, Removing, Pruning, AddingInv, Adding, FreshInv, CollectStale
  <1>11. ASSUME NEW t \in Thread, LockTips(t) PROVE LeavingInv'
    BY <1>11 DEF TipsInv, LeavingInv, Removing, Pruning, AddingInv, Adding, FreshInv, LockTips
  <1>12. ASSUME NEW t \in Thread, Unlock(t) PROVE LeavingInv'
    BY <1>12 DEF TipsInv, LeavingInv, Removing, Pruning, AddingInv, Adding, FreshInv, Unlock
  <1>13. ASSUME NEW t \in Thread, SelectStep(t) PROVE LeavingInv'
    BY <1>13 DEF TipsInv, LeavingInv, Removing, Pruning, AddingInv, Adding, FreshInv, SelectStep, Selecting
  <1>14. ASSUME UNCHANGED selectorVars PROVE LeavingInv'
    BY <1>14 DEF TipsInv, LeavingInv, Removing, Pruning, AddingInv, Adding, FreshInv, selectorVars
  <1> HIDE DEF SelectorTypeOK, Job, Place, NoJob, NoWeight, GoOn, EndJob
  <1> QED
    BY <1>1, <1>2, <1>3, <1>4, <1>5, <1>6, <1>7, <1>8, <1>9, <1>10, <1>11, <1>12, <1>13, <1>14, Selects DEF SelectorNext, TipsInv

\* Every step keeps FreshInv.
LEMMA StepFreshInv ==
    ASSUME Weights \subseteq Nat, TipsInv, [SelectorNext]_selectorVars
    PROVE  FreshInv'
  <1> USE DEF SelectorTypeOK, Job, Place, NoJob, NoWeight, GoOn, EndJob
  <1>1. ASSUME NEW h \in Hash, Grow(h) PROVE FreshInv'
    BY <1>1 DEF TipsInv, FreshInv, AddingInv, LeavingInv, Adding, Removing, Pruning, Grow
  <1>2. ASSUME NEW t \in Thread, NEW h \in Hash, NEW w \in Weights \cup {1}, AddTip(t, h, w) PROVE FreshInv'
    BY <1>2 DEF TipsInv, FreshInv, AddingInv, LeavingInv, Adding, Removing, Pruning, AddTip
  <1>3. ASSUME NEW t \in Thread, NEW h \in Hash, NEW w \in Weights \cup {1}, update_weight(t, h, w) PROVE FreshInv'
    BY <1>3 DEF TipsInv, FreshInv, AddingInv, LeavingInv, Adding, Removing, Pruning, update_weight
  <1>4. ASSUME NEW t \in Thread, NEW h \in Hash, RemoveTip(t, h) PROVE FreshInv'
    BY <1>4 DEF TipsInv, FreshInv, AddingInv, LeavingInv, Adding, Removing, Pruning, RemoveTip
  <1>5. ASSUME NEW t \in Thread, NEW h \in Hash, PruneTip(t, h) PROVE FreshInv'
    BY <1>5 DEF TipsInv, FreshInv, AddingInv, LeavingInv, Adding, Removing, Pruning, PruneTip
  <1>6. ASSUME NEW t \in Thread, AddWeight(t) PROVE FreshInv'
    BY <1>6 DEF TipsInv, FreshInv, AddingInv, LeavingInv, Adding, Removing, Pruning, AddWeight
  <1>7. ASSUME NEW t \in Thread, AddAge(t) PROVE FreshInv'
    BY <1>7 DEF TipsInv, FreshInv, AddingInv, LeavingInv, Adding, Removing, Pruning, AddAge
  <1>8. ASSUME NEW t \in Thread, RemoveWeight(t) PROVE FreshInv'
    BY <1>8 DEF TipsInv, FreshInv, AddingInv, LeavingInv, Adding, Removing, Pruning, RemoveWeight
  <1>9. ASSUME NEW t \in Thread, RemoveAge(t) PROVE FreshInv'
    BY <1>9 DEF TipsInv, FreshInv, AddingInv, LeavingInv, Adding, Removing, Pruning, RemoveAge
  <1>10. ASSUME NEW t \in Thread, CollectStale(t) PROVE FreshInv'
    BY <1>10 DEF TipsInv, FreshInv, AddingInv, LeavingInv, Adding, Removing, Pruning, CollectStale
  <1>11. ASSUME NEW t \in Thread, LockTips(t) PROVE FreshInv'
    BY <1>11 DEF TipsInv, FreshInv, AddingInv, LeavingInv, Adding, Removing, Pruning, LockTips
  <1>12. ASSUME NEW t \in Thread, Unlock(t) PROVE FreshInv'
    BY <1>12 DEF TipsInv, FreshInv, AddingInv, LeavingInv, Adding, Removing, Pruning, Unlock
  <1>13. ASSUME NEW t \in Thread, SelectStep(t) PROVE FreshInv'
    BY <1>13 DEF TipsInv, FreshInv, AddingInv, LeavingInv, Adding, Removing, Pruning, SelectStep, Selecting
  <1>14. ASSUME UNCHANGED selectorVars PROVE FreshInv'
    BY <1>14 DEF TipsInv, FreshInv, AddingInv, LeavingInv, Adding, Removing, Pruning, selectorVars
  <1> HIDE DEF SelectorTypeOK, Job, Place, NoJob, NoWeight, GoOn, EndJob
  <1> QED
    BY <1>1, <1>2, <1>3, <1>4, <1>5, <1>6, <1>7, <1>8, <1>9, <1>10, <1>11, <1>12, <1>13, <1>14, Selects DEF SelectorNext, TipsInv

\* Every step keeps AgreeInv.
LEMMA StepAgreeInv ==
    ASSUME Weights \subseteq Nat, TipsInv, [SelectorNext]_selectorVars
    PROVE  AgreeInv'
  <1> USE DEF SelectorTypeOK, Job, Place, NoJob, NoWeight, GoOn, EndJob
  <1>1. ASSUME NEW h \in Hash, Grow(h) PROVE AgreeInv'
    BY <1>1 DEF TipsInv, AgreeInv, AddingInv, LeavingInv, FreshInv, Adding, Removing, Pruning, Grow
  <1>2. ASSUME NEW t \in Thread, NEW h \in Hash, NEW w \in Weights \cup {1}, AddTip(t, h, w) PROVE AgreeInv'
    BY <1>2 DEF TipsInv, AgreeInv, AddingInv, LeavingInv, FreshInv, Adding, Removing, Pruning, AddTip
  <1>3. ASSUME NEW t \in Thread, NEW h \in Hash, NEW w \in Weights \cup {1}, update_weight(t, h, w) PROVE AgreeInv'
    BY <1>3 DEF TipsInv, AgreeInv, AddingInv, LeavingInv, FreshInv, Adding, Removing, Pruning, update_weight
  <1>4. ASSUME NEW t \in Thread, NEW h \in Hash, RemoveTip(t, h) PROVE AgreeInv'
    <2>1. /\ job'[t].pc = "unweigh" /\ job'[t].hash = {h} /\ job[t].pc = "idle"
          /\ \A u \in Thread : u # t => job'[u] = job[u]
      BY <1>4 DEF TipsInv, RemoveTip
    <2>2. UNCHANGED <<weights, added_at, added>> /\ tips' = tips \ {h}
      BY <1>4 DEF RemoveTip
    <2>3. \A u \in Thread : Pruning(u) \/ Removing(u) => job'[u] = job[u]
      BY <2>1 DEF Pruning, Removing
    <2> HIDE DEF SelectorTypeOK, Job, Place, NoJob
    <2> SUFFICES ASSUME NEW g \in Hash, added[g] = "yes"
                 PROVE  /\ g \in tips' => weights[g] # NoWeight
                        /\ weights[g] # NoWeight => g \in tips' \/ \E u \in Thread : job'[u].pc = "unweigh" /\ g \in job'[u].hash
                        /\ g \in tips' => added_at[g] # "none" \/ \E u \in Thread : Pruning(u)' /\ g \in job'[u].hash
                        /\ added_at[g] # "none" => g \in tips' \/ \E u \in Thread : Removing(u)' /\ g \in job'[u].hash
      BY <2>2 DEF AgreeInv
    <2>4. CASE g = h
      BY <2>1, <2>2, <2>4 DEF Removing
    <2>5. CASE g # h
      BY <2>1, <2>2, <2>3, <2>5 DEF TipsInv, AgreeInv, Removing, Pruning
    <2> QED
      BY <2>4, <2>5
  <1>5. ASSUME NEW t \in Thread, NEW h \in Hash, PruneTip(t, h) PROVE AgreeInv'
    BY <1>5 DEF TipsInv, AgreeInv, AddingInv, LeavingInv, FreshInv, Adding, Removing, Pruning, PruneTip
  <1>6. ASSUME NEW t \in Thread, AddWeight(t) PROVE AgreeInv'
    BY <1>6 DEF TipsInv, AgreeInv, AddingInv, LeavingInv, FreshInv, Adding, Removing, Pruning, AddWeight
  <1>7. ASSUME NEW t \in Thread, AddAge(t) PROVE AgreeInv'
    BY <1>7 DEF TipsInv, AgreeInv, AddingInv, LeavingInv, FreshInv, Adding, Removing, Pruning, AddAge
  <1>8. ASSUME NEW t \in Thread, RemoveWeight(t) PROVE AgreeInv'
    BY <1>8 DEF TipsInv, AgreeInv, AddingInv, LeavingInv, FreshInv, Adding, Removing, Pruning, RemoveWeight
  <1>9. ASSUME NEW t \in Thread, RemoveAge(t) PROVE AgreeInv'
    BY <1>9 DEF TipsInv, AgreeInv, AddingInv, LeavingInv, FreshInv, Adding, Removing, Pruning, RemoveAge
  <1>10. ASSUME NEW t \in Thread, CollectStale(t) PROVE AgreeInv'
    BY <1>10 DEF TipsInv, AgreeInv, AddingInv, LeavingInv, FreshInv, Adding, Removing, Pruning, CollectStale
  <1>11. ASSUME NEW t \in Thread, LockTips(t) PROVE AgreeInv'
    BY <1>11 DEF TipsInv, AgreeInv, AddingInv, LeavingInv, FreshInv, Adding, Removing, Pruning, LockTips
  <1>12. ASSUME NEW t \in Thread, Unlock(t) PROVE AgreeInv'
    BY <1>12 DEF TipsInv, AgreeInv, AddingInv, LeavingInv, FreshInv, Adding, Removing, Pruning, Unlock
  <1>13. ASSUME NEW t \in Thread, SelectStep(t) PROVE AgreeInv'
    BY <1>13 DEF TipsInv, AgreeInv, AddingInv, LeavingInv, FreshInv, Adding, Removing, Pruning, SelectStep, Selecting
  <1>14. ASSUME UNCHANGED selectorVars PROVE AgreeInv'
    BY <1>14 DEF TipsInv, AgreeInv, AddingInv, LeavingInv, FreshInv, Adding, Removing, Pruning, selectorVars
  <1> HIDE DEF SelectorTypeOK, Job, Place, NoJob, NoWeight, GoOn, EndJob
  <1> QED
    BY <1>1, <1>2, <1>3, <1>4, <1>5, <1>6, <1>7, <1>8, <1>9, <1>10, <1>11, <1>12, <1>13, <1>14, Selects DEF SelectorNext, TipsInv

\* Every step keeps SelectInv.
LEMMA StepSelectInv ==
    ASSUME Weights \subseteq Nat, TipsInv, [SelectorNext]_selectorVars
    PROVE  SelectInv'
  <1> USE DEF SelectorTypeOK, Job, Place, NoJob, NoWeight, GoOn, EndJob
  <1>1. ASSUME NEW h \in Hash, Grow(h) PROVE SelectInv'
    BY <1>1 DEF TipsInv, SelectInv, Selection, Grow
  <1>2. ASSUME NEW t \in Thread, NEW h \in Hash, NEW w \in Weights \cup {1}, AddTip(t, h, w) PROVE SelectInv'
    BY <1>2 DEF TipsInv, SelectInv, Selection, AddTip
  <1>3. ASSUME NEW t \in Thread, NEW h \in Hash, NEW w \in Weights \cup {1}, update_weight(t, h, w) PROVE SelectInv'
    BY <1>3 DEF TipsInv, SelectInv, Selection, update_weight
  <1>4. ASSUME NEW t \in Thread, NEW h \in Hash, RemoveTip(t, h) PROVE SelectInv'
    BY <1>4 DEF TipsInv, SelectInv, Selection, RemoveTip
  <1>5. ASSUME NEW t \in Thread, NEW h \in Hash, PruneTip(t, h) PROVE SelectInv'
    BY <1>5 DEF TipsInv, SelectInv, Selection, PruneTip
  <1>6. ASSUME NEW t \in Thread, AddWeight(t) PROVE SelectInv'
    BY <1>6 DEF TipsInv, SelectInv, Selection, AddWeight
  <1>7. ASSUME NEW t \in Thread, AddAge(t) PROVE SelectInv'
    BY <1>7 DEF TipsInv, SelectInv, Selection, AddAge
  <1>8. ASSUME NEW t \in Thread, RemoveWeight(t) PROVE SelectInv'
    BY <1>8 DEF TipsInv, SelectInv, Selection, RemoveWeight
  <1>9. ASSUME NEW t \in Thread, RemoveAge(t) PROVE SelectInv'
    BY <1>9 DEF TipsInv, SelectInv, Selection, RemoveAge
  <1>10. ASSUME NEW t \in Thread, CollectStale(t) PROVE SelectInv'
    BY <1>10 DEF TipsInv, SelectInv, Selection, CollectStale
  <1>11. ASSUME NEW t \in Thread, LockTips(t) PROVE SelectInv'
    BY <1>11 DEF TipsInv, SelectInv, Selection, LockTips
  <1>12. ASSUME NEW t \in Thread, Unlock(t) PROVE SelectInv'
    BY <1>12 DEF TipsInv, SelectInv, Selection, Unlock
  <1>13. ASSUME NEW t \in Thread, SelectStep(t) PROVE SelectInv'
    BY <1>13 DEF TipsInv, SelectInv, Selection, SelectStep, Selecting
  <1>14. ASSUME UNCHANGED selectorVars PROVE SelectInv'
    BY <1>14 DEF TipsInv, SelectInv, Selection, selectorVars
  <1> HIDE DEF SelectorTypeOK, Job, Place, NoJob, NoWeight, GoOn, EndJob
  <1> QED
    BY <1>1, <1>2, <1>3, <1>4, <1>5, <1>6, <1>7, <1>8, <1>9, <1>10, <1>11, <1>12, <1>13, <1>14, Selects DEF SelectorNext, TipsInv

\* The initial state satisfies the invariant.
LEMMA InitTipsInv == SelectorInit => TipsInv
  BY FS_EmptySet DEF SelectorInit, TipsInv, SelectorTypeOK, Job, Place, NoJob, NoWeight, AddingInv, LeavingInv, FreshInv, AgreeInv, SelectInv,
                     Selection, Adding, Removing, Pruning

(***************************************************************************)
(* Whatever additions, removals, weight updates and prunings interleave,   *)
(* between calls the three maps of the tip selector name the same hashes,  *)
(* and a selection gives two different tips (tips.rs:26-156).              *)
(***************************************************************************)
THEOREM TipsConsistent == Weights \subseteq Nat => (SelectorSpec => []TipsAreConsistent)
  <1> SUFFICES ASSUME Weights \subseteq Nat PROVE SelectorSpec => []TipsAreConsistent
    OBVIOUS
  <1>1. TipsInv /\ [SelectorNext]_selectorVars => TipsInv'
    BY StepSelectorTypeOK, StepAddingInv, StepLeavingInv, StepFreshInv, StepAgreeInv, StepSelectInv DEF TipsInv
  <1>2. TipsInv => TipMapsAgree
    BY DEF TipsInv, SelectorTypeOK, FreshInv, AgreeInv, TipMapsAgree, Adding, Removing, Pruning, NoWeight
  <1>3. TipsInv => SelectedTipsDiffer
    BY DEF TipsInv, SelectInv, Selection, SelectedTipsDiffer
  <1> QED
    BY <1>1, <1>2, <1>3, InitTipsInv, PTL DEF SelectorSpec, TipsAreConsistent

-----------------------------------------------------------------------------
(***************************************************************************)
(* The peer manager, for any number of peers and buckets.                  *)
(***************************************************************************)
\* What the theorem asks of the constants: some callers and peers, addresses that are there.
Configured ==
    /\ IsFiniteSet(Thread) /\ Thread # {}
    /\ PeerIds \in Seq(PeerId) /\ PeerIds # <<>>
    /\ NoAddress \notin Address /\ max_peers \in Nat

\* The maps and the locals of the calls have their types, and a call has an address.
PeersTypeOK ==
    /\ peers \in [PeerId -> Address \cup {NoAddress}]
    /\ connections_per_bucket \in [Bucket -> Nat]
    /\ pc \in [Thread -> {"idle", "len", "bucket", "insert", "count", "discount", "drop"}]
    /\ arg \in [Thread -> [peer : PeerId, address : Address \cup {NoAddress}]]
    /\ scan \in [Thread -> [next : Nat \ {0}, len : Nat]]
    /\ \A t \in Thread : pc[t] # "idle" => arg[t].address \in Address

\* The connected peers, and those among the first entries of the map that t has counted.
Connected == {p \in PeerId : peers[p] # NoAddress}
Seen(t) == {p \in Connected : \E i \in 1 .. Len(PeerIds) : i < scan[t].next /\ PeerIds[i] = p}

\* Callers of add_peer that add up the shards, and those that found room.
Scanning == {t \in Thread : pc[t] = "len"}
Admitted == {t \in Thread : pc[t] \in {"bucket", "insert"}}

\* Were all of J admitted, the peers would still be within the bound.
Fits(J) ==
    Cardinality(Connected) + Cardinality(Admitted) + Cardinality(J) <= max_peers + Cardinality(Thread) - 1

\* The same once l has counted to the end, if its count leaves room.
Counted(l, J) ==
    Cardinality(Seen(l)) + Cardinality(Admitted) + Cardinality(J) <= scan[l].len + Cardinality(Thread)

(***************************************************************************)
(* As in the mempool: of any callers that are counting, the one that       *)
(* started last has missed only peers that were on their way when it       *)
(* started, unless one that is admitted started even later.                *)
(***************************************************************************)
SizeInv == \A J \in SUBSET Scanning : Fits(J) \/ \E l \in J : Counted(l, J)

\* Callers about to count a peer of the bucket, and about to take one off.
Counting(b) == {t \in Thread : pc[t] = "count" /\ BucketOf(t) = b}
Leaving(b) == {t \in Thread : pc[t] \in {"discount", "drop"} /\ BucketOf(t) = b}

\* A bucket that no race has hit counts its peers, but for the calls under way.
BucketInv ==
    \A b \in Bucket \ raced :
        connections_per_bucket[b] + Cardinality(Counting(b)) = Cardinality(Members(b)) + Cardinality(Leaving(b))

PeerInv == PeersTypeOK /\ SizeInv /\ BucketInv

-----------------------------------------------------------------------------
\* Sets of peers and of callers are finite.
LEMMA FiniteParts ==
    ASSUME Configured
    PROVE  /\ \A S \in SUBSET PeerId : IsFiniteSet(S) /\ Cardinality(S) \in Nat
           /\ \A S \in SUBSET Thread : IsFiniteSet(S) /\ Cardinality(S) \in Nat
           /\ Cardinality(Thread) \in Nat \ {0} /\ max_peers \in Nat
<1>1. IsFiniteSet(PeerId)
  <2>1. Len(PeerIds) \in Nat /\ PeerIds \in [1 .. Len(PeerIds) -> PeerId]
    BY DEF Configured
  <2>2. PeerId = {PeerIds[i] : i \in 1 .. Len(PeerIds)}
    BY <2>1 DEF PeerId, ToSet
  <2>3. PeerIds \in Surjection(1 .. Len(PeerIds), PeerId)
    BY <2>1, <2>2 DEF Surjection
  <2>4. IsFiniteSet(1 .. Len(PeerIds))
    BY <2>1, FS_Interval
  <2> QED
    BY <2>3, <2>4, FS_Surjection
<1>2. \A S \in SUBSET PeerId : IsFiniteSet(S)
  BY <1>1, FS_Subset
<1>3. \A S \in SUBSET Thread : IsFiniteSet(S)
  BY FS_Subset DEF Configured
<1>4. Cardinality(Thread) # 0 /\ max_peers \in Nat
  BY FS_EmptySet DEF Configured
<1> QED
  BY <1>2, <1>3, <1>4, FS_CardinalityType

\* A peer can be found by its place in the map.
LEMMA PeerAt == ASSUME Configured, NEW i \in 1 .. Len(PeerIds) PROVE PeerIds[i] \in PeerId
BY DEF Configured

\* The types of what a step changes.
LEMMA TypeStep == ASSUME Configured, PeersTypeOK, [PeersNext]_peerVars PROVE PeersTypeOK'
<1>1. ASSUME NEW t \in Thread, NEW p \in PeerId, NEW address \in Address, add_peer(t, p, address) PROVE PeersTypeOK'
  BY <1>1 DEF add_peer, MoveTo, PeersTypeOK
<1>2. ASSUME NEW t \in Thread, NEW p \in PeerId, remove_peer(t, p) PROVE PeersTypeOK'
  <2>1. peers[p] \in Address
    BY <1>2 DEF remove_peer, PeersTypeOK
  <2> QED
    BY <1>2, <2>1 DEF remove_peer, MoveTo, PeersTypeOK
<1>3. ASSUME NEW t \in Thread, ScanShard(t) PROVE PeersTypeOK'
  <2>1. scan' \in [Thread -> [next : Nat \ {0}, len : Nat]]
    BY <1>3 DEF ScanShard, PeersTypeOK
  <2> QED
    BY <1>3, <2>1 DEF ScanShard, At, PeersTypeOK
<1>4. ASSUME NEW t \in Thread, CheckLen(t) PROVE PeersTypeOK'
  BY <1>4 DEF CheckLen, At, MoveTo, PeersTypeOK
<1>5. ASSUME NEW t \in Thread, CheckBucket(t) PROVE PeersTypeOK'
  BY <1>5 DEF CheckBucket, At, MoveTo, PeersTypeOK
<1>6. ASSUME NEW t \in Thread, InsertPeer(t) PROVE PeersTypeOK'
  <2>1. arg[t].address \in Address /\ arg[t].peer \in PeerId
    BY <1>6 DEF InsertPeer, At, PeersTypeOK
  <2>2. peers' \in [PeerId -> Address \cup {NoAddress}]
    BY <1>6, <2>1 DEF InsertPeer, PeersTypeOK
  <2> QED
    BY <1>6, <2>2 DEF InsertPeer, At, MoveTo, PeersTypeOK
<1>7. ASSUME NEW t \in Thread, CountPeer(t) \/ Discount(t) \/ DropBucket(t) PROVE PeersTypeOK'
  <2>1. connections_per_bucket' \in [Bucket -> Nat]
    BY <1>7 DEF CountPeer, Discount, DropBucket, PeersTypeOK
  <2>2. \E step \in {"idle", "drop"} : MoveTo(t, step)
    BY <1>7 DEF CountPeer, Discount, DropBucket
  <2>3. UNCHANGED <<peers, arg, scan>> /\ pc[t] # "idle"
    BY <1>7 DEF CountPeer, Discount, DropBucket, At
  <2> QED
    BY <2>1, <2>2, <2>3 DEF MoveTo, PeersTypeOK
<1>8. CASE UNCHANGED peerVars
  BY <1>8 DEF peerVars, PeersTypeOK
<1> QED
  BY <1>1, <1>2, <1>3, <1>4, <1>5, <1>6, <1>7, <1>8 DEF PeersNext

-----------------------------------------------------------------------------
\* What the bound adds up are numbers.
LEMMA SizesAreNumbers ==
    ASSUME Configured, PeersTypeOK
    PROVE  /\ IsFiniteSet(Connected) /\ Cardinality(Connected) \in Nat
           /\ IsFiniteSet(Admitted) /\ Cardinality(Admitted) \in Nat
           /\ Cardinality(Thread) \in Nat \ {0} /\ max_peers \in Nat
           /\ \A J \in SUBSET Scanning : IsFiniteSet(J) /\ Cardinality(J) \in Nat
           /\ \A l \in Thread : IsFiniteSet(Seen(l)) /\ Cardinality(Seen(l)) \in Nat /\ scan[l].len \in Nat
<1>1. Connected \in SUBSET PeerId /\ Admitted \in SUBSET Thread /\ Scanning \in SUBSET Thread
  BY DEF Connected, Admitted, Scanning
<1>2. \A l \in Thread : Seen(l) \in SUBSET PeerId /\ scan[l].len \in Nat
  BY <1>1 DEF PeersTypeOK, Seen
<1>3. \A J \in SUBSET Scanning : J \in SUBSET Thread
  BY <1>1
<1> QED
  BY <1>1, <1>2, <1>3, FiniteParts

\* And stay numbers.
LEMMA NextSizesAreNumbers ==
    ASSUME Configured, PeersTypeOK'
    PROVE  /\ Cardinality(Connected') \in Nat /\ Cardinality(Admitted') \in Nat
           /\ \A l \in Thread : Cardinality(Seen(l)') \in Nat /\ scan'[l].len \in Nat
<1>1. Connected' \in SUBSET PeerId /\ Admitted' \in SUBSET Thread
  BY DEF Connected, Admitted
<1>2. \A l \in Thread : Seen(l)' \in SUBSET PeerId /\ scan'[l].len \in Nat
  BY <1>1 DEF PeersTypeOK, Seen
<1> QED
  BY <1>1, <1>2, FiniteParts

(***************************************************************************)
(* A step that admits nobody: what it adds to the peers it takes from the  *)
(* admitted, and what a scan misses it does not add to its count.          *)
(***************************************************************************)
LEMMA SizeFrame ==
    ASSUME Configured, PeersTypeOK, PeersTypeOK', SizeInv, Scanning' \subseteq Scanning,
           Cardinality(Connected') + Cardinality(Admitted') <= Cardinality(Connected) + Cardinality(Admitted),
           \A l \in Scanning' :
               Cardinality(Seen(l)') + Cardinality(Admitted') + scan[l].len
                   <= Cardinality(Seen(l)) + Cardinality(Admitted) + scan'[l].len
    PROVE  SizeInv'
<1> SUFFICES ASSUME NEW J \in SUBSET Scanning' PROVE Fits(J)' \/ \E l \in J : Counted(l, J)'
  BY DEF SizeInv
<1>1. J \in SUBSET Scanning
  OBVIOUS
<1>2. /\ Cardinality(Connected) \in Nat /\ Cardinality(Admitted) \in Nat /\ Cardinality(J) \in Nat
      /\ Cardinality(Thread) \in Nat /\ max_peers \in Nat
      /\ \A l \in Thread : Cardinality(Seen(l)) \in Nat /\ scan[l].len \in Nat
  BY <1>1, SizesAreNumbers
<1>3. /\ Cardinality(Connected') \in Nat /\ Cardinality(Admitted') \in Nat
      /\ \A l \in Thread : Cardinality(Seen(l)') \in Nat /\ scan'[l].len \in Nat
  BY NextSizesAreNumbers
<1>4. CASE Fits(J)
  BY <1>2, <1>3, <1>4 DEF Fits
<1>5. ASSUME NEW l \in J, Counted(l, J) PROVE Counted(l, J)'
  <2>1. l \in Thread /\ l \in Scanning'
    BY DEF Scanning
  <2> QED
    BY <1>2, <1>3, <1>5, <2>1 DEF Counted
<1> QED
  BY <1>1, <1>4, <1>5 DEF SizeInv

\* A step that leaves the scans alone and takes from the peers or the admitted at most.
LEMMA ShrinkKeepsSize ==
    ASSUME Configured, PeersTypeOK, PeersTypeOK', SizeInv, Scanning' \subseteq Scanning,
           Connected' \subseteq Connected, Admitted' \subseteq Admitted,
           \A l \in Scanning' : scan'[l] = scan[l]
    PROVE  SizeInv'
<1>1. /\ IsFiniteSet(Connected) /\ Cardinality(Connected) \in Nat
      /\ IsFiniteSet(Admitted) /\ Cardinality(Admitted) \in Nat
      /\ \A l \in Thread : IsFiniteSet(Seen(l)) /\ Cardinality(Seen(l)) \in Nat /\ scan[l].len \in Nat
  BY SizesAreNumbers
<1>2. /\ Cardinality(Connected') \in Nat /\ Cardinality(Admitted') \in Nat
      /\ \A l \in Thread : Cardinality(Seen(l)') \in Nat
  BY NextSizesAreNumbers
<1>3. Cardinality(Connected') <= Cardinality(Connected) /\ Cardinality(Admitted') <= Cardinality(Admitted)
  BY <1>1, FS_Subset
<1>4. ASSUME NEW l \in Scanning'
      PROVE  Cardinality(Seen(l)') + Cardinality(Admitted') + scan[l].len
                <= Cardinality(Seen(l)) + Cardinality(Admitted) + scan'[l].len
  <2>1. l \in Thread /\ scan'[l] = scan[l]
    BY DEF Scanning
  <2>2. Seen(l)' \in SUBSET Seen(l)
    BY <2>1 DEF Seen
  <2>3. Cardinality(Seen(l)') <= Cardinality(Seen(l))
    BY <1>1, <2>1, <2>2, FS_Subset
  <2> QED
    BY <1>1, <1>2, <1>3, <2>1, <2>3
<1>5. Cardinality(Connected') + Cardinality(Admitted') <= Cardinality(Connected) + Cardinality(Admitted)
  BY <1>1, <1>2, <1>3
<1> QED
  BY <1>4, <1>5, SizeFrame

\* Two disjoint sets of callers are together no more than all of them.
LEMMA DisjointCallers ==
    ASSUME Configured, NEW A \in SUBSET Thread, NEW J \in SUBSET Thread, A \cap J = {}
    PROVE  Cardinality(A) + Cardinality(J) <= Cardinality(Thread)
<1>1. IsFiniteSet(A) /\ IsFiniteSet(J) /\ IsFiniteSet(Thread)
  BY FiniteParts DEF Configured
<1>2. Cardinality(A \cup J) = Cardinality(A) + Cardinality(J) - Cardinality(A \cap J)
  BY <1>1, FS_Union
<1>3. Cardinality(A \cup J) <= Cardinality(Thread)
  BY <1>1, FS_Subset
<1>4. Cardinality(A \cap J) = 0 /\ Cardinality(A) \in Nat /\ Cardinality(J) \in Nat
  BY <1>1, FS_EmptySet, FS_CardinalityType
<1> QED
  BY <1>2, <1>3, <1>4

\* A scan that starts has missed nothing: what it will miss others have still to insert.
LEMMA AddKeepsSize ==
    ASSUME Configured, PeersTypeOK, PeersTypeOK', SizeInv, NEW t \in Thread, NEW p \in PeerId, NEW address \in Address,
           add_peer(t, p, address)
    PROVE  SizeInv'
<1>1. /\ pc[t] = "idle" /\ pc' = [pc EXCEPT ![t] = "len"]
      /\ scan' = [scan EXCEPT ![t] = [next |-> 1, len |-> 0]] /\ UNCHANGED peers
  BY DEF add_peer, MoveTo
<1>2. Scanning' = Scanning \cup {t} /\ Admitted' = Admitted /\ Connected' = Connected
  BY <1>1 DEF Scanning, Admitted, Connected, PeersTypeOK
<1> SUFFICES ASSUME NEW J \in SUBSET Scanning' PROVE Fits(J)' \/ \E l \in J : Counted(l, J)'
  BY DEF SizeInv
<1>3. CASE t \in J
  <2>1. scan'[t].next = 1 /\ scan'[t].len = 0
    BY <1>1 DEF PeersTypeOK
  <2>2. Seen(t)' = {}
    <3>1. \A i \in 1 .. Len(PeerIds) : ~(i < 1)
      BY DEF Configured
    <3> QED
      BY <2>1, <3>1 DEF Seen
  <2>3. Cardinality(Seen(t)') = 0
    BY <2>2, FS_EmptySet
  <2>4. Cardinality(Admitted') + Cardinality(J) <= Cardinality(Thread)
    <3>1. Admitted' \in SUBSET Thread /\ J \in SUBSET Thread /\ Admitted' \cap J = {}
      BY DEF Admitted, Scanning
    <3> QED
      BY <3>1, DisjointCallers
  <2>5. Cardinality(Admitted') \in Nat /\ Cardinality(Thread) \in Nat
    BY <1>2, SizesAreNumbers
  <2>6. Cardinality(J) \in Nat
    <3>1. J \in SUBSET Thread
      BY DEF Scanning
    <3> QED
      BY <3>1, FiniteParts
  <2>7. Counted(t, J)'
    BY <2>1, <2>3, <2>4, <2>5, <2>6 DEF Counted
  <2> QED
    BY <1>3, <2>7
<1>4. CASE t \notin J
  <2>1. J \in SUBSET Scanning
    BY <1>2, <1>4
  <2>2. Fits(J)' <=> Fits(J)
    BY <1>2 DEF Fits
  <2>3. ASSUME NEW l \in J PROVE Counted(l, J)' <=> Counted(l, J)
    <3>1. scan'[l] = scan[l]
      BY <1>1, <1>4, <2>1 DEF PeersTypeOK, Scanning
    <3>2. Seen(l)' = Seen(l)
      BY <1>2, <3>1 DEF Seen
    <3> QED
      BY <1>2, <3>1, <3>2 DEF Counted
  <2> QED
    BY <2>1, <2>2, <2>3 DEF SizeInv
<1> QED
  BY <1>3, <1>4

\* A shard that holds a peer adds one to what is seen and to the count.
LEMMA ScanKeepsSize ==
    ASSUME Configured, PeersTypeOK, PeersTypeOK', SizeInv, NEW t \in Thread, ScanShard(t) PROVE SizeInv'
<1> DEFINE n == scan[t].next
           q == PeerIds[n]
           one == IF peers[q] = NoAddress THEN 0 ELSE 1
<1>1. /\ pc[t] = "len" /\ n <= Len(PeerIds) /\ UNCHANGED <<peers, pc>>
      /\ scan' = [scan EXCEPT ![t] = [next |-> n + 1, len |-> scan[t].len + one]]
  BY DEF ScanShard, At, PeersTypeOK
<1>2. n \in 1 .. Len(PeerIds) /\ scan[t].len \in Nat /\ Len(PeerIds) \in Nat
  BY <1>1 DEF PeersTypeOK, Configured
<1>3. q \in PeerId
  BY <1>2, PeerAt
<1>4. scan'[t].next = n + 1 /\ scan'[t].len = scan[t].len + one /\ \A l \in Thread \ {t} : scan'[l] = scan[l]
  BY <1>1 DEF PeersTypeOK
<1>5. Scanning' = Scanning /\ Admitted' = Admitted /\ Connected' = Connected /\ Scanning \subseteq Thread
  BY <1>1 DEF Scanning, Admitted, Connected
<1>6. /\ IsFiniteSet(Connected) /\ Cardinality(Connected) \in Nat /\ Cardinality(Admitted) \in Nat
      /\ \A l \in Thread : IsFiniteSet(Seen(l)) /\ Cardinality(Seen(l)) \in Nat /\ scan[l].len \in Nat
  BY SizesAreNumbers
<1>7. \A i \in 1 .. Len(PeerIds) : i < n + 1 <=> i < n \/ i = n
  BY <1>2
<1>8. Cardinality(Seen(t)') <= Cardinality(Seen(t)) + one
  <2>1. CASE peers[q] = NoAddress
    <3>1. Seen(t)' = Seen(t)
      BY <1>2, <1>4, <1>5, <1>7, <2>1 DEF Seen, Connected
    <3> QED
      BY <1>6, <2>1, <3>1
  <2>2. CASE peers[q] # NoAddress
    <3>1. Seen(t)' = Seen(t) \cup {q}
      BY <1>2, <1>3, <1>4, <1>5, <1>7, <2>2 DEF Seen, Connected
    <3> HIDE DEF q
    <3>2. Cardinality(Seen(t) \cup {q}) = IF q \in Seen(t) THEN Cardinality(Seen(t)) ELSE Cardinality(Seen(t)) + 1
      BY <1>6, FS_AddElement
    <3>3. Cardinality(Seen(t)') <= Cardinality(Seen(t)) + 1
      BY <1>6, <3>1, <3>2
    <3> QED
      BY <2>2, <3>3
  <2> QED
    BY <2>1, <2>2
<1>9. Cardinality(Seen(t)') \in Nat /\ one \in Nat
  BY NextSizesAreNumbers
<1> HIDE DEF one, n, q
<1>10. ASSUME NEW l \in Scanning'
       PROVE  Cardinality(Seen(l)') + Cardinality(Admitted') + scan[l].len
                 <= Cardinality(Seen(l)) + Cardinality(Admitted) + scan'[l].len
  <2>1. CASE l = t
    BY <1>4, <1>5, <1>6, <1>8, <1>9, <2>1
  <2>2. CASE l # t
    <3>1. scan'[l] = scan[l] /\ l \in Thread
      BY <1>4, <1>5, <2>2
    <3>2. Seen(l)' = Seen(l)
      BY <1>5, <3>1 DEF Seen
    <3> QED
      BY <1>5, <1>6, <3>1, <3>2
  <2> QED
    BY <2>1, <2>2
<1>11. Cardinality(Connected') + Cardinality(Admitted') <= Cardinality(Connected) + Cardinality(Admitted)
  BY <1>5, <1>6
<1> QED
  BY <1>5, <1>10, <1>11, SizeFrame

\* A caller that found room passes from the ones that count to the ones that insert.
LEMMA CheckLenKeepsSize ==
    ASSUME Configured, PeersTypeOK, PeersTypeOK', SizeInv, NEW t \in Thread, CheckLen(t) PROVE SizeInv'
<1>1. /\ pc[t] = "len" /\ scan[t].next > Len(PeerIds) /\ UNCHANGED peers
      /\ pc' = [pc EXCEPT ![t] = IF IsFull(scan[t].len) THEN "idle" ELSE "bucket"]
      /\ scan' = [scan EXCEPT ![t] = [next |-> 1, len |-> 0]]
  BY DEF CheckLen, At, MoveTo
<1>2. Connected' = Connected /\ \A l \in Thread \ {t} : scan'[l] = scan[l]
  BY <1>1 DEF Connected, PeersTypeOK
<1>3. CASE IsFull(scan[t].len)
  <2>1. Scanning' = Scanning \ {t} /\ Admitted' = Admitted
    BY <1>1, <1>3 DEF Scanning, Admitted, PeersTypeOK
  <2>2. \A l \in Scanning' : scan'[l] = scan[l]
    BY <1>2, <2>1 DEF Scanning
  <2> QED
    BY <1>2, <2>1, <2>2, ShrinkKeepsSize
<1>4. CASE ~IsFull(scan[t].len)
  <2>1. Scanning' = Scanning \ {t} /\ Admitted' = Admitted \cup {t} /\ t \notin Admitted /\ t \in Scanning
    BY <1>1, <1>4 DEF Scanning, Admitted, PeersTypeOK
  <2> SUFFICES ASSUME NEW J \in SUBSET Scanning' PROVE Fits(J)' \/ \E l \in J : Counted(l, J)'
    BY DEF SizeInv
  <2> DEFINE K == J \cup {t}
  <2>2. K \in SUBSET Scanning /\ t \notin J /\ J \in SUBSET Scanning
    BY <2>1
  <2>3. Cardinality(K) = Cardinality(J) + 1 /\ Cardinality(J) \in Nat
    <3>1. IsFiniteSet(J) /\ Cardinality(J) \in Nat
      BY <2>2, SizesAreNumbers
    <3> QED
      BY <2>2, <3>1, FS_AddElement
  <2>4. Cardinality(Admitted') = Cardinality(Admitted) + 1
    BY <2>1, SizesAreNumbers, FS_AddElement
  <2>5. /\ Cardinality(Connected) \in Nat /\ Cardinality(Admitted) \in Nat /\ Cardinality(Thread) \in Nat
        /\ max_peers \in Nat /\ \A l \in Thread : Cardinality(Seen(l)) \in Nat /\ scan[l].len \in Nat
    BY SizesAreNumbers
  <2> HIDE DEF K
  <2>6. ASSUME Fits(K) PROVE Fits(J)'
    BY <1>2, <2>3, <2>4, <2>5, <2>6 DEF Fits
  <2>7. ASSUME Counted(t, K) PROVE Fits(K)
    <3>1. Seen(t) = Connected
      <4>1. \A i \in 1 .. Len(PeerIds) : i < scan[t].next
        BY <1>1 DEF PeersTypeOK, Configured
      <4>2. \A p \in PeerId : \E i \in 1 .. Len(PeerIds) : PeerIds[i] = p
        BY DEF PeerId, ToSet, Configured
      <4> QED
        BY <4>1, <4>2 DEF Seen, Connected
    <3>2. scan[t].len < max_peers
      BY <1>4, <2>5 DEF IsFull
    <3> QED
      BY <2>3, <2>5, <2>7, <3>1, <3>2 DEF Counted, Fits
  <2>8. ASSUME NEW l \in J, Counted(l, K) PROVE Counted(l, J)'
    <3>1. l \in Thread /\ scan'[l] = scan[l]
      BY <1>2, <2>2 DEF Scanning
    <3>2. Seen(l)' = Seen(l)
      BY <1>2, <3>1 DEF Seen
    <3> QED
      BY <2>3, <2>4, <2>5, <2>8, <3>1, <3>2 DEF Counted
  <2>9. Fits(K) \/ \E l \in K : Counted(l, K)
    BY <2>2 DEF SizeInv
  <2> QED
    BY <2>6, <2>7, <2>8, <2>9 DEF K
<1> QED
  BY <1>3, <1>4

\* Inserting moves a peer from the admitted into the map.
LEMMA InsertKeepsSize ==
    ASSUME Configured, PeersTypeOK, PeersTypeOK', SizeInv, NEW t \in Thread, InsertPeer(t) PROVE SizeInv'
<1> DEFINE p == arg[t].peer
<1>1. /\ pc[t] = "insert" /\ pc' = [pc EXCEPT ![t] = "count"] /\ UNCHANGED scan
      /\ peers' = [peers EXCEPT ![p] = arg[t].address]
  BY DEF InsertPeer, At, MoveTo
<1>2. p \in PeerId /\ arg[t].address # NoAddress
  BY <1>1 DEF PeersTypeOK, Configured
<1>3. Scanning' = Scanning /\ Admitted' = Admitted \ {t} /\ t \in Admitted /\ Scanning \subseteq Thread
  BY <1>1 DEF Scanning, Admitted, PeersTypeOK
<1>4. Connected' = Connected \cup {p}
  BY <1>1, <1>2 DEF Connected, PeersTypeOK
<1>5. /\ IsFiniteSet(Connected) /\ Cardinality(Connected) \in Nat
      /\ IsFiniteSet(Admitted) /\ Cardinality(Admitted) \in Nat
      /\ \A l \in Thread : IsFiniteSet(Seen(l)) /\ Cardinality(Seen(l)) \in Nat /\ scan[l].len \in Nat
  BY SizesAreNumbers
<1>6. /\ Cardinality(Connected') \in Nat /\ Cardinality(Admitted') \in Nat
      /\ \A l \in Thread : Cardinality(Seen(l)') \in Nat
  BY NextSizesAreNumbers
<1>7. Cardinality(Admitted') = Cardinality(Admitted) - 1
  BY <1>3, <1>5, FS_RemoveElement
<1>8. ASSUME NEW S, IsFiniteSet(S), NEW x
      PROVE  IsFiniteSet(S \cup {x}) /\ Cardinality(S \cup {x}) <= Cardinality(S) + 1
  BY <1>8, FS_AddElement, FS_CardinalityType
<1>9. Cardinality(Connected') <= Cardinality(Connected) + 1
  BY <1>4, <1>5, <1>8
<1> HIDE DEF p
<1>10. ASSUME NEW l \in Thread PROVE Cardinality(Seen(l)') <= Cardinality(Seen(l)) + 1
  <2>1. Seen(l)' \in SUBSET (Seen(l) \cup {p})
    BY <1>1, <1>4 DEF Seen
  <2>2. IsFiniteSet(Seen(l) \cup {p}) /\ Cardinality(Seen(l) \cup {p}) <= Cardinality(Seen(l)) + 1
    BY <1>5, <1>8
  <2>3. Cardinality(Seen(l)') <= Cardinality(Seen(l) \cup {p}) /\ Cardinality(Seen(l) \cup {p}) \in Nat
    BY <2>1, <2>2, FS_Subset, FS_CardinalityType
  <2> QED
    BY <1>5, <1>6, <2>2, <2>3
<1>11. ASSUME NEW l \in Scanning'
       PROVE  Cardinality(Seen(l)') + Cardinality(Admitted') + scan[l].len
                 <= Cardinality(Seen(l)) + Cardinality(Admitted) + scan'[l].len
  <2>1. l \in Thread /\ scan'[l] = scan[l]
    BY <1>1, <1>3
  <2> QED
    BY <1>5, <1>6, <1>7, <1>10, <2>1
<1>12. Cardinality(Connected') + Cardinality(Admitted') <= Cardinality(Connected) + Cardinality(Admitted)
  BY <1>5, <1>6, <1>7, <1>9
<1> QED
  BY <1>3, <1>11, <1>12, SizeFrame

\* Every step keeps the bound's invariant.
LEMMA NextSize == ASSUME Configured, PeersTypeOK, PeersTypeOK', SizeInv, [PeersNext]_peerVars PROVE SizeInv'
<1>1. ASSUME NEW t \in Thread, NEW p \in PeerId, remove_peer(t, p) PROVE SizeInv'
  <2>1. pc[t] = "idle" /\ pc' = [pc EXCEPT ![t] = "discount"] /\ UNCHANGED scan /\ peers' = [peers EXCEPT ![p] = NoAddress]
    BY <1>1 DEF remove_peer, MoveTo
  <2>2. Scanning' = Scanning /\ Admitted' = Admitted /\ Connected' \subseteq Connected
    BY <2>1 DEF Scanning, Admitted, Connected, PeersTypeOK
  <2> QED
    BY <2>1, <2>2, ShrinkKeepsSize
<1>2. ASSUME NEW t \in Thread, CheckBucket(t) \/ CountPeer(t) \/ Discount(t) \/ DropBucket(t) PROVE SizeInv'
  <2>1. UNCHANGED <<scan, peers>>
    BY <1>2 DEF CheckBucket, CountPeer, Discount, DropBucket
  <2>2. \/ pc[t] = "bucket" /\ \E step \in {"idle", "insert"} : pc' = [pc EXCEPT ![t] = step]
        \/ pc[t] \in {"count", "discount", "drop"} /\ \E step \in {"idle", "drop"} : pc' = [pc EXCEPT ![t] = step]
    BY <1>2 DEF CheckBucket, CountPeer, Discount, DropBucket, At, MoveTo
  <2>3. Scanning' = Scanning /\ Admitted' \subseteq Admitted /\ Connected' = Connected
    BY <2>1, <2>2 DEF Scanning, Admitted, Connected, PeersTypeOK
  <2> QED
    BY <2>1, <2>3, ShrinkKeepsSize
<1>3. CASE UNCHANGED peerVars
  <2>1. UNCHANGED <<scan, peers, pc>>
    BY <1>3 DEF peerVars
  <2>2. Scanning' = Scanning /\ Admitted' = Admitted /\ Connected' = Connected
    BY <2>1 DEF Scanning, Admitted, Connected
  <2> QED
    BY <2>1, <2>2, ShrinkKeepsSize
<1> QED
  BY <1>1, <1>2, <1>3, AddKeepsSize, ScanKeepsSize, CheckLenKeepsSize, InsertKeepsSize DEF PeersNext

-----------------------------------------------------------------------------
\* What the buckets add up are numbers.
LEMMA BucketNumbers ==
    ASSUME Configured, NEW b
    PROVE  /\ IsFiniteSet(Counting(b)) /\ Cardinality(Counting(b)) \in Nat
           /\ IsFiniteSet(Leaving(b)) /\ Cardinality(Leaving(b)) \in Nat
           /\ IsFiniteSet(Members(b)) /\ Cardinality(Members(b)) \in Nat
<1>1. Counting(b) \in SUBSET Thread /\ Leaving(b) \in SUBSET Thread /\ Members(b) \in SUBSET PeerId
  BY DEF Counting, Leaving, Members
<1> QED
  BY <1>1, FiniteParts

\* An element more or less changes the cardinality by one.
LEMMA OneMore ==
    ASSUME NEW S, IsFiniteSet(S), NEW x, x \notin S
    PROVE  Cardinality(S \cup {x}) = Cardinality(S) + 1
BY FS_AddElement

\* The same for an element that leaves.
LEMMA OneLess ==
    ASSUME NEW S, IsFiniteSet(S), NEW x, x \in S
    PROVE  Cardinality(S \ {x}) = Cardinality(S) - 1
BY FS_RemoveElement

\* A step that leaves the sides of a bucket's balance as they are.
LEMMA SameBucket ==
    ASSUME BucketInv, NEW b \in Bucket, b \notin raced,
           connections_per_bucket'[b] = connections_per_bucket[b],
           Counting(b)' = Counting(b), Leaving(b)' = Leaving(b), Members(b)' = Members(b)
    PROVE  connections_per_bucket'[b] + Cardinality(Counting(b)') = Cardinality(Members(b)') + Cardinality(Leaving(b)')
BY DEF BucketInv

\* A caller that is neither about to count a peer nor about to take one off.
LEMMA QuietKeepsBuckets ==
    ASSUME BucketInv, NEW t \in Thread, UNCHANGED <<peers, connections_per_bucket, raced>>,
           pc[t] \notin {"count", "discount", "drop"}, pc'[t] \notin {"count", "discount", "drop"},
           \A u \in Thread \ {t} : pc'[u] = pc[u] /\ arg'[u] = arg[u]
    PROVE  BucketInv'
<1>1. \A b : Counting(b)' = Counting(b) /\ Leaving(b)' = Leaving(b) /\ Members(b)' = Members(b)
  BY DEF Counting, Leaving, Members, BucketOf
<1> QED
  BY <1>1, SameBucket DEF BucketInv

\* A new peer is a member, and its caller about to count it.
LEMMA InsertKeepsBuckets ==
    ASSUME Configured, PeersTypeOK, BucketInv, NEW t \in Thread, InsertPeer(t) PROVE BucketInv'
<1> DEFINE p == arg[t].peer
           old == peers[p]
           c == BucketOf(t)
<1>1. /\ pc[t] = "insert" /\ pc' = [pc EXCEPT ![t] = "count"] /\ UNCHANGED <<arg, connections_per_bucket>>
      /\ peers' = [peers EXCEPT ![p] = arg[t].address]
      /\ raced' = IF old = NoAddress THEN raced ELSE raced \cup {bucket_for_address(old), c}
  BY DEF InsertPeer, At, MoveTo
<1>2. p \in PeerId /\ arg[t].address \in Address /\ arg[t].address # NoAddress
  BY <1>1 DEF PeersTypeOK, Configured
<1>3. \A u \in Thread : BucketOf(u)' = BucketOf(u)
  BY <1>1 DEF BucketOf
<1>4. /\ pc'[t] = "count" /\ \A u \in Thread \ {t} : pc'[u] = pc[u]
      /\ peers'[p] = arg[t].address /\ \A q \in PeerId \ {p} : peers'[q] = peers[q]
  BY <1>1, <1>2 DEF PeersTypeOK
<1> SUFFICES ASSUME NEW b \in Bucket, b \notin raced'
             PROVE  connections_per_bucket'[b] + Cardinality(Counting(b)') = Cardinality(Members(b)') + Cardinality(Leaving(b)')
  BY DEF BucketInv
<1>5. b \notin raced /\ connections_per_bucket'[b] = connections_per_bucket[b]
  BY <1>1
<1>6. Leaving(b)' = Leaving(b)
  BY <1>1, <1>3, <1>4 DEF Leaving
<1>7. CASE b # c
  <2>1. Counting(b)' = Counting(b)
    BY <1>1, <1>3, <1>4, <1>7 DEF Counting
  <2>2. old # NoAddress => bucket_for_address(old) # b
    BY <1>1
  <2>3. Members(b)' = Members(b)
    BY <1>2, <1>4, <1>7, <2>2 DEF Members, BucketOf
  <2> QED
    BY <1>5, <1>6, <2>1, <2>3, SameBucket
<1>8. CASE b = c
  <2>1. old = NoAddress
    BY <1>1, <1>8
  <2>2. Counting(b)' = Counting(b) \cup {t} /\ t \notin Counting(b)
    BY <1>1, <1>3, <1>4, <1>8 DEF Counting
  <2>3. Members(b)' = Members(b) \cup {p} /\ p \notin Members(b)
    BY <1>2, <1>4, <1>8, <2>1 DEF Members, BucketOf
  <2> HIDE DEF p, old, c
  <2>4. Cardinality(Counting(b)') = Cardinality(Counting(b)) + 1 /\ Cardinality(Members(b)') = Cardinality(Members(b)) + 1
    BY <2>2, <2>3, BucketNumbers, OneMore
  <2>5. connections_per_bucket[b] + Cardinality(Counting(b)) = Cardinality(Members(b)) + Cardinality(Leaving(b))
    BY <1>5 DEF BucketInv
  <2>6. connections_per_bucket[b] \in Nat
    BY DEF PeersTypeOK
  <2>7. Cardinality(Counting(b)) \in Nat /\ Cardinality(Members(b)) \in Nat /\ Cardinality(Leaving(b)) \in Nat
    BY BucketNumbers
  <2> QED
    BY <1>5, <1>6, <2>4, <2>5, <2>6, <2>7
<1> QED
  BY <1>7, <1>8

\* A peer that leaves is no member any more, and its caller about to take it off.
LEMMA RemoveKeepsBuckets ==
    ASSUME Configured, PeersTypeOK, BucketInv, NEW t \in Thread, NEW p \in PeerId, remove_peer(t, p) PROVE BucketInv'
<1> DEFINE c == bucket_for_address(peers[p])
<1>1. /\ pc[t] = "idle" /\ pc' = [pc EXCEPT ![t] = "discount"] /\ peers[p] # NoAddress
      /\ arg' = [arg EXCEPT ![t] = [peer |-> p, address |-> peers[p]]]
      /\ peers' = [peers EXCEPT ![p] = NoAddress] /\ UNCHANGED <<connections_per_bucket, raced>>
  BY DEF remove_peer, MoveTo
<1>2. /\ pc'[t] = "discount" /\ \A u \in Thread \ {t} : pc'[u] = pc[u] /\ arg'[u] = arg[u]
      /\ arg'[t].address = peers[p]
      /\ peers'[p] = NoAddress /\ \A q \in PeerId \ {p} : peers'[q] = peers[q]
  BY <1>1 DEF PeersTypeOK
<1>3. BucketOf(t)' = c /\ \A u \in Thread \ {t} : BucketOf(u)' = BucketOf(u)
  BY <1>2 DEF BucketOf
<1> SUFFICES ASSUME NEW b \in Bucket, b \notin raced
             PROVE  connections_per_bucket'[b] + Cardinality(Counting(b)') = Cardinality(Members(b)') + Cardinality(Leaving(b)')
  BY <1>1 DEF BucketInv
<1>4. connections_per_bucket'[b] = connections_per_bucket[b] /\ Counting(b)' = Counting(b)
  BY <1>1, <1>2, <1>3 DEF Counting
<1>5. CASE b # c
  <2>1. Leaving(b)' = Leaving(b)
    BY <1>1, <1>2, <1>3, <1>5 DEF Leaving
  <2>2. Members(b)' = Members(b)
    BY <1>2, <1>5 DEF Members
  <2> QED
    BY <1>4, <2>1, <2>2, SameBucket
<1>6. CASE b = c
  <2>1. Leaving(b)' = Leaving(b) \cup {t} /\ t \notin Leaving(b)
    BY <1>1, <1>2, <1>3, <1>6 DEF Leaving
  <2>2. Members(b)' = Members(b) \ {p} /\ p \in Members(b)
    BY <1>1, <1>2, <1>6 DEF Members
  <2>3. Cardinality(Leaving(b)') = Cardinality(Leaving(b)) + 1 /\ Cardinality(Members(b)') = Cardinality(Members(b)) - 1
    BY <2>1, <2>2, BucketNumbers, OneMore, OneLess
  <2>4. connections_per_bucket[b] + Cardinality(Counting(b)) = Cardinality(Members(b)) + Cardinality(Leaving(b))
    BY DEF BucketInv
  <2>5. connections_per_bucket[b] \in Nat
    BY DEF PeersTypeOK
  <2>6. Cardinality(Counting(b)) \in Nat /\ Cardinality(Members(b)) \in Nat /\ Cardinality(Leaving(b)) \in Nat
    BY BucketNumbers
  <2> QED
    BY <1>4, <2>3, <2>4, <2>5, <2>6
<1> QED
  BY <1>5, <1>6

\* A caller that counts its peer, or takes it off a bucket no race has hit.
LEMMA CountKeepsBuckets ==
    ASSUME Configured, PeersTypeOK, BucketInv, NEW t \in Thread, CountPeer(t) \/ Discount(t) \/ DropBucket(t)
    PROVE  BucketInv'
<1> DEFINE c == BucketOf(t)
<1>1. /\ UNCHANGED <<peers, arg>> /\ raced \subseteq raced'
      /\ pc[t] \in {"count", "discount", "drop"} /\ c \in Bucket
  <2>1. UNCHANGED <<peers, arg>> /\ raced \subseteq raced' /\ pc[t] \in {"count", "discount", "drop"}
    BY DEF CountPeer, Discount, DropBucket, At
  <2>2. arg[t].address \in Address
    BY <2>1 DEF PeersTypeOK
  <2> QED
    BY <2>1, <2>2 DEF BucketOf, Bucket
<1>2. \A u \in Thread : BucketOf(u)' = BucketOf(u)
  BY <1>1 DEF BucketOf
<1>3. \A b : Members(b)' = Members(b)
  BY <1>1 DEF Members
<1>4. /\ \A b \in Bucket \ {c} : connections_per_bucket'[b] = connections_per_bucket[b]
      /\ \/ /\ pc[t] = "count" /\ pc' = [pc EXCEPT ![t] = "idle"]
            /\ connections_per_bucket'[c] = connections_per_bucket[c] + 1
         \/ c \in raced' /\ pc[t] \in {"discount", "drop"} /\ pc' = [pc EXCEPT ![t] = "idle"]
         \/ /\ pc[t] = "discount" /\ pc' = [pc EXCEPT ![t] = "drop"]
            /\ connections_per_bucket'[c] = connections_per_bucket[c]
         \/ /\ pc[t] \in {"discount", "drop"} /\ pc' = [pc EXCEPT ![t] = "idle"]
            /\ connections_per_bucket'[c] = connections_per_bucket[c] - 1
  <2>1. CASE CountPeer(t)
    BY <1>1, <2>1 DEF CountPeer, At, MoveTo, PeersTypeOK
  <2>2. CASE Discount(t)
    BY <1>1, <2>2 DEF Discount, At, MoveTo, PeersTypeOK
  <2>3. CASE DropBucket(t)
    BY <1>1, <2>3 DEF DropBucket, At, MoveTo, PeersTypeOK
  <2> QED
    BY <2>1, <2>2, <2>3
<1>5. \A u \in Thread \ {t} : pc'[u] = pc[u]
  BY <1>4 DEF PeersTypeOK
<1> HIDE DEF c
<1> SUFFICES ASSUME NEW b \in Bucket, b \notin raced'
             PROVE  connections_per_bucket'[b] + Cardinality(Counting(b)') = Cardinality(Members(b)') + Cardinality(Leaving(b)')
  BY DEF BucketInv
<1>6. b \notin raced
  BY <1>1
<1>7. CASE b # c
  <2>1. Counting(b)' = Counting(b) /\ Leaving(b)' = Leaving(b)
    BY <1>2, <1>5, <1>7 DEF Counting, Leaving, c
  <2>2. connections_per_bucket'[b] = connections_per_bucket[b]
    BY <1>4, <1>7
  <2> QED
    BY <1>3, <1>6, <2>1, <2>2, SameBucket
<1>8. CASE b = c
  <2>1. BucketOf(t) = b
    BY <1>8 DEF c
  <2>2. connections_per_bucket[b] + Cardinality(Counting(b)) = Cardinality(Members(b)) + Cardinality(Leaving(b))
    BY <1>6 DEF BucketInv
  <2>3. connections_per_bucket[b] \in Nat
    BY DEF PeersTypeOK
  <2>4. /\ IsFiniteSet(Counting(b)) /\ IsFiniteSet(Leaving(b))
        /\ Cardinality(Counting(b)) \in Nat /\ Cardinality(Members(b)) \in Nat /\ Cardinality(Leaving(b)) \in Nat
    BY BucketNumbers
  <2>5. CASE pc[t] = "count" /\ pc' = [pc EXCEPT ![t] = "idle"] /\ connections_per_bucket'[b] = connections_per_bucket[b] + 1
    <3>1. pc'[t] = "idle"
      BY <2>5 DEF PeersTypeOK
    <3>2. Counting(b)' = Counting(b) \ {t} /\ t \in Counting(b) /\ Leaving(b)' = Leaving(b)
      BY <1>2, <1>5, <2>1, <2>5, <3>1 DEF Counting, Leaving
    <3>3. Cardinality(Counting(b)') = Cardinality(Counting(b)) - 1
      BY <2>4, <3>2, OneLess
    <3> QED
      BY <1>3, <2>2, <2>3, <2>4, <2>5, <3>2, <3>3
  <2>6. CASE pc[t] = "discount" /\ pc' = [pc EXCEPT ![t] = "drop"] /\ connections_per_bucket'[b] = connections_per_bucket[b]
    <3>1. pc'[t] = "drop"
      BY <2>6 DEF PeersTypeOK
    <3>2. Counting(b)' = Counting(b) /\ Leaving(b)' = Leaving(b)
      BY <1>2, <1>5, <2>1, <2>6, <3>1 DEF Counting, Leaving
    <3> QED
      BY <1>3, <1>6, <2>6, <3>2, SameBucket
  <2>7. CASE /\ pc[t] \in {"discount", "drop"} /\ pc' = [pc EXCEPT ![t] = "idle"]
             /\ connections_per_bucket'[b] = connections_per_bucket[b] - 1
    <3>1. pc'[t] = "idle"
      BY <2>7 DEF PeersTypeOK
    <3>2. Counting(b)' = Counting(b) /\ t \in Leaving(b) /\ Leaving(b)' = Leaving(b) \ {t}
      BY <1>2, <1>5, <2>1, <2>7, <3>1 DEF Counting, Leaving
    <3>3. Cardinality(Leaving(b)') = Cardinality(Leaving(b)) - 1
      BY <2>4, <3>2, OneLess
    <3> QED
      BY <1>3, <2>2, <2>3, <2>4, <2>7, <3>2, <3>3
  <2> QED
    BY <1>4, <1>8, <2>5, <2>6, <2>7
<1> QED
  BY <1>7, <1>8

\* Every step keeps the buckets' balance.
LEMMA NextBuckets == ASSUME Configured, PeersTypeOK, BucketInv, [PeersNext]_peerVars PROVE BucketInv'
<1>1. ASSUME NEW t \in Thread, NEW p \in PeerId, NEW address \in Address, add_peer(t, p, address) PROVE BucketInv'
  <2>1. /\ pc[t] = "idle" /\ pc'[t] = "len" /\ UNCHANGED <<peers, connections_per_bucket, raced>>
        /\ \A u \in Thread \ {t} : pc'[u] = pc[u] /\ arg'[u] = arg[u]
    BY <1>1 DEF add_peer, MoveTo, PeersTypeOK
  <2> QED
    BY <2>1, QuietKeepsBuckets
<1>2. ASSUME NEW t \in Thread, ScanShard(t) \/ CheckLen(t) \/ CheckBucket(t) PROVE BucketInv'
  <2>1. /\ pc[t] \in {"len", "bucket"} /\ UNCHANGED <<arg, peers, connections_per_bucket, raced>>
        /\ UNCHANGED pc \/ \E step \in {"idle", "bucket", "insert"} : pc' = [pc EXCEPT ![t] = step]
    BY <1>2 DEF ScanShard, CheckLen, CheckBucket, At, MoveTo
  <2>2. pc'[t] \in {"len", "idle", "bucket", "insert"} /\ \A u \in Thread \ {t} : pc'[u] = pc[u]
    BY <2>1 DEF PeersTypeOK
  <2> QED
    BY <2>1, <2>2, QuietKeepsBuckets
<1>3. CASE UNCHANGED peerVars
  <2>1. UNCHANGED <<peers, connections_per_bucket, raced, pc, arg>>
    BY <1>3 DEF peerVars
  <2>2. \A b : Counting(b)' = Counting(b) /\ Leaving(b)' = Leaving(b) /\ Members(b)' = Members(b)
    BY <2>1 DEF Counting, Leaving, Members, BucketOf
  <2> QED
    BY <2>1, <2>2, SameBucket DEF BucketInv
<1> QED
  BY <1>1, <1>2, <1>3, InsertKeepsBuckets, RemoveKeepsBuckets, CountKeepsBuckets DEF PeersNext

-----------------------------------------------------------------------------
\* The manager starts without peers.
LEMMA InitPeers == ASSUME Configured, PeersInit PROVE PeerInv
<1>1. PeersTypeOK
  <2>1. PeerIds[1] \in PeerId
    <3>1. Len(PeerIds) \in Nat /\ Len(PeerIds) # 0
      BY DEF Configured
    <3> QED
      BY <3>1, PeerAt
  <2> QED
    BY <2>1 DEF PeersInit, PeersTypeOK
<1>2. SizeInv
  <2>1. Connected = {} /\ Scanning = {} /\ Admitted = {}
    BY DEF PeersInit, Connected, Scanning, Admitted
  <2>2. Cardinality(Thread) \in Nat \ {0} /\ max_peers \in Nat
    BY FiniteParts
  <2>3. Fits({})
    BY <2>1, <2>2, FS_EmptySet DEF Fits
  <2> QED
    BY <2>1, <2>3 DEF SizeInv
<1>3. BucketInv
  <2>1. \A b : Counting(b) = {} /\ Leaving(b) = {} /\ Members(b) = {}
    BY DEF PeersInit, Counting, Leaving, Members
  <2> QED
    BY <2>1, FS_EmptySet DEF PeersInit, BucketInv
<1> QED
  BY <1>1, <1>2, <1>3 DEF PeerInv

(***************************************************************************)
(* However many callers race, at most one peer for each further caller is  *)
(* connected beyond the limit, and between calls a bucket that none of the *)
(* three races has hit counts exactly its peers: those races are the only  *)
(* ways the counts go wrong (peer_manager.rs:44-103).                      *)
(***************************************************************************)
THEOREM PeerCounts == Configured => (PeersSpec => []PeerCountsHold)
<1> SUFFICES ASSUME Configured PROVE PeersSpec => []PeerCountsHold
  OBVIOUS
<1>1. PeersInit => PeerInv
  BY InitPeers
<1>2. PeerInv /\ [PeersNext]_peerVars => PeerInv'
  BY TypeStep, NextSize, NextBuckets DEF PeerInv
<1>3. PeerInv => PeerCountsHold
  <2> SUFFICES ASSUME PeerInv PROVE PeerCountsHold
    OBVIOUS
  <2>1. PeersAreBounded
    <3>1. Fits({})
      BY DEF PeerInv, SizeInv
    <3>2. Cardinality(Connected) \in Nat /\ Cardinality(Admitted) \in Nat /\ Cardinality(Thread) \in Nat /\ max_peers \in Nat
      BY SizesAreNumbers DEF PeerInv
    <3>3. Cardinality(Connected) <= max_peers + Cardinality(Thread) - 1
      BY <3>1, <3>2, FS_EmptySet DEF Fits
    <3> QED
      BY <3>3 DEF PeersAreBounded, Connected
  <2>2. BucketsAreExact
    <3> SUFFICES ASSUME \A t \in Thread : pc[t] = "idle", NEW b \in Bucket \ raced
                 PROVE  connections_per_bucket[b] = Cardinality(Members(b))
      BY DEF BucketsAreExact
    <3>1. Cardinality(Counting(b)) = 0 /\ Cardinality(Leaving(b)) = 0
      <4>1. Counting(b) = {} /\ Leaving(b) = {}
        BY DEF Counting, Leaving
      <4> QED
        BY <4>1, FS_EmptySet
    <3>2. connections_per_bucket[b] \in Nat /\ Cardinality(Members(b)) \in Nat
      BY BucketNumbers DEF PeerInv, PeersTypeOK
    <3> QED
      BY <3>1, <3>2 DEF PeerInv, BucketInv
  <2> QED
    BY <2>1, <2>2 DEF PeerCountsHold
<1> QED
  BY <1>1, <1>2, <1>3, PTL DEF PeersSpec

-----------------------------------------------------------------------------
(***************************************************************************)
(* The rate limiter, for any number of threads and any length of a second. *)
(***************************************************************************)
Limited == IsFiniteSet(Thread) /\ max_tps \in Nat /\ Second \in Nat \ {0} /\ MaxTicks \in Nat

\* Every variable has its type, and nothing is of a later instant than the clock's.
LimiterTypeOK ==
    /\ time \in Instant /\ window \in [Instant -> Nat] /\ accepted \in [Instant -> Nat]
    /\ call \in [Thread -> [op : {"idle", "check", "cleanup"}, now : Instant]]
    /\ \A t \in Thread : call[t].now <= time
    /\ \A i \in Instant : i > time => accepted[i] = 0
    /\ Total(window, Instant) <= max_tps

\* The instants since one of them, and the calls that read the clock before it.
Since(from) == {i \in Instant : from <= i}
Late(from) == {t \in Thread : call[t].op # "idle" /\ call[t].now < from}

(***************************************************************************)
(* Before a second is over, a transaction let through in it is in the      *)
(* window with an instant of this second, or took one of the calls that    *)
(* were late when the second began.                                        *)
(***************************************************************************)
SecondInv ==
    \A from \in 0 .. time : time < from + Second =>
        Total(accepted, Since(from)) + Cardinality(Late(from))
            <= Total(window, Since(from)) + Cardinality(Thread)

LimiterInv == LimiterTypeOK /\ SecondInv /\ RateIsBounded

\* Parts of the instants and of the threads are finite.
LEMMA FiniteInstants ==
    ASSUME Limited
    PROVE  /\ IsFiniteSet(Instant) /\ Cardinality(Thread) \in Nat
           /\ \A S \in SUBSET Instant : IsFiniteSet(S)
           /\ \A T \in SUBSET Thread : IsFiniteSet(T) /\ Cardinality(T) \in Nat /\ Cardinality(T) <= Cardinality(Thread)
  <1>1. IsFiniteSet(Instant)
    BY FS_Interval DEF Limited, Instant
  <1>2. \A S \in SUBSET Instant : IsFiniteSet(S)
    BY <1>1, FS_Subset
  <1>3. IsFiniteSet(Thread) /\ Cardinality(Thread) \in Nat
    BY FS_CardinalityType DEF Limited
  <1>4. ASSUME NEW T \in SUBSET Thread
        PROVE  IsFiniteSet(T) /\ Cardinality(T) \in Nat /\ Cardinality(T) <= Cardinality(Thread)
    BY <1>3, FS_Subset, FS_CardinalityType
  <1>5. QED
    BY <1>1, <1>2, <1>3, <1>4

\* The totals are numbers.
LEMMA InstantTotals ==
    ASSUME Limited, NEW f \in [Instant -> Nat], NEW S \in SUBSET Instant
    PROVE  Total(f, S) \in Nat
  <1>1. IsFiniteSet(S) /\ \A i \in S : f[i] \in Nat
    BY FiniteInstants
  <1>2. QED
    BY <1>1, UnitsFinite

\* What is left of the window holds no more, and all of a second that is not over.
LEMMA RecentFacts ==
    ASSUME Limited, LimiterTypeOK, NEW t \in Thread, NEW r, r = Recent(call[t].now)
    PROVE  /\ r \in [Instant -> Nat] /\ Total(r, Instant) <= Total(window, Instant)
           /\ \A from \in 0 .. time : time < from + Second => Total(r, Since(from)) = Total(window, Since(from))
  <1>1. call[t].now \in Instant /\ call[t].now <= time /\ time \in Nat /\ call[t].now \in Nat
    BY DEF LimiterTypeOK, Instant
  <1>2. r \in [Instant -> Nat] /\ \A i \in Instant : r[i] \in {0, window[i]} /\ r[i] <= window[i]
    BY <1>1 DEF Recent, LimiterTypeOK
  <1>3. Total(r, Instant) <= Total(window, Instant)
    <2>1. IsFiniteSet(Instant) /\ \A i \in Instant : r[i] \in Nat /\ window[i] \in Nat /\ r[i] <= window[i]
      BY <1>2, FiniteInstants DEF LimiterTypeOK
    <2>2. Instant \in SUBSET Instant
      OBVIOUS
    <2> QED
      BY ONLY <2>1, <2>2, TotalBound
  <1>4. ASSUME NEW from \in 0 .. time, time < from + Second PROVE Total(r, Since(from)) = Total(window, Since(from))
    <2>1. \A i \in Since(from) : r[i] = window[i]
      BY <1>1, <1>4 DEF Since, Recent, Limited, Instant
    <2> QED
      BY ONLY <2>1, TotalSame
  <1>5. QED
    BY <1>2, <1>3, <1>4

\* A call that returns is late no more.
LEMMA LateLess ==
    ASSUME Limited, LimiterTypeOK, NEW t \in Thread, call' = [call EXCEPT ![t] = NoCall], NEW from \in Nat
    PROVE  /\ Late(from)' = Late(from) \ {t} /\ Cardinality(Late(from)') \in Nat /\ Cardinality(Late(from)) \in Nat
           /\ Cardinality(Late(from)') <= Cardinality(Late(from))
           /\ t \in Late(from) => Cardinality(Late(from)') = Cardinality(Late(from)) - 1
  <1>1. Late(from)' = Late(from) \ {t}
    BY DEF Late, LimiterTypeOK, NoCall
  <1>2. IsFiniteSet(Late(from)) /\ Cardinality(Late(from)) \in Nat
    BY FiniteInstants DEF Late
  <1>3. IsFiniteSet(Late(from) \ {t}) /\ Cardinality(Late(from) \ {t})
            = IF t \in Late(from) THEN Cardinality(Late(from)) - 1 ELSE Cardinality(Late(from))
    BY <1>2, FS_RemoveElement
  <1>4. Cardinality(Late(from) \ {t}) \in Nat
    BY <1>3, FS_CardinalityType
  <1>5. QED
    BY <1>1, <1>2, <1>3, <1>4

\* A refused check and a clean-up only filter the window.
LEMMA FilterKeepsRate ==
    ASSUME Limited, LimiterInv, NEW t \in Thread, window' = Recent(call[t].now),
           call' = [call EXCEPT ![t] = NoCall], UNCHANGED <<time, accepted>>
    PROVE  LimiterInv'
  <1>1. LimiterTypeOK /\ SecondInv /\ RateIsBounded
    BY DEF LimiterInv
  <1>2. /\ window' \in [Instant -> Nat] /\ Total(window', Instant) <= Total(window, Instant)
        /\ \A from \in 0 .. time : time < from + Second =>
               Total(window', Since(from)) = Total(window, Since(from))
    BY <1>1, RecentFacts
  <1>3. Total(window', Instant) \in Nat /\ Total(window, Instant) \in Nat
    BY <1>1, <1>2, InstantTotals DEF LimiterTypeOK
  <1>4. call' \in [Thread -> [op : {"idle", "check", "cleanup"}, now : Instant]] /\ \A u \in Thread : call'[u].now <= time
    BY <1>1 DEF LimiterTypeOK, NoCall, Instant, Limited
  <1>5. LimiterTypeOK'
    BY <1>1, <1>2, <1>3, <1>4 DEF LimiterTypeOK, Limited
  <1>6. SecondInv'
    <2> SUFFICES ASSUME NEW from \in 0 .. time, time < from + Second
                 PROVE  Total(accepted, Since(from)) + Cardinality(Late(from)')
                            <= Total(window', Since(from)) + Cardinality(Thread)
      BY DEF SecondInv, Since
    <2>1. Total(accepted, Since(from)) + Cardinality(Late(from)) <= Total(window, Since(from)) + Cardinality(Thread)
      BY <1>1 DEF SecondInv
    <2>2. from \in Nat /\ Total(window', Since(from)) = Total(window, Since(from))
      BY <1>1, <1>2 DEF LimiterTypeOK, Instant
    <2>3. /\ Cardinality(Late(from)') \in Nat /\ Cardinality(Late(from)) \in Nat
          /\ Cardinality(Late(from)') <= Cardinality(Late(from))
      BY <1>1, <2>2, LateLess
    <2>4. Total(accepted, Since(from)) \in Nat /\ Total(window, Since(from)) \in Nat /\ Cardinality(Thread) \in Nat
      BY <1>1, InstantTotals, FiniteInstants DEF LimiterTypeOK, Since
    <2> QED
      BY <2>1, <2>2, <2>3, <2>4
  <1>7. RateIsBounded'
    BY <1>1 DEF RateIsBounded, SecondFrom
  <1>8. QED
    BY <1>5, <1>6, <1>7 DEF LimiterInv

\* One more at an instant is one more in the sets of instants that it is in.
LEMMA OneMoreAt ==
    ASSUME Limited, NEW f \in [Instant -> Nat], NEW x \in Instant, NEW S \in SUBSET Instant
    PROVE  Total([f EXCEPT ![x] = f[x] + 1], S) = (IF x \in S THEN Total(f, S) + 1 ELSE Total(f, S))
  <1>1. PICK g \in [Instant -> Nat] : g = [f EXCEPT ![x] = f[x] + 1]
    <2>1. f[x] + 1 \in Nat
      OBVIOUS
    <2>2. [f EXCEPT ![x] = f[x] + 1] \in [Instant -> Nat]
      BY <2>1
    <2> QED
      BY ONLY <2>2, Zenon
  <1>2. IsFiniteSet(S) /\ Total(f, S) \in Nat /\ Total(g, S) \in Nat
    BY FiniteInstants, InstantTotals
  <1>3. CASE x \in S
    <2>1. /\ \A y \in S : f[y] \in Nat /\ g[y] \in Nat
          /\ \A y \in S \ {x} : g[y] = f[y]
          /\ g[x] = f[x] + 1 /\ f[x] \in Nat
      BY <1>1
    <2>2. Total(g, S) + f[x] = Total(f, S) + g[x]
      BY ONLY <1>2, <1>3, <2>1, TotalUpdate
    <2> QED
      BY <1>1, <1>2, <1>3, <2>1, <2>2
  <1>4. CASE x \notin S
    <2>1. \A y \in S : g[y] = f[y]
      BY <1>1, <1>4
    <2>2. Total(g, S) = Total(f, S)
      BY ONLY <2>1, TotalSame
    <2> QED
      BY <1>1, <1>4, <2>2
  <1>5. QED
    BY <1>3, <1>4

\* A transaction that is let through is in the window, or its call was late.
LEMMA AcceptKeepsRate ==
    ASSUME Limited, LimiterInv, NEW t \in Thread, NEW r, r = Recent(call[t].now), call[t].op = "check",
           Total(r, Instant) < max_tps, window' = [r EXCEPT ![call[t].now] = r[call[t].now] + 1],
           accepted' = [accepted EXCEPT ![time] = accepted[time] + 1],
           call' = [call EXCEPT ![t] = NoCall], UNCHANGED time
    PROVE  LimiterInv'
  <1>1. LimiterTypeOK /\ SecondInv /\ RateIsBounded
    BY DEF LimiterInv
  <1>2. PICK now \in Instant : now = call[t].now /\ now <= time
    BY <1>1 DEF LimiterTypeOK
  <1>3. /\ r \in [Instant -> Nat]
        /\ \A from \in 0 .. time : time < from + Second => Total(r, Since(from)) = Total(window, Since(from))
    BY <1>1, RecentFacts
  <1>4. /\ time \in Instant /\ time \in Nat /\ accepted \in [Instant -> Nat] /\ window \in [Instant -> Nat]
        /\ accepted[time] \in Nat /\ r[now] \in Nat
    <2>1. time \in Instant /\ accepted \in [Instant -> Nat] /\ window \in [Instant -> Nat]
      BY <1>1 DEF LimiterTypeOK
    <2>2. time \in Nat
      BY <2>1 DEF Instant
    <2>3. accepted[time] \in Nat /\ r[now] \in Nat
      BY <1>2, <1>3, <2>1
    <2> QED
      BY <2>1, <2>2, <2>3
  <1>5. window' = [r EXCEPT ![now] = r[now] + 1] /\ window' \in [Instant -> Nat] /\ accepted' \in [Instant -> Nat]
    BY <1>2, <1>3, <1>4
  <1>6. \A S \in SUBSET Instant : /\ Total(window', S) = (IF now \in S THEN Total(r, S) + 1 ELSE Total(r, S))
                                  /\ Total(accepted', S) = (IF time \in S THEN Total(accepted, S) + 1 ELSE Total(accepted, S))
    <2> SUFFICES ASSUME NEW S \in SUBSET Instant
                 PROVE  /\ Total(window', S) = (IF now \in S THEN Total(r, S) + 1 ELSE Total(r, S))
                        /\ Total(accepted', S) = (IF time \in S THEN Total(accepted, S) + 1 ELSE Total(accepted, S))
      OBVIOUS
    <2>1. Total(window', S) = (IF now \in S THEN Total(r, S) + 1 ELSE Total(r, S))
      <3>1. Total([r EXCEPT ![now] = r[now] + 1], S) = (IF now \in S THEN Total(r, S) + 1 ELSE Total(r, S))
        BY <1>3, OneMoreAt
      <3> QED
        BY <1>5, <3>1
    <2>2. Total(accepted', S) = (IF time \in S THEN Total(accepted, S) + 1 ELSE Total(accepted, S))
      <3>1. Total([accepted EXCEPT ![time] = accepted[time] + 1], S)
                = (IF time \in S THEN Total(accepted, S) + 1 ELSE Total(accepted, S))
        BY <1>4, OneMoreAt
      <3> QED
        BY <3>1
    <2> QED
      BY <2>1, <2>2
  <1>7. LimiterTypeOK'
    <2>1. call' \in [Thread -> [op : {"idle", "check", "cleanup"}, now : Instant]] /\ \A u \in Thread : call'[u].now <= time
      BY <1>1 DEF LimiterTypeOK, NoCall, Instant, Limited
    <2>2. \A i \in Instant : i > time => accepted'[i] = 0
      BY <1>1, <1>4 DEF LimiterTypeOK, Instant
    <2>3. Total(window', Instant) <= max_tps
      <3>1. Total(r, Instant) \in Nat /\ Total(window', Instant) = Total(r, Instant) + 1
        BY <1>2, <1>3, <1>6, InstantTotals
      <3> QED
        BY <3>1 DEF Limited
    <2> QED
      BY <1>1, <1>5, <2>1, <2>2, <2>3 DEF LimiterTypeOK
  <1>8. ASSUME NEW from \in 0 .. time, time < from + Second
        PROVE  Total(accepted', Since(from)) + Cardinality(Late(from)')
                   <= Total(window', Since(from)) + Cardinality(Thread)
    <2>1. Total(accepted, Since(from)) + Cardinality(Late(from)) <= Total(window, Since(from)) + Cardinality(Thread)
      BY <1>1, <1>8 DEF SecondInv
    <2>2. from \in Nat /\ time \in Since(from) /\ Since(from) \in SUBSET Instant
          /\ (now \in Since(from) <=> ~(now < from))
      BY <1>2, <1>4 DEF Since, Instant
    <2>3. /\ Cardinality(Late(from)') \in Nat /\ Cardinality(Late(from)) \in Nat
          /\ Cardinality(Late(from)') <= Cardinality(Late(from))
          /\ t \in Late(from) => Cardinality(Late(from)') = Cardinality(Late(from)) - 1
      BY <1>1, <2>2, LateLess
    <2>4. Total(accepted, Since(from)) \in Nat /\ Total(window, Since(from)) \in Nat /\ Cardinality(Thread) \in Nat
      BY <1>4, <2>2, InstantTotals, FiniteInstants
    <2>5. Total(accepted', Since(from)) = Total(accepted, Since(from)) + 1
      BY <1>6, <2>2
    <2>6. Total(r, Since(from)) = Total(window, Since(from))
      BY <1>3, <1>8
    <2>7. CASE now < from
      <3>1. t \in Late(from)
        BY <1>2, <2>7 DEF Late
      <3>2. Total(window', Since(from)) = Total(window, Since(from))
        BY <1>6, <2>2, <2>6, <2>7
      <3> QED
        BY <2>1, <2>3, <2>4, <2>5, <3>1, <3>2
    <2>8. CASE ~(now < from)
      <3>1. Total(window', Since(from)) = Total(window, Since(from)) + 1
        BY <1>6, <2>2, <2>6, <2>8
      <3> QED
        BY <2>1, <2>3, <2>4, <2>5, <3>1
    <2> QED
      BY <2>7, <2>8
  <1>9. SecondInv'
    BY <1>8 DEF SecondInv, Since
  <1>10. RateIsBounded'
    <2> SUFFICES ASSUME NEW from \in 0 .. time
                 PROVE  Total(accepted', SecondFrom(from)) <= max_tps + Cardinality(Thread)
      BY DEF RateIsBounded, SecondFrom
    <2>1. from \in Nat /\ Since(from) \in SUBSET Instant /\ SecondFrom(from) \in SUBSET Since(from)
          /\ SecondFrom(from) \in SUBSET Instant
      BY <1>4 DEF Since, SecondFrom, Instant
    <2>2. CASE time < from + Second
      <3>1. IsFiniteSet(Since(from)) /\ \A y \in Since(from) : accepted'[y] \in Nat /\ accepted'[y] <= accepted'[y]
        BY <1>5, <2>1, FiniteInstants
      <3>2. Total(accepted', SecondFrom(from)) <= Total(accepted', Since(from))
        BY ONLY <2>1, <3>1, TotalBound
      <3>3. Total(window', Since(from)) <= Total(window', Instant)
        <4>1. IsFiniteSet(Instant) /\ \A y \in Instant : window'[y] \in Nat /\ window'[y] <= window'[y]
          BY <1>5, FiniteInstants
        <4> QED
          BY ONLY <2>1, <4>1, TotalBound
      <3>4. /\ Total(accepted', SecondFrom(from)) \in Nat /\ Total(accepted', Since(from)) \in Nat
            /\ Total(window', Since(from)) \in Nat /\ Total(window', Instant) \in Nat
        BY <1>5, <2>1, InstantTotals
      <3>5. Cardinality(Late(from)') \in Nat /\ Cardinality(Thread) \in Nat
        BY <1>1, <2>1, LateLess, FiniteInstants
      <3>6. Total(window', Instant) <= max_tps
        BY <1>7 DEF LimiterTypeOK
      <3>7. Total(accepted', Since(from)) + Cardinality(Late(from)') <= Total(window', Since(from)) + Cardinality(Thread)
        BY <1>8, <2>2
      <3>8. max_tps \in Nat
        BY DEF Limited
      <3> QED
        BY ONLY <3>2, <3>3, <3>4, <3>5, <3>6, <3>7, <3>8
    <2>3. CASE ~(time < from + Second)
      <3>1. time \notin SecondFrom(from)
        BY <2>3 DEF SecondFrom
      <3>2. Total(accepted', SecondFrom(from)) = Total(accepted, SecondFrom(from))
        BY <1>6, <2>1, <3>1
      <3> QED
        BY <1>1, <3>2 DEF RateIsBounded
    <2> QED
      BY <2>2, <2>3
  <1>11. QED
    BY <1>7, <1>9, <1>10 DEF LimiterInv

\* A new second begins with nothing let through, and with a late call for each thread at most.
LEMMA TickKeepsRate == ASSUME Limited, LimiterInv, PassTick PROVE LimiterInv'
  <1>1. LimiterTypeOK /\ SecondInv /\ RateIsBounded
    BY DEF LimiterInv
  <1>2. time < MaxTicks /\ time' = time + 1 /\ window' = window /\ call' = call /\ accepted' = accepted
    BY DEF PassTick
  <1>3. time \in Nat /\ time' \in Nat /\ time' \in Instant /\ MaxTicks \in Nat
    BY <1>1, <1>2 DEF LimiterTypeOK, Instant, Limited
  <1>4. LimiterTypeOK'
    <2>1. \A t \in Thread : call[t].now \in Nat /\ call[t].now <= time
      <3>1. \A t \in Thread : call[t].now \in Instant /\ call[t].now <= time
        BY <1>1 DEF LimiterTypeOK
      <3>2. \A i \in Instant : i \in Nat
        BY DEF Instant
      <3> QED
        BY <3>1, <3>2
    <2>2. \A t \in Thread : call'[t].now <= time'
      BY <1>2, <1>3, <2>1
    <2>3. \A i \in Instant : i > time' => accepted'[i] = 0
      BY <1>1, <1>2, <1>3 DEF LimiterTypeOK, Instant
    <2> QED
      BY <1>1, <1>2, <1>3, <2>2, <2>3 DEF LimiterTypeOK
  <1>5. \A i \in Since(time') : accepted[i] = 0
    BY <1>1, <1>2, <1>3 DEF Since, LimiterTypeOK, Instant
  <1>6. SecondInv'
    <2> SUFFICES ASSUME NEW from \in 0 .. time', time' < from + Second
                 PROVE  Total(accepted, Since(from)) + Cardinality(Late(from))
                            <= Total(window, Since(from)) + Cardinality(Thread)
      BY <1>2 DEF SecondInv, Since, Late
    <2>1. CASE from = time'
      <3>1. Total(accepted, Since(from)) = 0
        BY <1>5, <2>1, TotalZero
      <3>2. Cardinality(Late(from)) \in Nat /\ Cardinality(Late(from)) <= Cardinality(Thread) /\ Cardinality(Thread) \in Nat
        BY FiniteInstants DEF Late
      <3>3. Total(window, Since(from)) \in Nat
        BY <1>1, InstantTotals DEF LimiterTypeOK, Since
      <3> QED
        BY <3>1, <3>2, <3>3
    <2>2. CASE from # time'
      <3>1. from \in 0 .. time /\ time < from + Second
        BY <1>2, <1>3, <2>2 DEF Limited
      <3> QED
        BY <1>1, <3>1 DEF SecondInv
    <2> QED
      BY <2>1, <2>2
  <1>7. RateIsBounded'
    <2> SUFFICES ASSUME NEW from \in 0 .. time'
                 PROVE  Total(accepted, SecondFrom(from)) <= max_tps + Cardinality(Thread)
      BY <1>2 DEF RateIsBounded, SecondFrom
    <2>1. CASE from = time'
      <3>1. \A i \in SecondFrom(from) : accepted[i] = 0
        BY <1>5, <2>1 DEF SecondFrom, Since
      <3>2. Total(accepted, SecondFrom(from)) = 0
        BY <3>1, TotalZero
      <3> QED
        BY <3>2, FiniteInstants DEF Limited
    <2>2. CASE from # time'
      <3>1. from \in 0 .. time
        BY <1>2, <1>3, <2>2
      <3> QED
        BY <1>1, <3>1 DEF RateIsBounded
    <2> QED
      BY <2>1, <2>2
  <1>8. QED
    BY <1>4, <1>6, <1>7 DEF LimiterInv

\* A call that reads the clock is not late.
LEMMA ReadClockKeepsRate ==
    ASSUME Limited, LimiterInv, NEW t \in Thread, NEW op \in {"check", "cleanup"}, ReadClock(t, op)
    PROVE  LimiterInv'
  <1>1. LimiterTypeOK /\ SecondInv /\ RateIsBounded
    BY DEF LimiterInv
  <1>2. /\ call[t] = NoCall /\ call' = [call EXCEPT ![t] = [op |-> op, now |-> time]]
        /\ time' = time /\ window' = window /\ accepted' = accepted
    BY DEF ReadClock
  <1>3. LimiterTypeOK'
    <2>1. time \in Instant /\ time \in Nat
      BY <1>1 DEF LimiterTypeOK, Instant
    <2>2. call' \in [Thread -> [op : {"idle", "check", "cleanup"}, now : Instant]]
      BY <1>1, <1>2, <2>1 DEF LimiterTypeOK
    <2>3. \A u \in Thread : call'[u].now <= time
      BY <1>1, <1>2, <2>1 DEF LimiterTypeOK
    <2> QED
      BY <1>1, <1>2, <2>2, <2>3 DEF LimiterTypeOK
  <1>4. ASSUME NEW from \in 0 .. time PROVE Late(from)' = Late(from)
    <2>1. ~(time < from) /\ call[t].op = "idle" /\ call'[t].now = time
      BY <1>1, <1>2 DEF LimiterTypeOK, NoCall, Instant
    <2> QED
      BY <1>1, <1>2, <2>1 DEF Late, LimiterTypeOK
  <1>5. SecondInv'
    BY <1>1, <1>2, <1>4 DEF SecondInv, Since
  <1>6. RateIsBounded'
    BY <1>1, <1>2 DEF RateIsBounded, SecondFrom
  <1>7. QED
    BY <1>3, <1>5, <1>6 DEF LimiterInv

\* At the start nothing was let through.
LEMMA InitRate == ASSUME Limited, LimiterInit PROVE LimiterInv
  <1>1. /\ time = 0 /\ 0 \in Instant /\ window \in [Instant -> Nat] /\ accepted \in [Instant -> Nat]
        /\ \A i \in Instant : window[i] = 0 /\ accepted[i] = 0
        /\ \A t \in Thread : call[t] = NoCall /\ call[t].op = "idle"
        /\ call \in [Thread -> [op : {"idle", "check", "cleanup"}, now : Instant]]
        /\ \A t \in Thread : call[t].now = 0
    BY DEF LimiterInit, NoCall, Limited, Instant
  <1>2. \A S \in SUBSET Instant : Total(accepted, S) = 0 /\ Total(window, S) = 0
    BY <1>1, TotalZero
  <1>3. LimiterTypeOK
    BY <1>1, <1>2 DEF LimiterTypeOK, Limited
  <1>4. SecondInv
    <2> SUFFICES ASSUME NEW from \in 0 .. time
                 PROVE  Total(accepted, Since(from)) + Cardinality(Late(from))
                            <= Total(window, Since(from)) + Cardinality(Thread)
      BY DEF SecondInv
    <2>1. Total(accepted, Since(from)) = 0 /\ Total(window, Since(from)) = 0
      BY <1>2 DEF Since
    <2>2. Cardinality(Late(from)) \in Nat /\ Cardinality(Late(from)) <= Cardinality(Thread) /\ Cardinality(Thread) \in Nat
      BY FiniteInstants DEF Late
    <2> QED
      BY <2>1, <2>2
  <1>5. RateIsBounded
    <2>1. \A from \in 0 .. time : Total(accepted, SecondFrom(from)) = 0
      BY <1>2 DEF SecondFrom
    <2> QED
      BY <2>1, FiniteInstants DEF RateIsBounded, Limited
  <1>6. QED
    BY <1>3, <1>4, <1>5 DEF LimiterInv

(***************************************************************************)
(* However many threads check, and however long they are held up between   *)
(* reading the clock and locking the window, a sender gets at most max_tps *)
(* transactions and one per thread through in any second                   *)
(* (rate_limiter.rs:26-53).                                                *)
(***************************************************************************)
THEOREM RateBounded == Limited => (LimiterSpec => []RateIsBounded)
  <1> SUFFICES ASSUME Limited PROVE LimiterSpec => []RateIsBounded
    OBVIOUS
  <1>1. LimiterInit => LimiterInv
    BY InitRate
  <1>2. LimiterInv /\ [LimiterNext]_limiterVars => LimiterInv'
    <2> SUFFICES ASSUME LimiterInv, [LimiterNext]_limiterVars PROVE LimiterInv'
      OBVIOUS
    <2>1. ASSUME NEW t \in Thread, check(t) PROVE LimiterInv'
      <3> DEFINE r == Recent(call[t].now)
      <3>1. CASE window' = r /\ UNCHANGED accepted
        BY <2>1, <3>1, FilterKeepsRate DEF check
      <3>2. CASE Total(r, Instant) < max_tps /\ window' = [r EXCEPT ![call[t].now] = r[call[t].now] + 1]
                 /\ accepted' = [accepted EXCEPT ![time] = accepted[time] + 1]
        <4>1. r = Recent(call[t].now) /\ call[t].op = "check" /\ call' = [call EXCEPT ![t] = NoCall] /\ UNCHANGED time
          BY <2>1 DEF check
        <4> HIDE DEF r
        <4> QED
          BY <3>2, <4>1, AcceptKeepsRate
      <3> QED
        BY <2>1, <3>1, <3>2 DEF check
    <2>2. ASSUME NEW t \in Thread, cleanup(t) PROVE LimiterInv'
      BY <2>2, FilterKeepsRate DEF cleanup
    <2>3. CASE UNCHANGED limiterVars
      BY <2>3 DEF limiterVars, LimiterInv, LimiterTypeOK, SecondInv, RateIsBounded, Since, SecondFrom, Late
    <2> QED
      BY <2>1, <2>2, <2>3, TickKeepsRate, ReadClockKeepsRate DEF LimiterNext
  <1>3. LimiterInv => RateIsBounded
    BY DEF LimiterInv
  <1>4. QED
    BY <1>1, <1>2, <1>3, PTL DEF LimiterSpec

-----------------------------------------------------------------------------
(***************************************************************************)
(* Stakes and snapshots, for any number of threads, addresses and amounts. *)
(***************************************************************************)
Stakeable ==
    /\ IsFiniteSet(Thread) /\ Amounts \subseteq Nat /\ LockTime \in Nat /\ LockEpochs \in Nat
    /\ N \in Nat \ {0} /\ DOMAIN Addresses = 1 .. N

UnstakeRequest == [amount : Nat, unlock_time_ms : Nat, unlock_epoch : Nat]
NumberMaps == {"balances", "nonces", "stakes"}

LedgerOK(L) ==
    /\ L = [m \in MapNames |-> L[m]]
    /\ \A m \in MapNames : DOMAIN L[m] \subseteq Addr /\ L[m] = [a \in DOMAIN L[m] |-> L[m][a]]
    /\ \A m \in NumberMaps : \A a \in DOMAIN L[m] : L[m][a] \in Nat
    /\ \A a \in DOMAIN L["unstake_requests"] : L["unstake_requests"][a] \in Seq(UnstakeRequest)

PushTask == [op : {"push"}, addr : Addr, amount : Nat, time : Nat, epoch : Nat]
CreditTask == [op : {"credit"}, addr : Addr, amount : Nat]

StakingTypeOK ==
    /\ LedgerOK(ledger) /\ LedgerOK(data) /\ LedgerOK(copy)
    /\ tasks \in [Thread -> {NoTask} \cup PushTask \cup CreditTask]
    /\ clock \in [time : Nat, epoch : Nat] /\ staked \in [Addr -> Nat]
    /\ begun \in [staked : [Addr -> Nat], settled : BOOLEAN] /\ sound \in BOOLEAN

\* A list's requests have amounts that can be added up.
LEMMA ListFacts ==
    ASSUME NEW reqs \in Seq(UnstakeRequest)
    PROVE  /\ Len(reqs) \in Nat /\ DOMAIN reqs = 1 .. Len(reqs) /\ IsFiniteSet(DOMAIN reqs)
           /\ \A i \in DOMAIN reqs : reqs[i] \in UnstakeRequest /\ AmountsOf(reqs)[i] = reqs[i].amount
                                     /\ AmountsOf(reqs)[i] \in Nat
           /\ \A P \in SUBSET DOMAIN reqs : IsFiniteSet(P) /\ Total(AmountsOf(reqs), P) \in Nat
           /\ SumOf(reqs) \in Nat
  <1>1. Len(reqs) \in Nat /\ DOMAIN reqs = 1 .. Len(reqs) /\ reqs \in [1 .. Len(reqs) -> UnstakeRequest]
    BY LenProperties
  <1>2. IsFiniteSet(DOMAIN reqs)
    BY <1>1, FS_Interval
  <1>3. \A i \in DOMAIN reqs : reqs[i] \in UnstakeRequest /\ AmountsOf(reqs)[i] = reqs[i].amount
                               /\ AmountsOf(reqs)[i] \in Nat
    BY <1>1 DEF AmountsOf, UnstakeRequest
  <1>4. ASSUME NEW P \in SUBSET DOMAIN reqs PROVE IsFiniteSet(P) /\ Total(AmountsOf(reqs), P) \in Nat
    <2>1. IsFiniteSet(P) /\ \A i \in P : AmountsOf(reqs)[i] \in Nat
      BY <1>2, <1>3, FS_Subset
    <2> QED
      BY <2>1, UnitsFinite
  <1>5. QED
    BY <1>1, <1>2, <1>3, <1>4 DEF SumOf

\* An empty list holds nothing.
LEMMA SumOfEmpty == <<>> \in Seq(UnstakeRequest) /\ SumOf(<<>>) = 0
  <1>1. <<>> \in Seq(UnstakeRequest) /\ Len(<<>>) = 0
    BY EmptySeq
  <1>2. DOMAIN <<>> = {}
    OBVIOUS
  <1>3. QED
    BY <1>1, <1>2, TotalEmpty DEF SumOf

\* A request that is pushed adds its amount.
LEMMA SumOfPushed ==
    ASSUME NEW reqs \in Seq(UnstakeRequest), NEW r \in UnstakeRequest, NEW more, more = Append(reqs, r)
    PROVE  more \in Seq(UnstakeRequest) /\ SumOf(more) = SumOf(reqs) + r.amount
  <1>1. /\ more \in Seq(UnstakeRequest) /\ Len(more) = Len(reqs) + 1
        /\ \A i \in 1 .. Len(reqs) : more[i] = reqs[i]
        /\ more[Len(reqs) + 1] = r
    BY AppendProperties
  <1>2. PICK n \in Nat : n = Len(reqs)
    BY ListFacts
  <1>3. DOMAIN reqs = 1 .. n /\ DOMAIN more = 1 .. n + 1 /\ IsFiniteSet(1 .. n)
    BY <1>1, <1>2, ListFacts
  <1>4. DOMAIN more = DOMAIN reqs \cup {n + 1} /\ n + 1 \notin DOMAIN reqs
    BY <1>3
  <1>5. /\ \A i \in DOMAIN reqs : AmountsOf(more)[i] = AmountsOf(reqs)[i] /\ AmountsOf(more)[i] \in Nat
        /\ AmountsOf(more)[n + 1] = r.amount /\ r.amount \in Nat
    <2>1. \A i \in DOMAIN more : AmountsOf(more)[i] = more[i].amount
      BY <1>1, ListFacts
    <2>2. \A i \in DOMAIN reqs : AmountsOf(reqs)[i] = reqs[i].amount /\ AmountsOf(reqs)[i] \in Nat
      BY ListFacts
    <2>3. \A i \in DOMAIN reqs : more[i] = reqs[i] /\ i \in DOMAIN more
      BY <1>1, <1>2, <1>3, <1>4
    <2>4. more[n + 1] = r /\ n + 1 \in DOMAIN more /\ r.amount \in Nat
      BY <1>1, <1>2, <1>4 DEF UnstakeRequest
    <2> QED
      BY <2>1, <2>2, <2>3, <2>4
  <1>6. Total(AmountsOf(more), DOMAIN reqs) = Total(AmountsOf(reqs), DOMAIN reqs)
    BY <1>5, TotalSame
  <1>7. Total(AmountsOf(more), DOMAIN reqs \cup {n + 1}) = Total(AmountsOf(more), DOMAIN reqs) + AmountsOf(more)[n + 1]
    <2>1. /\ IsFiniteSet(DOMAIN reqs) /\ n + 1 \notin DOMAIN reqs /\ AmountsOf(more)[n + 1] \in Nat
          /\ \A y \in DOMAIN reqs : AmountsOf(more)[y] \in Nat
      BY <1>3, <1>4, <1>5
    <2> QED
      BY ONLY <2>1, TotalAdd
  <1>8. QED
    BY <1>1, <1>4, <1>5, <1>6, <1>7 DEF SumOf

\* What is taken out of a list and what stays add up to the list.
LEMMA SumOfRetained ==
    ASSUME NEW reqs \in Seq(UnstakeRequest), NEW U \in SUBSET DOMAIN reqs, NEW rest \in Retained(reqs, DOMAIN reqs \ U)
    PROVE  rest \in Seq(UnstakeRequest) /\ SumOf(rest) + Total(AmountsOf(reqs), U) = SumOf(reqs)
  <1>1. PICK P \in SUBSET DOMAIN reqs : P = DOMAIN reqs \ U
    OBVIOUS
  <1>2. PICK f \in InOrder(P) : rest = [i \in DOMAIN f |-> reqs[f[i]]]
    BY <1>1 DEF Retained
  <1>3. IsFiniteSet(P) /\ IsFiniteSet(U) /\ Total(AmountsOf(reqs), P) \in Nat /\ Total(AmountsOf(reqs), U) \in Nat
    BY ListFacts
  <1>4. PICK n \in Nat : n = Cardinality(P)
    BY <1>3, FS_CardinalityType
  <1>5. f \in [1 .. n -> P] /\ \A i, j \in 1 .. n : i < j => f[i] < f[j]
    BY <1>2, <1>4 DEF InOrder
  <1>6. IsFiniteSet(1 .. n) /\ Cardinality(1 .. n) = n
    BY FS_Interval
  <1>7. f \in Bijection(1 .. n, P)
    <2>1. P \subseteq Int
      BY ListFacts
    <2>2. ASSUME NEW i \in 1 .. n, NEW j \in 1 .. n, f[i] = f[j] PROVE i = j
      <3>1. f[i] \in Int /\ ~(f[i] < f[j]) /\ ~(f[j] < f[i])
        BY <1>5, <2>1, <2>2
      <3>2. ~(i < j) /\ ~(j < i)
        BY <1>5, <3>1
      <3> QED
        BY <3>2
    <2>3. f \in Injection(1 .. n, P)
      BY <1>5, <2>2 DEF Injection, IsInjective
    <2>4. f \in Surjection(1 .. n, P)
      BY <1>3, <1>4, <1>6, <2>3, FS_Injection
    <2> QED
      BY <2>3, <2>4 DEF Bijection
  <1>8. rest \in Seq(UnstakeRequest) /\ DOMAIN rest = 1 .. n /\ \A i \in 1 .. n : rest[i] = reqs[f[i]]
    <2>1. \A i \in 1 .. n : reqs[f[i]] \in UnstakeRequest
      BY <1>5, ListFacts
    <2>2. rest = [i \in 1 .. n |-> reqs[f[i]]]
      BY <1>2, <1>5
    <2> QED
      BY <2>1, <2>2
  <1>9. SumOf(rest) = Total(AmountsOf(reqs), P)
    <2>1. \A i \in 1 .. n : AmountsOf(rest)[i] = AmountsOf(reqs)[f[i]]
      <3>1. \A i \in DOMAIN rest : AmountsOf(rest)[i] = rest[i].amount
        BY <1>8, ListFacts
      <3>2. \A i \in DOMAIN reqs : AmountsOf(reqs)[i] = reqs[i].amount
        BY ListFacts
      <3> QED
        BY <1>5, <1>8, <3>1, <3>2
    <2>2. \A x \in P : AmountsOf(reqs)[x] \in Nat
      BY ListFacts
    <2>3. Total(AmountsOf(rest), 1 .. n) = Total(AmountsOf(reqs), P)
      BY ONLY <1>6, <1>7, <2>1, <2>2, TotalReindex
    <2> QED
      BY <1>8, <2>3 DEF SumOf
  <1>10. Total(AmountsOf(reqs), P \cup U) = Total(AmountsOf(reqs), P) + Total(AmountsOf(reqs), U)
    <2>1. P \cap U = {} /\ \A y \in P \cup U : AmountsOf(reqs)[y] \in Nat
      BY <1>1, ListFacts
    <2> QED
      BY ONLY <1>3, <2>1, TotalUnion
  <1>11. P \cup U = DOMAIN reqs
    BY <1>1
  <1>12. QED
    BY <1>8, <1>9, <1>10, <1>11 DEF SumOf

\* What an address has, in numbers.
LEMMA AddressFacts ==
    ASSUME NEW L, LedgerOK(L), NEW a \in Addr
    PROVE  /\ \A m \in NumberMaps : Entry(L, m, a) \in Nat
           /\ Requests(L, a) \in Seq(UnstakeRequest) /\ SumOf(Requests(L, a)) \in Nat
           /\ TotalOf(L, a) \in Nat
  <1>1. \A m \in NumberMaps : Entry(L, m, a) \in Nat
    BY DEF LedgerOK, Entry
  <1>2. Requests(L, a) \in Seq(UnstakeRequest)
    <2>1. CASE a \in DOMAIN L["unstake_requests"]
      BY <2>1 DEF LedgerOK, Requests
    <2>2. CASE a \notin DOMAIN L["unstake_requests"]
      BY <2>2, SumOfEmpty DEF Requests
    <2> QED
      BY <2>1, <2>2
  <1>3. SumOf(Requests(L, a)) \in Nat
    BY <1>2, ListFacts
  <1>4. "balances" \in NumberMaps /\ "stakes" \in NumberMaps
    BY DEF NumberMaps
  <1>5. QED
    BY <1>1, <1>2, <1>3, <1>4 DEF TotalOf

\* The ledger K is L after a write of v.
IsWrite(L, K, m, a, v) == K = [L EXCEPT ![m] = Entered(L[m], a, v)]

\* A write to a map is seen in this entry alone.
LEMMA EnteredFacts ==
    ASSUME NEW L, LedgerOK(L), NEW m \in MapNames, NEW a \in Addr, NEW v, NEW K, IsWrite(L, K, m, a, v),
           m \in NumberMaps => v \in Nat, m = "unstake_requests" => v \in Seq(UnstakeRequest)
    PROVE  /\ LedgerOK(K)
           /\ \A k \in MapNames, b \in Addr : Entry(K, k, b) = IF k = m /\ b = a THEN v ELSE Entry(L, k, b)
           /\ \A b \in Addr : Requests(K, b) = IF m = "unstake_requests" /\ b = a THEN v ELSE Requests(L, b)
  <1>1. /\ \A k \in MapNames \ {m} : K[k] = L[k]
        /\ K[m] = [x \in DOMAIN L[m] \cup {a} |-> IF x = a THEN v ELSE L[m][x]]
        /\ K = [k \in MapNames |-> K[k]]
    BY DEF LedgerOK, Entered, IsWrite
  <1>2. DOMAIN K[m] = DOMAIN L[m] \cup {a} /\ K[m][a] = v /\ \A x \in DOMAIN L[m] \ {a} : K[m][x] = L[m][x]
    BY <1>1
  <1>3. LedgerOK(K)
    <2>1. \A k \in MapNames : DOMAIN K[k] \subseteq Addr /\ K[k] = [b \in DOMAIN K[k] |-> K[k][b]]
      <3>1. \A k \in MapNames \ {m} : DOMAIN K[k] \subseteq Addr /\ K[k] = [b \in DOMAIN K[k] |-> K[k][b]]
        BY <1>1 DEF LedgerOK
      <3>2. DOMAIN K[m] \subseteq Addr
        BY <1>2 DEF LedgerOK
      <3>3. K[m] = [b \in DOMAIN K[m] |-> K[m][b]]
        BY <1>1
      <3> QED
        BY <3>1, <3>2, <3>3
    <2>2. \A k \in NumberMaps : \A b \in DOMAIN K[k] : K[k][b] \in Nat
      <3> SUFFICES ASSUME NEW k \in NumberMaps, NEW b \in DOMAIN K[k] PROVE K[k][b] \in Nat
        OBVIOUS
      <3>1. k \in MapNames
        BY DEF MapNames, NumberMaps
      <3>2. CASE k # m
        BY <1>1, <3>1, <3>2 DEF LedgerOK
      <3>3. CASE k = m
        BY <1>2, <3>3 DEF LedgerOK
      <3> QED
        BY <3>2, <3>3
    <2>3. \A b \in DOMAIN K["unstake_requests"] : K["unstake_requests"][b] \in Seq(UnstakeRequest)
      <3> SUFFICES ASSUME NEW b \in DOMAIN K["unstake_requests"] PROVE K["unstake_requests"][b] \in Seq(UnstakeRequest)
        OBVIOUS
      <3>1. CASE m # "unstake_requests"
        BY <1>1, <3>1 DEF LedgerOK, MapNames
      <3>2. CASE m = "unstake_requests"
        BY <1>2, <3>2 DEF LedgerOK
      <3> QED
        BY <3>1, <3>2
    <2> QED
      BY <1>1, <2>1, <2>2, <2>3 DEF LedgerOK
  <1>4. ASSUME NEW k \in MapNames, NEW b \in Addr PROVE Entry(K, k, b) = IF k = m /\ b = a THEN v ELSE Entry(L, k, b)
    <2>1. CASE k # m
      BY <1>1, <2>1 DEF Entry
    <2>2. CASE k = m
      BY <1>2, <2>2 DEF Entry
    <2> QED
      BY <2>1, <2>2
  <1>5. ASSUME NEW b \in Addr PROVE Requests(K, b) = IF m = "unstake_requests" /\ b = a THEN v ELSE Requests(L, b)
    <2>1. CASE m # "unstake_requests"
      BY <1>1, <2>1 DEF Requests, MapNames
    <2>2. CASE m = "unstake_requests"
      BY <1>2, <2>2 DEF Requests
    <2> QED
      BY <2>1, <2>2
  <1>6. QED
    BY <1>3, <1>4, <1>5

\* A number that is written to the ledger.
LEMMA NumberEntered ==
    ASSUME LedgerOK(ledger), NEW m \in NumberMaps, NEW a \in Addr, NEW v \in Nat,
           ledger' = [ledger EXCEPT ![m] = Entered(ledger[m], a, v)]
    PROVE  /\ LedgerOK(ledger')
           /\ \A k \in MapNames, b \in Addr : Entry(ledger', k, b) = IF k = m /\ b = a THEN v ELSE Entry(ledger, k, b)
           /\ \A b \in Addr : Requests(ledger', b) = Requests(ledger, b)
  <1>1. PICK L, K : L = ledger /\ K = ledger'
    OBVIOUS
  <1>2. LedgerOK(L) /\ IsWrite(L, K, m, a, v) /\ m \in MapNames /\ m # "unstake_requests"
        /\ (m \in NumberMaps => v \in Nat) /\ (m = "unstake_requests" => v \in Seq(UnstakeRequest))
    BY <1>1 DEF MapNames, NumberMaps, IsWrite
  <1>3. /\ LedgerOK(K)
        /\ \A k \in MapNames, b \in Addr : Entry(K, k, b) = IF k = m /\ b = a THEN v ELSE Entry(L, k, b)
        /\ \A b \in Addr : Requests(K, b) = IF m = "unstake_requests" /\ b = a THEN v ELSE Requests(L, b)
    BY ONLY <1>2, a \in Addr, EnteredFacts
  <1>4. QED
    BY <1>1, <1>2, <1>3

\* A list of requests that is written to the ledger.
LEMMA ListEntered ==
    ASSUME LedgerOK(ledger), NEW a \in Addr, NEW v \in Seq(UnstakeRequest),
           ledger' = [ledger EXCEPT !["unstake_requests"] = Entered(ledger["unstake_requests"], a, v)]
    PROVE  /\ LedgerOK(ledger')
           /\ \A k \in NumberMaps, b \in Addr : Entry(ledger', k, b) = Entry(ledger, k, b)
           /\ \A b \in Addr : Requests(ledger', b) = IF b = a THEN v ELSE Requests(ledger, b)
  <1>1. PICK L, K, m : L = ledger /\ K = ledger' /\ m = "unstake_requests"
    OBVIOUS
  <1>2. LedgerOK(L) /\ IsWrite(L, K, m, a, v) /\ m \in MapNames /\ m \notin NumberMaps
        /\ (m \in NumberMaps => v \in Nat) /\ (m = "unstake_requests" => v \in Seq(UnstakeRequest))
    BY <1>1 DEF MapNames, NumberMaps, IsWrite
  <1>3. /\ LedgerOK(K)
        /\ \A k \in MapNames, b \in Addr : Entry(K, k, b) = IF k = m /\ b = a THEN v ELSE Entry(L, k, b)
        /\ \A b \in Addr : Requests(K, b) = IF m = "unstake_requests" /\ b = a THEN v ELSE Requests(L, b)
    BY ONLY <1>2, a \in Addr, EnteredFacts
  <1>4. \A k \in NumberMaps : k \in MapNames /\ k # m
    BY <1>2 DEF MapNames, NumberMaps
  <1>5. QED
    BY <1>1, <1>3, <1>4

\* What the threads hold, in numbers.
LEMMA HeldFacts ==
    ASSUME Stakeable, StakingTypeOK, NEW a \in Addr
    PROVE  /\ OnItsWay(a) \in [Thread -> Nat] /\ Total(OnItsWay(a), Thread) \in Nat
           /\ \A c \in {NoTask} \cup PushTask \cup CreditTask : Held(c, a) \in Nat
           /\ Held(NoTask, a) = 0
  <1>1. Held(NoTask, a) = 0
    BY DEF Held, NoTask
  <1>2. \A c \in PushTask \cup CreditTask : Held(c, a) = (IF c.addr = a THEN c.amount ELSE 0) /\ Held(c, a) \in Nat
    BY DEF Held, PushTask, CreditTask
  <1>3. OnItsWay(a) \in [Thread -> Nat]
    BY <1>1, <1>2 DEF OnItsWay, StakingTypeOK
  <1>4. Total(OnItsWay(a), Thread) \in Nat
    <2>1. IsFiniteSet(Thread) /\ \A t \in Thread : OnItsWay(a)[t] \in Nat
      BY <1>3 DEF Stakeable
    <2> QED
      BY ONLY <2>1, UnitsFinite
  <1>5. QED
    BY <1>1, <1>2, <1>3, <1>4

\* A new task of one thread changes the total by what it holds.
LEMMA TaskChanges ==
    ASSUME Stakeable, StakingTypeOK, NEW t \in Thread, NEW c \in {NoTask} \cup PushTask \cup CreditTask,
           tasks' = [tasks EXCEPT ![t] = c], NEW a \in Addr
    PROVE  /\ tasks' \in [Thread -> {NoTask} \cup PushTask \cup CreditTask] /\ tasks'[t] = c
           /\ Total(OnItsWay(a)', Thread) \in Nat
           /\ Total(OnItsWay(a)', Thread) + Held(tasks[t], a) = Total(OnItsWay(a), Thread) + Held(c, a)
  <1>1. tasks' \in [Thread -> {NoTask} \cup PushTask \cup CreditTask] /\ tasks'[t] = c
        /\ \A u \in Thread \ {t} : tasks'[u] = tasks[u]
    BY DEF StakingTypeOK
  <1>2. /\ \A u \in Thread : OnItsWay(a)[u] = Held(tasks[u], a) /\ OnItsWay(a)'[u] = Held(tasks'[u], a)
        /\ \A d \in {NoTask} \cup PushTask \cup CreditTask : Held(d, a) \in Nat
    BY HeldFacts DEF OnItsWay, Held
  <1>3. /\ IsFiniteSet(Thread) /\ \A u \in Thread : OnItsWay(a)[u] \in Nat /\ OnItsWay(a)'[u] \in Nat
        /\ \A u \in Thread \ {t} : OnItsWay(a)'[u] = OnItsWay(a)[u]
    BY <1>1, <1>2 DEF Stakeable, StakingTypeOK
  <1>4. PICK f, g : f = OnItsWay(a) /\ g = OnItsWay(a)'
    OBVIOUS
  <1>5. /\ IsFiniteSet(Thread) /\ \A u \in Thread : f[u] \in Nat /\ g[u] \in Nat
        /\ \A u \in Thread \ {t} : g[u] = f[u]
    BY <1>3, <1>4
  <1>6. Total(g, Thread) + f[t] = Total(f, Thread) + g[t] /\ Total(g, Thread) \in Nat
    BY ONLY <1>5, t \in Thread, TotalUpdate, UnitsFinite
  <1>7. QED
    BY <1>1, <1>2, <1>4, <1>6

\* A thread that makes a call holds nothing yet.
LEMMA BeginHolds == ASSUME Stakeable, StakingTypeOK, NEW t \in Thread, Begin(t), NEW a \in Addr PROVE Held(tasks[t], a) = 0
  BY HeldFacts DEF Begin

\* More stake for an address.
LEMMA AddKeepsStakes ==
    ASSUME Stakeable, StakingTypeOK, StakeIsConserved, NEW t \in Thread, NEW a \in Addr, NEW v \in Amounts, add_stake(t, a, v)
    PROVE  StakingTypeOK' /\ StakeIsConserved'
  <1>1. v \in Nat /\ Value("stakes", a) \in Nat
    BY AddressFacts DEF Stakeable, Value, StakingTypeOK, NumberMaps
  <1>2. /\ ledger' = [ledger EXCEPT !["stakes"] = Entered(ledger["stakes"], a, Value("stakes", a) + v)]
        /\ staked' = [staked EXCEPT ![a] = staked[a] + v] /\ tasks' = tasks /\ clock' = clock /\ data' = data /\ copy' = copy
        /\ begun' = begun /\ sound' = sound
    BY DEF add_stake, Put, snapshot
  <1>3. Value("stakes", a) + v \in Nat /\ {"stakes", "balances"} \subseteq MapNames \cap NumberMaps /\ LedgerOK(ledger)
        /\ "stakes" # "unstake_requests" /\ "stakes" # "balances"
    BY <1>1 DEF MapNames, NumberMaps, StakingTypeOK
  <1>4. /\ LedgerOK(ledger')
        /\ \A k \in MapNames, b \in Addr :
               Entry(ledger', k, b) = IF k = "stakes" /\ b = a THEN Value("stakes", a) + v ELSE Entry(ledger, k, b)
        /\ \A b \in Addr : Requests(ledger', b) = Requests(ledger, b)
    BY <1>2, <1>3, NumberEntered
  <1>5. StakingTypeOK'
    BY <1>1, <1>2, <1>4 DEF StakingTypeOK
  <1>6. ASSUME sound, NEW b \in Addr PROVE TotalOf(ledger', b) + Total(OnItsWay(b)', Thread) = staked'[b]
    <2>1. TotalOf(ledger, b) + Total(OnItsWay(b), Thread) = staked[b]
      BY <1>6 DEF StakeIsConserved
    <2>2. OnItsWay(b)' = OnItsWay(b)
      BY <1>2 DEF OnItsWay
    <2>3. TotalOf(ledger', b) = IF b = a THEN TotalOf(ledger, b) + v ELSE TotalOf(ledger, b)
      <3>1. /\ Entry(ledger, "balances", b) \in Nat /\ Entry(ledger, "stakes", b) \in Nat
            /\ SumOf(Requests(ledger, b)) \in Nat
        BY <1>3, AddressFacts DEF NumberMaps
      <3>2. /\ Entry(ledger', "balances", b) = Entry(ledger, "balances", b)
            /\ Entry(ledger', "stakes", b) = IF b = a THEN Entry(ledger, "stakes", b) + v ELSE Entry(ledger, "stakes", b)
            /\ Requests(ledger', b) = Requests(ledger, b)
        BY <1>3, <1>4 DEF Value
      <3> QED
        BY <1>1, <3>1, <3>2 DEF TotalOf
    <2>4. staked'[b] = IF b = a THEN staked[b] + v ELSE staked[b]
      BY <1>2 DEF StakingTypeOK
    <2>5. TotalOf(ledger, b) \in Nat /\ Total(OnItsWay(b), Thread) \in Nat
      BY <1>3, AddressFacts, HeldFacts
    <2> QED
      BY <1>1, <2>1, <2>2, <2>3, <2>4, <2>5
  <1>7. QED
    BY <1>2, <1>5, <1>6 DEF StakeIsConserved

\* A nonce is no stake.
LEMMA NonceKeepsStakes ==
    ASSUME Stakeable, StakingTypeOK, StakeIsConserved, NEW t \in Thread, NEW a \in Addr, increment_nonce(t, a)
    PROVE  StakingTypeOK' /\ StakeIsConserved'
  <1>1. Value("nonces", a) + 1 \in Nat
    <2>1. LedgerOK(ledger) /\ "nonces" \in NumberMaps
      BY DEF StakingTypeOK, NumberMaps
    <2> QED
      BY <2>1, AddressFacts DEF Value
  <1>2. /\ ledger' = [ledger EXCEPT !["nonces"] = Entered(ledger["nonces"], a, Value("nonces", a) + 1)]
        /\ staked' = staked /\ tasks' = tasks /\ clock' = clock /\ data' = data /\ copy' = copy
        /\ begun' = begun /\ sound' = sound
    BY DEF increment_nonce, Put, snapshot
  <1>3. /\ "nonces" \in NumberMaps /\ {"stakes", "balances"} \subseteq MapNames /\ LedgerOK(ledger)
        /\ "nonces" # "unstake_requests" /\ "nonces" # "balances" /\ "nonces" # "stakes"
    BY DEF MapNames, NumberMaps, StakingTypeOK
  <1>4. /\ LedgerOK(ledger')
        /\ \A k \in MapNames, b \in Addr :
               Entry(ledger', k, b) = IF k = "nonces" /\ b = a THEN Value("nonces", a) + 1 ELSE Entry(ledger, k, b)
        /\ \A b \in Addr : Requests(ledger', b) = Requests(ledger, b)
    BY <1>1, <1>2, <1>3, NumberEntered
  <1>5. StakingTypeOK'
    BY <1>2, <1>4 DEF StakingTypeOK
  <1>6. ASSUME NEW b \in Addr PROVE TotalOf(ledger', b) = TotalOf(ledger, b) /\ OnItsWay(b)' = OnItsWay(b)
    BY <1>2, <1>3, <1>4 DEF TotalOf, OnItsWay
  <1>7. QED
    BY <1>2, <1>5, <1>6 DEF StakeIsConserved

\* What leaves the stake is in the call's task.
LEMMA UnstakeKeepsStakes ==
    ASSUME Stakeable, StakingTypeOK, StakeIsConserved, NEW t \in Thread, NEW a \in Addr, NEW v \in Amounts, request_unstake(t, a, v)
    PROVE  StakingTypeOK' /\ StakeIsConserved'
  <1>1. v \in Nat /\ Value("stakes", a) \in Nat
    BY AddressFacts DEF Stakeable, Value, StakingTypeOK, NumberMaps
  <1>2. PICK out \in Nat : out = (IF Covers(a, v) THEN v ELSE 0) /\ out <= Value("stakes", a)
    BY <1>1 DEF Covers
  <1>3. /\ ledger' = [ledger EXCEPT !["stakes"] = Entered(ledger["stakes"], a, Value("stakes", a) - out)]
        /\ staked' = staked /\ clock' = clock /\ data' = data /\ copy' = copy
        /\ begun' = begun /\ sound' = sound
    BY <1>2 DEF request_unstake, Put, snapshot, remove_stake
  <1>4. Value("stakes", a) - out \in Nat /\ {"stakes", "balances"} \subseteq MapNames \cap NumberMaps /\ LedgerOK(ledger)
        /\ "stakes" # "unstake_requests" /\ "stakes" # "balances"
    BY <1>1, <1>2 DEF MapNames, NumberMaps, StakingTypeOK
  <1>5. /\ LedgerOK(ledger')
        /\ \A k \in MapNames, b \in Addr :
               Entry(ledger', k, b) = IF k = "stakes" /\ b = a THEN Value("stakes", a) - out ELSE Entry(ledger, k, b)
        /\ \A b \in Addr : Requests(ledger', b) = Requests(ledger, b)
    BY <1>3, <1>4, NumberEntered
  <1>6. PICK c \in {NoTask} \cup PushTask \cup CreditTask :
            /\ tasks' = [tasks EXCEPT ![t] = c]
            /\ \A b \in Addr : Held(c, b) = IF b = a THEN out ELSE 0
    <2>1. CASE ~Covers(a, v) /\ tasks' = tasks
      <3>1. tasks' = [tasks EXCEPT ![t] = NoTask]
        BY <2>1 DEF request_unstake, Begin, StakingTypeOK
      <3>2. out = 0 /\ \A b \in Addr : Held(NoTask, b) = 0
        BY <1>2, <2>1, HeldFacts
      <3> QED
        BY <3>1, <3>2
    <2>2. CASE Covers(a, v) /\ tasks' = [tasks EXCEPT ![t] = [op |-> "push", addr |-> a, amount |-> v,
                                                              time |-> clock.time, epoch |-> clock.epoch]]
      <3>1. PICK c : c = [op |-> "push", addr |-> a, amount |-> v, time |-> clock.time, epoch |-> clock.epoch]
        OBVIOUS
      <3>2. c \in PushTask /\ c.op # "idle" /\ c.addr = a /\ c.amount = out
        BY <1>1, <1>2, <2>2, <3>1 DEF PushTask, StakingTypeOK
      <3>3. \A b \in Addr : Held(c, b) = IF b = a THEN out ELSE 0
        BY <3>2 DEF Held
      <3> QED
        BY <2>2, <3>1, <3>2, <3>3
    <2> QED
      BY <2>1, <2>2 DEF request_unstake
  <1>7. StakingTypeOK'
    <2>1. tasks' \in [Thread -> {NoTask} \cup PushTask \cup CreditTask]
      BY <1>6 DEF StakingTypeOK
    <2> QED
      BY <1>3, <1>5, <2>1 DEF StakingTypeOK
  <1>8. ASSUME sound, NEW b \in Addr PROVE TotalOf(ledger', b) + Total(OnItsWay(b)', Thread) = staked'[b]
    <2>1. TotalOf(ledger, b) + Total(OnItsWay(b), Thread) = staked[b]
      BY <1>8 DEF StakeIsConserved
    <2>2. Total(OnItsWay(b)', Thread) = Total(OnItsWay(b), Thread) + (IF b = a THEN out ELSE 0)
      <3>1. Total(OnItsWay(b)', Thread) \in Nat
            /\ Total(OnItsWay(b)', Thread) + Held(tasks[t], b) = Total(OnItsWay(b), Thread) + Held(c, b)
        BY <1>6, TaskChanges
      <3>2. Held(tasks[t], b) = 0
        BY BeginHolds DEF request_unstake
      <3> QED
        BY <1>6, <3>1, <3>2
    <2>3. TotalOf(ledger', b) + (IF b = a THEN out ELSE 0) = TotalOf(ledger, b)
      <3>1. /\ Entry(ledger, "balances", b) \in Nat /\ Entry(ledger, "stakes", b) \in Nat
            /\ SumOf(Requests(ledger, b)) \in Nat
        BY <1>4, AddressFacts DEF NumberMaps
      <3>2. /\ Entry(ledger', "balances", b) = Entry(ledger, "balances", b)
            /\ Entry(ledger', "stakes", b) = IF b = a THEN Entry(ledger, "stakes", b) - out ELSE Entry(ledger, "stakes", b)
            /\ Requests(ledger', b) = Requests(ledger, b)
        BY <1>4, <1>5 DEF Value
      <3> QED
        BY <1>2, <3>1, <3>2 DEF TotalOf
    <2>4. TotalOf(ledger, b) \in Nat /\ TotalOf(ledger', b) \in Nat /\ Total(OnItsWay(b), Thread) \in Nat
      BY <1>4, <1>5, AddressFacts, HeldFacts
    <2> QED
      BY <1>2, <1>3, <2>1, <2>2, <2>3, <2>4
  <1>9. QED
    BY <1>3, <1>7, <1>8 DEF StakeIsConserved

\* What the task holds becomes a request.
LEMMA PushKeepsStakes ==
    ASSUME Stakeable, StakingTypeOK, StakeIsConserved, NEW t \in Thread, PushRequest(t)
    PROVE  StakingTypeOK' /\ StakeIsConserved'
  <1>1. PICK c : c = tasks[t]
    OBVIOUS
  <1>2. c \in PushTask
    BY <1>1 DEF PushRequest, StakingTypeOK, NoTask, CreditTask
  <1>3. PICK a \in Addr : a = c.addr
    BY <1>2 DEF PushTask
  <1>4. PICK v \in Nat : v = c.amount
    BY <1>2 DEF PushTask
  <1>5. PICK r : r = [amount |-> v, unlock_time_ms |-> c.time + LockTime, unlock_epoch |-> c.epoch + LockEpochs]
    OBVIOUS
  <1>6. r \in UnstakeRequest /\ r.amount = v
    BY <1>2, <1>5 DEF UnstakeRequest, PushTask, Stakeable
  <1>7. PICK more : more = Append(Requests(ledger, a), r)
    OBVIOUS
  <1>8. /\ ledger' = [ledger EXCEPT !["unstake_requests"] = Entered(ledger["unstake_requests"], a, more)]
        /\ tasks' = [tasks EXCEPT ![t] = NoTask] /\ staked' = staked /\ clock' = clock /\ data' = data /\ copy' = copy
        /\ begun' = begun /\ sound' = sound
    BY <1>1, <1>3, <1>4, <1>5, <1>7 DEF PushRequest, Put, snapshot
  <1>9. /\ LedgerOK(ledger) /\ "stakes" \in NumberMaps /\ "balances" \in NumberMaps
    BY DEF NumberMaps, StakingTypeOK
  <1>10. more \in Seq(UnstakeRequest) /\ SumOf(more) = SumOf(Requests(ledger, a)) + v
    <2>1. Requests(ledger, a) \in Seq(UnstakeRequest)
      BY <1>9, AddressFacts
    <2> QED
      BY <1>6, <1>7, <2>1, SumOfPushed
  <1>11. /\ LedgerOK(ledger')
         /\ \A k \in NumberMaps, b \in Addr : Entry(ledger', k, b) = Entry(ledger, k, b)
         /\ \A b \in Addr : Requests(ledger', b) = IF b = a THEN more ELSE Requests(ledger, b)
    BY <1>8, <1>9, <1>10, ListEntered
  <1>12. StakingTypeOK'
    <2>1. tasks' \in [Thread -> {NoTask} \cup PushTask \cup CreditTask]
      BY <1>8 DEF StakingTypeOK
    <2> QED
      BY <1>8, <1>11, <2>1 DEF StakingTypeOK
  <1>13. ASSUME sound, NEW b \in Addr PROVE TotalOf(ledger', b) + Total(OnItsWay(b)', Thread) = staked'[b]
    <2>1. TotalOf(ledger, b) + Total(OnItsWay(b), Thread) = staked[b]
      BY <1>13 DEF StakeIsConserved
    <2>2. Held(tasks[t], b) = IF b = a THEN v ELSE 0
      BY <1>1, <1>2, <1>3, <1>4 DEF Held, PushTask
    <2>3. Total(OnItsWay(b)', Thread) + (IF b = a THEN v ELSE 0) = Total(OnItsWay(b), Thread)
          /\ Total(OnItsWay(b)', Thread) \in Nat /\ Total(OnItsWay(b), Thread) \in Nat
      <3>1. Total(OnItsWay(b)', Thread) \in Nat
            /\ Total(OnItsWay(b)', Thread) + Held(tasks[t], b) = Total(OnItsWay(b), Thread) + Held(NoTask, b)
        BY <1>8, TaskChanges
      <3>2. Held(NoTask, b) = 0 /\ Total(OnItsWay(b), Thread) \in Nat
        BY HeldFacts
      <3> QED
        BY <2>2, <3>1, <3>2
    <2>4. TotalOf(ledger', b) = TotalOf(ledger, b) + (IF b = a THEN v ELSE 0)
      <3>1. /\ Entry(ledger, "balances", b) \in Nat /\ Entry(ledger, "stakes", b) \in Nat
            /\ SumOf(Requests(ledger, b)) \in Nat
        BY <1>9, AddressFacts DEF NumberMaps
      <3>2. /\ Entry(ledger', "balances", b) = Entry(ledger, "balances", b)
            /\ Entry(ledger', "stakes", b) = Entry(ledger, "stakes", b)
            /\ SumOf(Requests(ledger', b)) = SumOf(Requests(ledger, b)) + (IF b = a THEN v ELSE 0)
        BY <1>9, <1>10, <1>11, <3>1
      <3> QED
        BY <3>1, <3>2 DEF TotalOf
    <2>5. TotalOf(ledger, b) \in Nat
      BY <1>9, AddressFacts
    <2> QED
      BY <1>8, <2>1, <2>3, <2>4, <2>5
  <1>14. QED
    BY <1>8, <1>12, <1>13 DEF StakeIsConserved

\* What is taken out of the requests is in the call's task.
LEMMA ProcessKeepsStakes ==
    ASSUME Stakeable, StakingTypeOK, StakeIsConserved, NEW t \in Thread, NEW a \in Addr, process_unstakes(t, a)
    PROVE  StakingTypeOK' /\ StakeIsConserved'
  <1>1. PICK reqs \in Seq(UnstakeRequest) : reqs = Requests(ledger, a)
    BY AddressFacts DEF StakingTypeOK
  <1>2. PICK U \in SUBSET DOMAIN reqs : U = UnlockedIn(reqs)
    BY DEF UnlockedIn
  <1>3. PICK rest \in Retained(reqs, DOMAIN reqs \ U) : ledger' = Put("unstake_requests", a, rest)
    BY <1>1, <1>2 DEF process_unstakes
  <1>4. PICK v \in Nat : v = Total(AmountsOf(reqs), U)
    BY ListFacts
  <1>5. rest \in Seq(UnstakeRequest) /\ SumOf(rest) + v = SumOf(reqs)
    BY <1>4, SumOfRetained
  <1>6. /\ ledger' = [ledger EXCEPT !["unstake_requests"] = Entered(ledger["unstake_requests"], a, rest)]
        /\ tasks' = [tasks EXCEPT ![t] = IF v = 0 THEN NoTask ELSE [op |-> "credit", addr |-> a, amount |-> v]]
        /\ staked' = staked /\ clock' = clock /\ data' = data /\ copy' = copy
        /\ begun' = begun /\ sound' = sound
    BY <1>1, <1>2, <1>3, <1>4 DEF process_unstakes, Credited, Put, snapshot
  <1>7. PICK c \in {NoTask} \cup PushTask \cup CreditTask :
            /\ tasks' = [tasks EXCEPT ![t] = c]
            /\ \A b \in Addr : Held(c, b) = IF b = a THEN v ELSE 0
    <2>1. CASE v = 0
      <3>1. \A b \in Addr : Held(NoTask, b) = 0
        BY HeldFacts
      <3> QED
        BY <1>6, <2>1, <3>1
    <2>2. CASE v # 0
      <3>1. PICK c : c = [op |-> "credit", addr |-> a, amount |-> v]
        OBVIOUS
      <3>2. c \in CreditTask /\ c.op # "idle" /\ c.addr = a /\ c.amount = v
        BY <3>1 DEF CreditTask
      <3>3. \A b \in Addr : Held(c, b) = IF b = a THEN v ELSE 0
        BY <3>2 DEF Held
      <3> QED
        BY <1>6, <2>2, <3>1, <3>2, <3>3
    <2> QED
      BY <2>1, <2>2
  <1>8. /\ LedgerOK(ledger) /\ "stakes" \in NumberMaps /\ "balances" \in NumberMaps
    BY DEF NumberMaps, StakingTypeOK
  <1>9. /\ LedgerOK(ledger')
        /\ \A k \in NumberMaps, b \in Addr : Entry(ledger', k, b) = Entry(ledger, k, b)
        /\ \A b \in Addr : Requests(ledger', b) = IF b = a THEN rest ELSE Requests(ledger, b)
    BY <1>5, <1>6, <1>8, ListEntered
  <1>10. StakingTypeOK'
    <2>1. tasks' \in [Thread -> {NoTask} \cup PushTask \cup CreditTask]
      BY <1>7 DEF StakingTypeOK
    <2> QED
      BY <1>6, <1>9, <2>1 DEF StakingTypeOK
  <1>11. ASSUME sound, NEW b \in Addr PROVE TotalOf(ledger', b) + Total(OnItsWay(b)', Thread) = staked'[b]
    <2>1. TotalOf(ledger, b) + Total(OnItsWay(b), Thread) = staked[b]
      BY <1>11 DEF StakeIsConserved
    <2>2. Total(OnItsWay(b)', Thread) = Total(OnItsWay(b), Thread) + (IF b = a THEN v ELSE 0)
      <3>1. Total(OnItsWay(b)', Thread) \in Nat
            /\ Total(OnItsWay(b)', Thread) + Held(tasks[t], b) = Total(OnItsWay(b), Thread) + Held(c, b)
        BY <1>7, TaskChanges
      <3>2. Held(tasks[t], b) = 0
        BY HeldFacts DEF process_unstakes
      <3> QED
        BY <1>7, <3>1, <3>2
    <2>3. TotalOf(ledger', b) + (IF b = a THEN v ELSE 0) = TotalOf(ledger, b)
      <3>1. /\ Entry(ledger, "balances", b) \in Nat /\ Entry(ledger, "stakes", b) \in Nat
            /\ SumOf(Requests(ledger, b)) \in Nat /\ SumOf(Requests(ledger', b)) \in Nat
        BY <1>8, <1>9, AddressFacts DEF NumberMaps
      <3>2. /\ Entry(ledger', "balances", b) = Entry(ledger, "balances", b)
            /\ Entry(ledger', "stakes", b) = Entry(ledger, "stakes", b)
            /\ SumOf(Requests(ledger', b)) + (IF b = a THEN v ELSE 0) = SumOf(Requests(ledger, b))
        BY <1>1, <1>5, <1>8, <1>9, <3>1
      <3> QED
        BY <3>1, <3>2 DEF TotalOf
    <2>4. TotalOf(ledger, b) \in Nat /\ TotalOf(ledger', b) \in Nat /\ Total(OnItsWay(b), Thread) \in Nat
      BY <1>8, <1>9, AddressFacts, HeldFacts
    <2> QED
      BY <1>6, <2>1, <2>2, <2>3, <2>4
  <1>12. QED
    BY <1>6, <1>10, <1>11 DEF StakeIsConserved

\* What the task holds becomes a balance.
LEMMA CreditKeepsStakes ==
    ASSUME Stakeable, StakingTypeOK, StakeIsConserved, NEW t \in Thread, credit(t)
    PROVE  StakingTypeOK' /\ StakeIsConserved'
  <1>1. PICK c : c = tasks[t]
    OBVIOUS
  <1>2. c \in CreditTask
    BY <1>1 DEF credit, StakingTypeOK, NoTask, PushTask
  <1>3. PICK a \in Addr : a = c.addr
    BY <1>2 DEF CreditTask
  <1>4. PICK v \in Nat : v = c.amount
    BY <1>2 DEF CreditTask
  <1>5. /\ LedgerOK(ledger) /\ {"stakes", "balances"} \subseteq MapNames \cap NumberMaps
        /\ "balances" # "unstake_requests" /\ "balances" # "stakes"
    BY DEF MapNames, NumberMaps, StakingTypeOK
  <1>6. Value("balances", a) + v \in Nat
    BY <1>5, AddressFacts DEF Value, NumberMaps
  <1>7. /\ ledger' = [ledger EXCEPT !["balances"] = Entered(ledger["balances"], a, Value("balances", a) + v)]
        /\ tasks' = [tasks EXCEPT ![t] = NoTask] /\ staked' = staked /\ clock' = clock /\ data' = data /\ copy' = copy
        /\ begun' = begun /\ sound' = sound
    BY <1>1, <1>3, <1>4 DEF credit, Put, snapshot
  <1>8. /\ LedgerOK(ledger')
        /\ \A k \in MapNames, b \in Addr :
               Entry(ledger', k, b) = IF k = "balances" /\ b = a THEN Value("balances", a) + v ELSE Entry(ledger, k, b)
        /\ \A b \in Addr : Requests(ledger', b) = Requests(ledger, b)
    BY <1>5, <1>6, <1>7, NumberEntered
  <1>9. StakingTypeOK'
    <2>1. tasks' \in [Thread -> {NoTask} \cup PushTask \cup CreditTask]
      BY <1>7 DEF StakingTypeOK
    <2> QED
      BY <1>7, <1>8, <2>1 DEF StakingTypeOK
  <1>10. ASSUME sound, NEW b \in Addr PROVE TotalOf(ledger', b) + Total(OnItsWay(b)', Thread) = staked'[b]
    <2>1. TotalOf(ledger, b) + Total(OnItsWay(b), Thread) = staked[b]
      BY <1>10 DEF StakeIsConserved
    <2>2. Held(tasks[t], b) = IF b = a THEN v ELSE 0
      BY <1>1, <1>2, <1>3, <1>4 DEF Held, CreditTask
    <2>3. Total(OnItsWay(b)', Thread) + (IF b = a THEN v ELSE 0) = Total(OnItsWay(b), Thread)
          /\ Total(OnItsWay(b)', Thread) \in Nat /\ Total(OnItsWay(b), Thread) \in Nat
      <3>1. Total(OnItsWay(b)', Thread) \in Nat
            /\ Total(OnItsWay(b)', Thread) + Held(tasks[t], b) = Total(OnItsWay(b), Thread) + Held(NoTask, b)
        BY <1>7, TaskChanges
      <3>2. Held(NoTask, b) = 0 /\ Total(OnItsWay(b), Thread) \in Nat
        BY HeldFacts
      <3> QED
        BY <2>2, <3>1, <3>2
    <2>4. TotalOf(ledger', b) = TotalOf(ledger, b) + (IF b = a THEN v ELSE 0)
      <3>1. /\ Entry(ledger, "balances", b) \in Nat /\ Entry(ledger, "stakes", b) \in Nat
            /\ SumOf(Requests(ledger, b)) \in Nat
        BY <1>5, AddressFacts DEF NumberMaps
      <3>2. /\ Entry(ledger', "balances", b) = IF b = a THEN Entry(ledger, "balances", b) + v ELSE Entry(ledger, "balances", b)
            /\ Entry(ledger', "stakes", b) = Entry(ledger, "stakes", b)
            /\ Requests(ledger', b) = Requests(ledger, b)
        BY <1>5, <1>8 DEF Value
      <3> QED
        BY <3>1, <3>2 DEF TotalOf
    <2>5. TotalOf(ledger, b) \in Nat
      BY <1>5, AddressFacts
    <2> QED
      BY <1>7, <2>1, <2>3, <2>4, <2>5
  <1>11. QED
    BY <1>7, <1>9, <1>10 DEF StakeIsConserved

-----------------------------------------------------------------------------
\* The first n cells of ledger L, as a snapshot holds them.
Shows(D, L, n) ==
    \A m \in MapNames :
        /\ DOMAIN D[m] = {a \in DOMAIN L[m] : \E i \in 1 .. n : CellMap(i) = m /\ CellAddr(i) = a}
        /\ \A a \in DOMAIN D[m] : D[m][a] = L[m][a]

(***************************************************************************)
(* While a snapshot is made, the ledger is one of the states seen; if it   *)
(* is the only one, the snapshot and its hash hold the cells of this state *)
(* that they have come to, and this state what had been staked by then if  *)
(* nothing was on its way.                                                 *)
(***************************************************************************)
SnapshotInv ==
    /\ cell \in 0 .. 2 * Cells + 2 /\ IsFiniteSet(seen) /\ \A L \in seen : LedgerOK(L)
    /\ cell \in 1 .. 2 * Cells => ledger \in seen
    /\ cell \in 1 .. 2 * Cells + 1 =>
           \A L \in seen : seen = {L} =>
               /\ Shows(data, L, IF cell <= Cells THEN cell - 1 ELSE Cells)
               /\ Shows(copy, L, IF cell <= Cells THEN 0 ELSE cell - 1 - Cells)
               /\ begun.settled => \A a \in Addr : TotalOf(L, a) = begun.staked[a]
    /\ cell # 2 * Cells + 2 => sound

StakingInv == StakingTypeOK /\ StakeIsConserved /\ SnapshotInv

\* A cell is an entry of a map.
LEMMA CellFacts ==
    ASSUME Stakeable, NEW i \in 1 .. Cells
    PROVE  CellMap(i) \in MapNames /\ CellAddr(i) \in Addr
  <1>1. PICK n \in Nat \ {0} : n = N
    BY DEF Stakeable
  <1>2. i \in Nat /\ i >= 1 /\ i <= 4 * n
    BY <1>1 DEF Cells
  <1>3. (i - 1) \div n \in {0, 1, 2, 3}
    BY <1>2
  <1>4. ((i - 1) \div n) + 1 \in {1, 2, 3, 4}
    BY <1>3
  <1>5. CellMap(i) \in MapNames
    BY <1>1, <1>4 DEF CellMap, Maps, MapNames
  <1>6. ((i - 1) % n) + 1 \in 1 .. n
    BY <1>2
  <1>7. CellAddr(i) \in Addr
    BY <1>1, <1>6 DEF CellAddr, Addr, ToSet, Stakeable
  <1>8. QED
    BY <1>5, <1>7

\* Every entry of a map has a cell.
LEMMA EveryEntryHasCell ==
    ASSUME Stakeable, NEW m \in MapNames, NEW a \in Addr
    PROVE  \E i \in 1 .. Cells : CellMap(i) = m /\ CellAddr(i) = a
  <1>1. PICK n \in Nat \ {0} : n = N
    BY DEF Stakeable
  <1>2. PICK j \in 1 .. n : Addresses[j] = a
    BY <1>1 DEF Addr, ToSet, Stakeable
  <1>3. PICK k \in {0, 1, 2, 3} : Maps[k + 1] = m
    BY DEF Maps, MapNames
  <1>4. PICK i : i = k * n + j
    OBVIOUS
  <1>5. i \in 1 .. 4 * n /\ ((i - 1) \div n) = k /\ ((i - 1) % n) = j - 1
    <2>1. CASE k = 0
      BY <1>2, <1>4, <2>1
    <2>2. CASE k = 1
      BY <1>2, <1>4, <2>2
    <2>3. CASE k = 2
      BY <1>2, <1>4, <2>3
    <2>4. CASE k = 3
      BY <1>2, <1>4, <2>4
    <2> QED
      BY <2>1, <2>2, <2>3, <2>4
  <1>6. (j - 1) + 1 = j
    OBVIOUS
  <1>7. CellMap(i) = m /\ CellAddr(i) = a
    BY <1>1, <1>2, <1>3, <1>5, <1>6 DEF CellMap, CellAddr
  <1>8. QED
    BY <1>1, <1>5, <1>7 DEF Cells

\* Nothing is shown before the first cell, and all after the last.
LEMMA ShowsNothing == ASSUME NEW L PROVE Shows(Empty, L, 0)
  <1>1. \A m \in MapNames : DOMAIN Empty[m] = {}
    BY DEF Empty
  <1>2. 1 .. 0 = {}
    OBVIOUS
  <1>3. QED
    BY <1>1, <1>2 DEF Shows

\* After the last cell every map shows every entry.
LEMMA ShowsAll ==
    ASSUME Stakeable, NEW D, NEW L, LedgerOK(D), LedgerOK(L), Shows(D, L, Cells)
    PROVE  D = L
  <1>1. ASSUME NEW m \in MapNames PROVE D[m] = L[m]
    <2>1. DOMAIN D[m] = {a \in DOMAIN L[m] : \E i \in 1 .. Cells : CellMap(i) = m /\ CellAddr(i) = a}
          /\ \A a \in DOMAIN D[m] : D[m][a] = L[m][a]
      BY DEF Shows
    <2>2. DOMAIN L[m] \subseteq Addr /\ L[m] = [a \in DOMAIN L[m] |-> L[m][a]] /\ D[m] = [a \in DOMAIN D[m] |-> D[m][a]]
      BY DEF LedgerOK
    <2>3. DOMAIN D[m] = DOMAIN L[m]
      BY <2>1, <2>2, EveryEntryHasCell
    <2> QED
      BY <2>1, <2>2, <2>3
  <1>2. D = [m \in MapNames |-> D[m]] /\ L = [m \in MapNames |-> L[m]]
    BY DEF LedgerOK
  <1>3. QED
    BY <1>1, <1>2

\* Collecting a cell keeps the types and shows one cell more.
LEMMA CollectFacts ==
    ASSUME Stakeable, LedgerOK(ledger), NEW D, LedgerOK(D), NEW n \in Nat, n + 1 \in 1 .. Cells
    PROVE  /\ LedgerOK(Collect(D, n + 1))
           /\ Shows(D, ledger, n) => Shows(Collect(D, n + 1), ledger, n + 1)
  <1>1. PICK m \in MapNames : m = CellMap(n + 1)
    BY CellFacts
  <1>2. PICK a \in Addr : a = CellAddr(n + 1)
    BY CellFacts
  <1>3. \A i : i \in 1 .. n + 1 <=> i \in 1 .. n \/ i = n + 1
    OBVIOUS
  <1>4. CASE a \notin DOMAIN ledger[m]
    <2>1. Collect(D, n + 1) = D
      BY <1>1, <1>2, <1>4 DEF Collect
    <2>2. ASSUME Shows(D, ledger, n), NEW k \in MapNames
          PROVE  {b \in DOMAIN ledger[k] : \E i \in 1 .. n : CellMap(i) = k /\ CellAddr(i) = b}
                     = {b \in DOMAIN ledger[k] : \E i \in 1 .. n + 1 : CellMap(i) = k /\ CellAddr(i) = b}
      BY <1>1, <1>2, <1>3, <1>4
    <2> QED
      BY <2>1, <2>2 DEF Shows
  <1>5. CASE a \in DOMAIN ledger[m]
    <2>1. PICK v : v = ledger[m][a]
      OBVIOUS
    <2>2. PICK K : K = Collect(D, n + 1)
      OBVIOUS
    <2>3. IsWrite(D, K, m, a, v)
      BY <1>1, <1>2, <1>5, <2>1, <2>2 DEF Collect, IsWrite
    <2>4. (m \in NumberMaps => v \in Nat) /\ (m = "unstake_requests" => v \in Seq(UnstakeRequest))
      BY <1>5, <2>1 DEF LedgerOK
    <2>5. LedgerOK(K)
      BY <2>3, <2>4, EnteredFacts
    <2>6. /\ \A k \in MapNames \ {m} : K[k] = D[k]
          /\ K[m] = [x \in DOMAIN D[m] \cup {a} |-> IF x = a THEN v ELSE D[m][x]]
      BY <2>3 DEF IsWrite, Entered, LedgerOK
    <2>7. DOMAIN K[m] = DOMAIN D[m] \cup {a} /\ K[m][a] = v /\ \A x \in DOMAIN D[m] \ {a} : K[m][x] = D[m][x]
      BY <2>6
    <2>8. ASSUME Shows(D, ledger, n) PROVE Shows(K, ledger, n + 1)
      <3> SUFFICES ASSUME NEW k \in MapNames
                   PROVE  /\ DOMAIN K[k] = {b \in DOMAIN ledger[k] : \E i \in 1 .. n + 1 : CellMap(i) = k /\ CellAddr(i) = b}
                          /\ \A b \in DOMAIN K[k] : K[k][b] = ledger[k][b]
        BY DEF Shows
      <3>1. /\ DOMAIN D[k] = {b \in DOMAIN ledger[k] : \E i \in 1 .. n : CellMap(i) = k /\ CellAddr(i) = b}
            /\ \A b \in DOMAIN D[k] : D[k][b] = ledger[k][b]
        BY <2>8 DEF Shows
      <3>2. CASE k # m
        BY <1>1, <1>3, <2>6, <3>1, <3>2
      <3>3. CASE k = m
        BY <1>1, <1>2, <1>3, <1>5, <2>1, <2>7, <3>1, <3>3
      <3> QED
        BY <3>2, <3>3
    <2> QED
      BY <2>2, <2>5, <2>8
  <1>6. QED
    BY <1>4, <1>5

\* A call that leaves the snapshot alone adds the ledger it makes to the states seen.
LEMMA CallKeepsSnapshot ==
    ASSUME Stakeable, SnapshotInv, LedgerOK(ledger'), UNCHANGED snapshot,
           seen' = IF cell \in 1 .. 2 * Cells THEN seen \cup {ledger'} ELSE seen
    PROVE  SnapshotInv'
  <1>1. cell' = cell /\ data' = data /\ copy' = copy /\ begun' = begun /\ sound' = sound
    BY DEF snapshot
  <1>2. CASE cell \in 1 .. 2 * Cells
    <2>1. seen' = seen \cup {ledger'} /\ ledger \in seen /\ ledger' \in seen' /\ IsFiniteSet(seen)
      BY <1>2 DEF SnapshotInv
    <2>2. IsFiniteSet(seen') /\ \A L \in seen' : LedgerOK(L)
      BY <2>1, FS_AddElement DEF SnapshotInv
    <2>3. \A L \in seen' : seen' = {L} => L \in seen /\ seen = {L}
      BY <2>1
    <2> QED
      BY <1>1, <2>1, <2>2, <2>3 DEF SnapshotInv
  <1>3. CASE cell \notin 1 .. 2 * Cells
    <2>1. seen' = seen
      BY <1>3
    <2> QED
      BY <1>1, <1>3, <2>1 DEF SnapshotInv
  <1>4. QED
    BY <1>2, <1>3

\* The snapshot's own steps.
LEMMA BeginKeepsSnapshot ==
    ASSUME Stakeable, StakingInv, create_snapshot, seen' = {ledger} PROVE StakingInv'
  <1>1. /\ cell' = 1 /\ data' = Empty /\ copy' = Empty /\ ledger' = ledger /\ tasks' = tasks /\ clock' = clock
        /\ staked' = staked /\ begun' = [staked |-> staked, settled |-> AllIdle] /\ sound' = sound /\ cell = 0
    BY DEF create_snapshot
  <1>2. LedgerOK(Empty)
    BY DEF LedgerOK, Empty, NumberMaps, MapNames
  <1>3. StakingTypeOK' /\ StakeIsConserved'
    <2>1. begun' \in [staked : [Addr -> Nat], settled : BOOLEAN]
      BY <1>1 DEF StakingInv, StakingTypeOK, AllIdle
    <2> QED
      BY <1>1, <1>2, <2>1 DEF StakingInv, StakingTypeOK, StakeIsConserved, OnItsWay
  <1>4. Cells \in Nat \ {0}
    BY DEF Stakeable, Cells
  <1>5. IsFiniteSet({ledger}) /\ LedgerOK(ledger)
    BY FS_Singleton DEF StakingInv, StakingTypeOK
  <1>6. sound
    BY <1>1, <1>4 DEF StakingInv, SnapshotInv
  <1>7. ASSUME AllIdle, NEW a \in Addr PROVE TotalOf(ledger, a) = staked[a]
    <2>1. TotalOf(ledger, a) + Total(OnItsWay(a), Thread) = staked[a] /\ TotalOf(ledger, a) \in Nat
      BY <1>5, <1>6, AddressFacts DEF StakingInv, StakeIsConserved
    <2>2. \A t \in Thread : OnItsWay(a)[t] = 0
      BY <1>7 DEF OnItsWay, Held, NoTask, AllIdle
    <2>3. Total(OnItsWay(a), Thread) = 0
      BY <2>2, TotalZero
    <2> QED
      BY <2>1, <2>3
  <1>8. begun'.settled => \A a \in Addr : TotalOf(ledger, a) = begun'.staked[a]
    BY <1>1, <1>7
  <1>9. SnapshotInv'
    BY <1>1, <1>4, <1>5, <1>6, <1>8, ShowsNothing DEF SnapshotInv
  <1>10. QED
    BY <1>3, <1>9 DEF StakingInv

\* A cell is collected as it is now, which is a state seen since the snapshot began.
LEMMA CollectKeepsSnapshot ==
    ASSUME Stakeable, StakingInv, CollectCell \/ HashCell,
           seen' = IF cell \in 1 .. 2 * Cells THEN seen \cup {ledger'} ELSE seen
    PROVE  StakingInv'
  <1>1. PICK c \in Nat \ {0} : c = Cells
    BY DEF Stakeable, Cells
  <1>2. /\ cell \in 1 .. 2 * c /\ cell' = cell + 1 /\ ledger' = ledger /\ tasks' = tasks /\ clock' = clock
        /\ staked' = staked /\ begun' = begun /\ sound' = sound
    BY <1>1 DEF CollectCell, HashCell
  <1>3. ledger \in seen /\ seen' = seen
    BY <1>1, <1>2 DEF StakingInv, SnapshotInv
  <1>4. LedgerOK(ledger) /\ LedgerOK(data) /\ LedgerOK(copy) /\ cell \in Nat
    BY <1>2 DEF StakingInv, StakingTypeOK
  <1>5. ASSUME NEW L \in seen, seen = {L}
        PROVE  /\ ledger = L
               /\ Shows(data, ledger, IF cell <= c THEN cell - 1 ELSE c)
               /\ Shows(copy, ledger, IF cell <= c THEN 0 ELSE cell - 1 - c)
    <2>1. ledger = L
      BY <1>3, <1>5
    <2>2. /\ Shows(data, L, IF cell <= Cells THEN cell - 1 ELSE Cells)
          /\ Shows(copy, L, IF cell <= Cells THEN 0 ELSE cell - 1 - Cells)
      BY <1>1, <1>2, <1>5 DEF StakingInv, SnapshotInv
    <2> QED
      BY <1>1, <2>1, <2>2
  <1>6. CASE CollectCell
    <2>1. PICK n \in Nat : n + 1 = cell /\ n + 1 \in 1 .. c /\ n = cell - 1
      BY <1>1, <1>6 DEF CollectCell
    <2>2. data' = Collect(data, n + 1) /\ copy' = copy
      BY <1>6, <2>1 DEF CollectCell
    <2>3. LedgerOK(data') /\ (Shows(data, ledger, n) => Shows(data', ledger, n + 1))
      BY <1>1, <1>4, <2>1, <2>2, CollectFacts
    <2>4. StakingTypeOK' /\ StakeIsConserved'
      BY <1>2, <1>4, <2>2, <2>3 DEF StakingInv, StakingTypeOK, StakeIsConserved, OnItsWay
    <2>5. ASSUME NEW L \in seen, seen = {L}
          PROVE  /\ Shows(data', L, IF cell' <= c THEN cell' - 1 ELSE c)
                 /\ Shows(copy', L, IF cell' <= c THEN 0 ELSE cell' - 1 - c)
      <3>1. ledger = L /\ Shows(data, ledger, n) /\ Shows(copy, ledger, 0)
        BY <1>5, <2>1, <2>5
      <3>2. (IF cell' <= c THEN cell' - 1 ELSE c) = n + 1 /\ (IF cell' <= c THEN 0 ELSE cell' - 1 - c) = 0
        BY <1>2, <2>1
      <3> QED
        BY <2>2, <2>3, <3>1, <3>2
    <2>6. cell' \in 0 .. 2 * c + 2 /\ (cell' \in 1 .. 2 * c => ledger' \in seen')
      BY <1>2, <1>3
    <2>7. SnapshotInv'
      BY <1>1, <1>2, <1>3, <2>5, <2>6 DEF StakingInv, SnapshotInv, Cells
    <2> QED
      BY <2>4, <2>7 DEF StakingInv
  <1>7. CASE HashCell
    <2>1. PICK n \in Nat : n + 1 = cell - c /\ n + 1 \in 1 .. c /\ n = cell - 1 - c
      BY <1>1, <1>7 DEF HashCell
    <2>2. copy' = Collect(copy, n + 1) /\ data' = data
      BY <1>1, <1>7, <2>1 DEF HashCell
    <2>3. LedgerOK(copy') /\ (Shows(copy, ledger, n) => Shows(copy', ledger, n + 1))
      BY <1>1, <1>4, <2>1, <2>2, CollectFacts
    <2>4. StakingTypeOK' /\ StakeIsConserved'
      BY <1>2, <1>4, <2>2, <2>3 DEF StakingInv, StakingTypeOK, StakeIsConserved, OnItsWay
    <2>5. ASSUME NEW L \in seen, seen = {L}
          PROVE  /\ Shows(data', L, IF cell' <= c THEN cell' - 1 ELSE c)
                 /\ Shows(copy', L, IF cell' <= c THEN 0 ELSE cell' - 1 - c)
      <3>1. ledger = L /\ Shows(data, ledger, c) /\ Shows(copy, ledger, n)
        BY <1>2, <1>5, <2>1, <2>5
      <3>2. (IF cell' <= c THEN cell' - 1 ELSE c) = c /\ (IF cell' <= c THEN 0 ELSE cell' - 1 - c) = n + 1
        BY <1>2, <2>1
      <3> QED
        BY <2>2, <2>3, <3>1, <3>2
    <2>6. cell' \in 0 .. 2 * c + 2 /\ (cell' \in 1 .. 2 * c => ledger' \in seen')
      BY <1>2, <1>3
    <2>7. SnapshotInv'
      BY <1>1, <1>2, <1>3, <2>5, <2>6 DEF StakingInv, SnapshotInv, Cells
    <2> QED
      BY <2>4, <2>7 DEF StakingInv
  <1>8. QED
    BY <1>6, <1>7

\* What restore_from_snapshot leaves of the ledger D.
Parsing(D) == [m \in MapNames |-> [a \in DOMAIN D[m] \cap Parsed |-> D[m][a]]]

LEMMA ParsingFacts ==
    ASSUME NEW D, LedgerOK(D), NEW K, K = Parsing(D)
    PROVE  /\ LedgerOK(K)
           /\ \A a \in Addr : TotalOf(K, a) = IF a \in Parsed THEN TotalOf(D, a) ELSE 0
  <1>1. /\ K = [m \in MapNames |-> K[m]]
        /\ \A m \in MapNames : K[m] = [a \in DOMAIN D[m] \cap Parsed |-> D[m][a]]
    BY DEF Parsing
  <1>2. \A m \in MapNames : DOMAIN K[m] = DOMAIN D[m] \cap Parsed /\ \A a \in DOMAIN K[m] : K[m][a] = D[m][a]
    <2> SUFFICES ASSUME NEW m \in MapNames
                 PROVE  DOMAIN K[m] = DOMAIN D[m] \cap Parsed /\ \A a \in DOMAIN K[m] : K[m][a] = D[m][a]
      OBVIOUS
    <2>1. PICK P : P = DOMAIN D[m] \cap Parsed
      OBVIOUS
    <2>2. K[m] = [a \in P |-> D[m][a]]
      BY <1>1, <2>1
    <2> QED
      BY <2>1, <2>2
  <1>3. NumberMaps \subseteq MapNames /\ "balances" \in MapNames /\ "stakes" \in MapNames /\ "unstake_requests" \in MapNames
    BY DEF NumberMaps, MapNames
  <1>4. LedgerOK(K)
    <2>1. \A m \in MapNames : DOMAIN K[m] \subseteq Addr /\ K[m] = [a \in DOMAIN K[m] |-> K[m][a]]
      BY <1>1, <1>2 DEF LedgerOK
    <2>2. \A m \in NumberMaps : \A a \in DOMAIN K[m] : K[m][a] \in Nat
      BY <1>2, <1>3 DEF LedgerOK
    <2>3. \A a \in DOMAIN K["unstake_requests"] : K["unstake_requests"][a] \in Seq(UnstakeRequest)
      BY <1>2, <1>3 DEF LedgerOK
    <2> QED
      BY <1>1, <2>1, <2>2, <2>3 DEF LedgerOK
  <1>5. ASSUME NEW a \in Addr PROVE TotalOf(K, a) = IF a \in Parsed THEN TotalOf(D, a) ELSE 0
    <2>1. CASE a \in Parsed
      <3>1. Entry(K, "balances", a) = Entry(D, "balances", a) /\ Entry(K, "stakes", a) = Entry(D, "stakes", a)
        BY <1>2, <1>3, <2>1 DEF Entry
      <3>2. Requests(K, a) = Requests(D, a)
        BY <1>2, <1>3, <2>1 DEF Requests
      <3> QED
        BY <2>1, <3>1, <3>2 DEF TotalOf
    <2>2. CASE a \notin Parsed
      <3>1. Entry(K, "balances", a) = 0 /\ Entry(K, "stakes", a) = 0
        BY <1>2, <1>3, <2>2 DEF Entry
      <3>2. Requests(K, a) = <<>>
        BY <1>2, <1>3, <2>2 DEF Requests
      <3> QED
        BY <2>2, <3>1, <3>2, SumOfEmpty DEF TotalOf
    <2> QED
      BY <2>1, <2>2
  <1>6. QED
    BY <1>4, <1>5

\* A restored ledger holds what had been staked when the snapshot was begun, and
\* nothing is under way.
LEMMA RestoreKeepsStakes ==
    ASSUME Stakeable, StakingInv, restore_from_snapshot,
           seen' = IF cell \in 1 .. 2 * Cells THEN seen \cup {ledger'} ELSE seen
    PROVE  StakingInv'
  <1>1. PICK c \in Nat \ {0} : c = Cells
    BY DEF Stakeable, Cells
  <1>2. /\ cell = 2 * c + 1 /\ cell' = 2 * c + 2 /\ tasks' = tasks /\ clock' = clock /\ data' = data /\ copy' = copy
        /\ ledger' = Parsing(data) /\ staked' = Rewound /\ begun' = begun /\ AllIdle
        /\ sound' = (begun.settled /\ Cardinality(seen) = 1)
    BY <1>1 DEF restore_from_snapshot, Complete, Parsing
  <1>3. LedgerOK(data) /\ seen' = seen
    BY <1>1, <1>2 DEF StakingInv, StakingTypeOK
  <1>4. /\ LedgerOK(ledger')
        /\ \A a \in Addr : TotalOf(ledger', a) = IF a \in Parsed THEN TotalOf(data, a) ELSE 0
    BY <1>2, <1>3, ParsingFacts
  <1>5. StakingTypeOK'
    <2>1. staked' \in [Addr -> Nat] /\ sound' \in BOOLEAN
      BY <1>2 DEF Rewound, StakingInv, StakingTypeOK
    <2> QED
      BY <1>2, <1>3, <1>4, <2>1 DEF StakingInv, StakingTypeOK
  <1>6. ASSUME begun.settled, Cardinality(seen) = 1, NEW a \in Addr PROVE TotalOf(data, a) = begun.staked[a]
    <2>1. PICK L \in seen : seen = {L}
      BY <1>6, FS_Singleton DEF StakingInv, SnapshotInv
    <2>2. cell \in 1 .. 2 * c + 1 /\ ~(cell <= c)
      BY <1>2
    <2>3. Shows(data, L, Cells) /\ LedgerOK(L) /\ TotalOf(L, a) = begun.staked[a]
      BY <1>1, <1>6, <2>1, <2>2 DEF StakingInv, SnapshotInv
    <2>4. data = L
      BY <1>3, <2>3, ShowsAll
    <2> QED
      BY <2>3, <2>4
  <1>7. ASSUME sound', NEW a \in Addr PROVE TotalOf(ledger', a) + Total(OnItsWay(a)', Thread) = staked'[a]
    <2>1. \A t \in Thread : OnItsWay(a)'[t] = 0
      BY <1>2 DEF OnItsWay, Held, NoTask, AllIdle
    <2>2. Total(OnItsWay(a)', Thread) = 0
      BY <2>1, TotalZero
    <2>3. TotalOf(ledger', a) \in Nat
      BY <1>4, AddressFacts
    <2>4. staked'[a] = IF a \in Parsed THEN begun.staked[a] ELSE 0
      BY <1>2 DEF Rewound
    <2>5. TotalOf(data, a) = begun.staked[a]
      BY <1>2, <1>6, <1>7
    <2> QED
      BY <1>4, <2>2, <2>3, <2>4, <2>5
  <1>8. SnapshotInv'
    BY <1>1, <1>2, <1>3 DEF StakingInv, SnapshotInv, Cells
  <1>9. QED
    BY <1>5, <1>7, <1>8 DEF StakingInv, StakeIsConserved

\* No stake and no snapshot at first.
LEMMA InitStaking == ASSUME Stakeable, StakingInit PROVE StakingInv
  <1>1. LedgerOK(Empty)
    BY DEF LedgerOK, Empty, NumberMaps, MapNames
  <1>2. StakingTypeOK
    BY <1>1 DEF StakingInit, StakingTypeOK
  <1>3. ASSUME NEW a \in Addr PROVE TotalOf(ledger, a) + Total(OnItsWay(a), Thread) = staked[a]
    <2>1. \A m \in MapNames : DOMAIN Empty[m] = {}
      BY DEF Empty
    <2>2. Entry(Empty, "balances", a) = 0 /\ Entry(Empty, "stakes", a) = 0 /\ Requests(Empty, a) = <<>>
      BY <2>1 DEF Entry, Requests, MapNames
    <2>3. TotalOf(ledger, a) = 0
      BY <2>2, SumOfEmpty DEF TotalOf, StakingInit
    <2>4. \A t \in Thread : OnItsWay(a)[t] = 0
      BY DEF OnItsWay, Held, NoTask, StakingInit
    <2>5. Total(OnItsWay(a), Thread) = 0
      BY <2>4, TotalZero
    <2> QED
      BY <2>3, <2>5 DEF StakingInit
  <1>4. SnapshotInv
    <2>1. Cells \in Nat
      BY DEF Stakeable, Cells
    <2> QED
      BY <2>1, FS_EmptySet DEF StakingInit, SnapshotInv
  <1>5. QED
    BY <1>2, <1>3, <1>4 DEF StakingInv, StakeIsConserved

(***************************************************************************)
(* Whatever calls race for one stake or one request, nothing that was      *)
(* staked is lost or paid twice; a snapshot during which nothing changed   *)
(* is the ledger; and a restore of one that was begun between calls gives  *)
(* each address that parses what had been staked for it by then, and every *)
(* other one nothing (state.rs:129-209, 319-406).                          *)
(***************************************************************************)
THEOREM StakesKept == Stakeable => (StakingSpec => []StakesAreKept)
<1> SUFFICES ASSUME Stakeable PROVE StakingSpec => []StakesAreKept
  OBVIOUS
<1>1. StakingInit => StakingInv
  BY InitStaking
<1>2. StakingInv /\ [StakingNext]_stakingVars => StakingInv'
  <2> SUFFICES ASSUME StakingInv, [StakingNext]_stakingVars PROVE StakingInv'
    OBVIOUS
  <2>1. CASE UNCHANGED stakingVars
    BY <2>1 DEF stakingVars, StakingInv, StakingTypeOK, StakeIsConserved, OnItsWay, SnapshotInv
  <2>2. CASE create_snapshot /\ seen' = {ledger}
    BY <2>2, BeginKeepsSnapshot
  <2>3. CASE Operation /\ seen' = IF cell \in 1 .. 2 * Cells THEN seen \cup {ledger'} ELSE seen
    <3>1. ASSUME StakingTypeOK', StakeIsConserved', UNCHANGED snapshot PROVE StakingInv'
      BY <2>3, <3>1, CallKeepsSnapshot DEF StakingInv, StakingTypeOK
    <3>2. ASSUME NEW t \in Thread, NEW a \in Addr, increment_nonce(t, a) \/ process_unstakes(t, a) PROVE StakingInv'
      BY <3>1, <3>2, NonceKeepsStakes, ProcessKeepsStakes DEF StakingInv, increment_nonce, process_unstakes
    <3>3. ASSUME NEW t \in Thread, NEW a \in Addr, NEW v \in Amounts, add_stake(t, a, v) \/ request_unstake(t, a, v)
          PROVE  StakingInv'
      BY <3>1, <3>3, AddKeepsStakes, UnstakeKeepsStakes DEF StakingInv, add_stake, request_unstake
    <3>4. ASSUME NEW t \in Thread, PushRequest(t) \/ credit(t) PROVE StakingInv'
      BY <3>1, <3>4, PushKeepsStakes, CreditKeepsStakes DEF StakingInv, PushRequest, credit
    <3>5. CASE PassTime
      <4>1. clock' \in [time : Nat, epoch : Nat]
        BY <3>5 DEF PassTime, StakingInv, StakingTypeOK
      <4>2. /\ ledger' = ledger /\ tasks' = tasks /\ staked' = staked /\ UNCHANGED snapshot
            /\ data' = data /\ copy' = copy /\ begun' = begun /\ sound' = sound
        BY <3>5 DEF PassTime, snapshot
      <4>3. StakingTypeOK' /\ StakeIsConserved'
        BY <4>1, <4>2 DEF StakingInv, StakingTypeOK, StakeIsConserved, OnItsWay
      <4> QED
        BY <3>1, <4>2, <4>3
    <3>6. CASE CollectCell \/ HashCell
      BY <2>3, <3>6, CollectKeepsSnapshot
    <3>7. CASE restore_from_snapshot
      BY <2>3, <3>7, RestoreKeepsStakes
    <3> QED
      BY <2>3, <3>2, <3>3, <3>4, <3>5, <3>6, <3>7 DEF Operation
  <2> QED
    BY <2>1, <2>2, <2>3 DEF StakingNext
<1>3. StakingInv => StakesAreKept
  <2> SUFFICES ASSUME StakingInv PROVE QuietSnapshotIsExact
    BY DEF StakingInv, StakesAreKept
  <2> SUFFICES ASSUME Complete, Cardinality(seen) = 1 PROVE data \in seen /\ state_hash(copy) = state_hash(data)
    BY DEF QuietSnapshotIsExact
  <2>1. PICK c \in Nat \ {0} : c = Cells
    BY DEF Stakeable, Cells
  <2>2. PICK L \in seen : seen = {L}
    BY FS_Singleton DEF StakingInv, SnapshotInv
  <2>3. cell = 2 * c + 1 /\ ~(cell <= c) /\ cell - 1 - c = c /\ cell \in 1 .. 2 * c + 1
    BY <2>1 DEF Complete
  <2>4. Shows(data, L, Cells) /\ Shows(copy, L, Cells) /\ LedgerOK(L) /\ LedgerOK(data) /\ LedgerOK(copy)
    BY <2>1, <2>2, <2>3 DEF StakingInv, SnapshotInv, StakingTypeOK
  <2>5. data = L /\ copy = L
    BY <2>4, ShowsAll
  <2> QED
    BY <2>2, <2>5
<1> QED
  BY <1>1, <1>2, <1>3, PTL DEF StakingSpec
=============================================================================
