-------------------------- MODULE ConsensusProofs ---------------------------
(***************************************************************************)
(* Proofs that the vote aggregator of Consensus counts every voter once    *)
(* and misses no decision, for any number of handlers, nodes and           *)
(* transactions and while the validator set changes.                       *)
(***************************************************************************)
EXTENDS Consensus, TotalsProofs

\* Facts about the arithmetic of the counters.
LEMMA WrapType ==
    ASSUME NEW x \in Int PROVE x % (MaxU64 + 1) \in 0 .. MaxU64
  BY ConsensusAssumption

\* Raising a power to at least one keeps it a u64.
LEMMA AtLeastOneType ==
    /\ \A p \in Nat : AtLeastOne(p) \in Nat \ {0}
    /\ \A p \in 0 .. MaxU64 : AtLeastOne(p) \in 0 .. MaxU64
  BY ConsensusAssumption DEF AtLeastOne

\* Each entry of a list counts for a u64, and names a node.
LEMMA WeightsType ==
    ASSUME NEW s \in Seq(Entry)
    PROVE  /\ Len(s) \in Nat
           /\ \A i \in 1 .. Len(s) :
                 s[i].node \in Node /\ Weights(s)[i] \in 0 .. MaxU64 /\ Weights(s)[i] \in Nat \ {0}
  <1>1. \A i \in 1 .. Len(s) : s[i] \in Entry
    OBVIOUS
  <1>2. \A e \in Entry : e.node \in Node /\ e.power \in 0 .. MaxU64 /\ e.power \in Nat
    BY ConsensusAssumption DEF Entry
  <1>3. \A i \in 1 .. Len(s) : Weights(s)[i] = AtLeastOne(s[i].power)
    BY DEF Weights
  <1>4. \A q \in Nat : AtLeastOne(q) \in Nat \ {0}
    BY AtLeastOneType
  <1>5. \A q \in 0 .. MaxU64 : AtLeastOne(q) \in 0 .. MaxU64
    BY AtLeastOneType
  <1>6. Len(s) \in Nat
    OBVIOUS
  <1>7. QED
    BY <1>1, <1>2, <1>3, <1>4, <1>5, <1>6

\* A saturating sum is a u64.
LEMMA SaturatingType ==
    ASSUME NEW x \in 0 .. MaxU64, NEW y \in 0 .. MaxU64
    PROVE  saturating_add(x, y) \in 0 .. MaxU64
  BY ConsensusAssumption DEF saturating_add

\* What evaluate returns, and what Pending means.
LEMMA EvaluateFacts ==
    ASSUME NEW t \in Tally
    PROVE  /\ evaluate(t) \in Outcome
           /\ evaluate(t) = "Pending" =>
                 \/ t.accept + t.reject < Quorum
                 \/ t.accept_weight + t.reject_weight < QuorumWeight
  BY DEF evaluate, Outcome

\* Counting a vote keeps a tally well formed.
LEMMA CountFacts ==
    ASSUME NEW t \in Tally, NEW v \in Vote, NEW p \in Nat
    PROVE  /\ Count(t, v, p) \in Tally
           /\ Count(t, v, p).voters = t.voters \cup {v.voter}
  <1>1. v.voter \in Node /\ v.accept \in BOOLEAN
    BY DEF Vote
  <1>2. AtLeastOne(p) \in Nat
    BY AtLeastOneType
  <1>3. CASE v.voter \in t.voters
    BY <1>3 DEF Count
  <1>4. CASE v.voter \notin t.voters /\ v.accept
    BY <1>1, <1>2, <1>4 DEF Count, Tally
  <1>5. CASE v.voter \notin t.voters /\ ~v.accept
    BY <1>1, <1>2, <1>5 DEF Count, Tally
  <1>6. QED
    BY <1>1, <1>3, <1>4, <1>5

\* The empty tally is a tally.
LEMMA EmptyFacts == Empty \in Tally /\ Empty.voters = {}
  BY DEF Empty, Tally

\* The placeholder of an idle handler is a vote.
LEMMA NoVoteType == NoVote \in Vote
  <1>1. (CHOOSE h \in Hash : TRUE) \in Hash
    BY ConsensusAssumption
  <1>2. QED
    BY <1>1, ConsensusAssumption DEF NoVote, Vote

\* The initial state is well typed.
LEMMA InitTypeOK == Init => TypeOK
  BY EmptyFacts, NoVoteType, ConsensusAssumption DEF Init, TypeOK, Outcome

\* Every step keeps the state well typed.
LEMMA NextTypeOK == TypeOK /\ [Next]_vars => TypeOK'
  <1> SUFFICES ASSUME TypeOK, [Next]_vars PROVE TypeOK'
    OBVIOUS
  <1> USE DEF TypeOK, engine, hlocals, alocals, Others
  <1>1. ASSUME NEW h \in Hash, DagInsert(h) \/ DagPrune(h) PROVE TypeOK'
    BY <1>1 DEF DagInsert, DagPrune
  <1>2. ASSUME NEW c \in Handler, NEW v \in Vote, ReceiveVote(c, v) PROVE TypeOK'
    BY <1>2 DEF ReceiveVote
  <1>3. ASSUME NEW c \in Handler, HandlerStep(c) PROVE TypeOK'
    <2>1. vote[c] \in Vote /\ vote[c].voter \in Node /\ vote[c].tx_hash \in Hash
      BY DEF Vote
    <2>2. CASE LookupPower(c)
      <3>1. validators[vote[c].voter] \in Nat
        BY <2>1, ConsensusAssumption
      <3>2. QED
        BY <2>2, <3>1, NoVoteType DEF LookupPower, Return
    <2>3. CASE RecordVote(c)
      <3> DEFINE t == Count(tallies[vote[c].tx_hash], vote[c], power[c])
      <3>1. t \in Tally /\ evaluate(t) \in Outcome
        BY <2>1, CountFacts, EvaluateFacts
      <3> HIDE DEF t
      <3>2. /\ tallies' = [tallies EXCEPT ![vote[c].tx_hash] = t]
            /\ outcome' = [outcome EXCEPT ![c] = evaluate(t)]
        BY <2>3 DEF RecordVote, t
      <3>3. QED
        BY <2>1, <2>3, <3>1, <3>2 DEF RecordVote
    <2>4. CASE SetStatus(c)
      BY <2>1, <2>4, NoVoteType DEF SetStatus, Return, StatusOf, Outcome
    <2>5. CASE Finalize(c)
      BY <2>1, <2>5, EmptyFacts DEF Finalize
    <2>6. CASE Emit(c)
      BY <2>1, <2>6, NoVoteType DEF Emit, Return, Outcome
    <2>7. QED
      BY <1>3, <2>2, <2>3, <2>4, <2>5, <2>6 DEF HandlerStep
  <1>4. ASSUME NEW m \in Admin, NEW n \in Node, NEW p \in Powers, RegisterValidator(m, n, p)
        PROVE  TypeOK'
    BY <1>4, AtLeastOneType, ConsensusAssumption DEF RegisterValidator
  <1>5. ASSUME NEW m \in Admin, NEW s \in Sets, SetValidatorSet(m, s) PROVE TypeOK'
    <2>1. s \in Seq(Entry) /\ Len(s) \in Nat
      BY ConsensusAssumption, WeightsType
    <2>2. QED
      BY <1>5, <2>1, ConsensusAssumption DEF SetValidatorSet
  <1>6. ASSUME NEW m \in Admin, AdminStep(m) PROVE TypeOK'
    <2>1. CASE SubtractPrevious(m)
      <3>1. (total_voting_power - previous[m]) % (MaxU64 + 1) \in 0 .. MaxU64 /\ 0 \in 0 .. MaxU64
        BY WrapType, ConsensusAssumption
      <3>2. /\ apc[m] = "sub" /\ apc' = [apc EXCEPT ![m] = "add"]
            /\ UNCHANGED <<at, new>>
        BY <2>1 DEF SubtractPrevious
      <3>3. \A k \in Admin : /\ at'[k] <= Len(new'[k])
                             /\ apc'[k] \in {"idle", "sub", "add", "clear"} => at'[k] = 0
        BY <3>2
      <3>4. QED
        BY <2>1, <3>1, <3>3 DEF SubtractPrevious
    <2>2. CASE AddNew(m)
      <3>1. (total_voting_power + sum[m]) % (MaxU64 + 1) \in 0 .. MaxU64 /\ 0 \in 0 .. MaxU64
        BY WrapType, ConsensusAssumption
      <3>2. /\ apc[m] = "add" /\ apc' = [apc EXCEPT ![m] = "idle"]
            /\ UNCHANGED <<at, new>>
        BY <2>2 DEF AddNew
      <3>3. \A k \in Admin : /\ at'[k] <= Len(new'[k])
                             /\ apc'[k] \in {"idle", "sub", "add", "clear"} => at'[k] = 0
        BY <3>2
      <3>4. QED
        BY <2>2, <3>1, <3>3 DEF AddNew
    <2>3. ASSUME NEW n \in Node, ClearEntry(m, n) PROVE TypeOK'
      <3>1. /\ apc[m] = "clear" /\ validators' = [validators EXCEPT ![n] = 0]
            /\ todo' = [todo EXCEPT ![m] = @ \ {n}]
            /\ apc' = [apc EXCEPT ![m] = IF todo[m] = {n} THEN "fill" ELSE "clear"]
            /\ UNCHANGED <<total_voting_power, new, at, previous, sum, installed, tallies, status,
                           decided, hpc, vote, power, outcome, heard>>
        BY <2>3 DEF ClearEntry
      <3>2. validators' \in [Node -> 0 .. MaxU64]
        BY <3>1, ConsensusAssumption
      <3>3. todo' \in [Admin -> SUBSET Node]
        BY <3>1
      <3>4. apc' \in [Admin -> {"idle", "sub", "add", "clear", "fill", "local", "store"}]
        BY <3>1
      <3>5. \A k \in Admin : apc'[k] \in {"idle", "sub", "add", "clear"} => at'[k] = 0
        BY <3>1
      <3>6. QED
        BY <3>1, <3>2, <3>3, <3>4, <3>5
    <2>4. CASE InsertEntry(m)
      <3> DEFINE i == at[m] + 1
                 e == new[m][i]
                 p == Weights(new[m])[i]
      <3>1. /\ apc[m] = "fill" /\ at[m] < Len(new[m]) /\ at' = [at EXCEPT ![m] = i]
            /\ sum' = [sum EXCEPT ![m] = saturating_add(@, p)]
            /\ validators' = [validators EXCEPT ![e.node] = p]
            /\ UNCHANGED <<total_voting_power, apc, new, previous, todo, installed, tallies, status,
                           decided, hpc, vote, power, outcome, heard>>
        BY <2>4 DEF InsertEntry
      <3>2. i \in 1 .. Len(new[m]) /\ i \in Nat /\ i <= Len(new[m])
        BY <3>1, WeightsType
      <3>3. e.node \in Node /\ p \in 0 .. MaxU64
        BY <3>2, WeightsType
      <3> HIDE DEF i, e, p
      <3>4. saturating_add(sum[m], p) \in 0 .. MaxU64
        BY <3>3, SaturatingType
      <3>5. at' \in [Admin -> Nat] /\ \A k \in Admin :
                /\ at'[k] <= Len(new'[k])
                /\ apc'[k] \in {"idle", "sub", "add", "clear"} => at'[k] = 0
        BY <3>1, <3>2
      <3>6. QED
        BY <3>1, <3>3, <3>4, <3>5
    <2>5. CASE CheckLocal(m)
      BY <2>5 DEF CheckLocal
    <2>6. CASE InsertLocal(m)
      <3>1. 1 \in 0 .. MaxU64 /\ Local \in Node
        BY ConsensusAssumption
      <3>2. saturating_add(sum[m], 1) \in 0 .. MaxU64
        BY <3>1, SaturatingType
      <3>3. QED
        BY <2>6, <3>1, <3>2 DEF InsertLocal
    <2>7. CASE StoreTotal(m)
      BY <2>7, ConsensusAssumption DEF StoreTotal
    <2>8. QED
      BY <1>6, <2>1, <2>2, <2>3, <2>4, <2>5, <2>6, <2>7 DEF AdminStep
  <1>7. CASE UNCHANGED vars
    BY <1>7 DEF vars
  <1>8. QED
    BY <1>1, <1>2, <1>3, <1>4, <1>5, <1>6, <1>7 DEF Next

-----------------------------------------------------------------------------
\* How counting a vote changes the numbers of a tally.
Exact(t) == /\ IsFiniteSet(t.voters)
            /\ t.accept + t.reject = Cardinality(t.voters)
            /\ t.accept_weight >= t.accept /\ t.reject_weight >= t.reject

\* The empty tally is exact.
LEMMA EmptyExact == Exact(Empty)
  BY FS_EmptySet DEF Exact, Empty

\* Counting a vote keeps a tally exact, also when the voter is known.
LEMMA CountExact ==
    ASSUME NEW t \in Tally, NEW v \in Vote, NEW p \in Nat, Exact(t)
    PROVE  Exact(Count(t, v, p))
  <1> DEFINE w == AtLeastOne(p)
  <1>1. w \in Nat /\ w >= 1
    BY AtLeastOneType
  <1>2. CASE v.voter \in t.voters
    BY <1>2 DEF Count
  <1>3. CASE v.voter \notin t.voters
    <2>1. /\ IsFiniteSet(t.voters \cup {v.voter})
          /\ Cardinality(t.voters \cup {v.voter}) = Cardinality(t.voters) + 1
      BY <1>3, FS_AddElement DEF Exact
    <2>2. /\ t.accept \in Nat /\ t.reject \in Nat
          /\ t.accept_weight \in Nat /\ t.reject_weight \in Nat
      BY DEF Tally
    <2>3. CASE v.accept
      <3>1. Count(t, v, p) = [accept |-> t.accept + 1, reject |-> t.reject + 0,
                              accept_weight |-> t.accept_weight + w,
                              reject_weight |-> t.reject_weight + 0,
                              voters |-> t.voters \cup {v.voter}]
        BY <1>3, <2>3 DEF Count
      <3> HIDE DEF w
      <3>2. QED
        BY <1>1, <2>1, <2>2, <3>1 DEF Exact
    <2>4. CASE ~v.accept
      <3>1. Count(t, v, p) = [accept |-> t.accept + 0, reject |-> t.reject + 1,
                              accept_weight |-> t.accept_weight + 0,
                              reject_weight |-> t.reject_weight + w,
                              voters |-> t.voters \cup {v.voter}]
        BY <1>3, <2>4 DEF Count
      <3> HIDE DEF w
      <3>2. QED
        BY <1>1, <2>1, <2>2, <3>1 DEF Exact
    <2>5. QED
      BY <2>3, <2>4
  <1>4. QED
    BY <1>2, <1>3

\* Every tally is exact, whoever counts.
CountInv == \A h \in Hash : Exact(tallies[h])

\* Every step keeps every tally exact.
LEMMA NextCountInv == TypeOK /\ CountInv /\ [Next]_vars => CountInv'
  <1> SUFFICES ASSUME TypeOK, CountInv, [Next]_vars PROVE CountInv'
    OBVIOUS
  <1>1. CASE UNCHANGED tallies
    BY <1>1 DEF CountInv
  <1>2. ASSUME NEW c \in Handler, RecordVote(c) PROVE CountInv'
    <2> DEFINE g == vote[c].tx_hash
               t == Count(tallies[g], vote[c], power[c])
    <2>1. vote[c] \in Vote /\ g \in Hash /\ power[c] \in Nat /\ tallies[g] \in Tally
      BY DEF TypeOK, Vote
    <2>2. Exact(t)
      BY <2>1, CountExact DEF CountInv
    <2>3. tallies' = [tallies EXCEPT ![g] = t] /\ DOMAIN tallies = Hash
      BY <1>2 DEF RecordVote, TypeOK
    <2> HIDE DEF t, g
    <2>4. QED
      BY <2>2, <2>3 DEF CountInv
  <1>3. ASSUME NEW c \in Handler, Finalize(c) PROVE CountInv'
    BY <1>3, EmptyExact DEF Finalize, CountInv, TypeOK
  <1>4. UNCHANGED tallies \/ (\E c \in Handler : RecordVote(c) \/ Finalize(c))
    BY DEF Next, vars, HandlerStep, AdminStep, DagInsert, DagPrune, ReceiveVote, LookupPower,
           SetStatus, Emit, RegisterValidator, SubtractPrevious, AddNew, SetValidatorSet,
           ClearEntry, InsertEntry, CheckLocal, InsertLocal, StoreTotal, Others
  <1>5. QED
    BY <1>1, <1>2, <1>3, <1>4

\* A step that keeps tallies and decisions, and the handlers that carry one.
LEMMA UndecidedFrame ==
    ASSUME UndecidedIsPending, UNCHANGED <<tallies, decided, heard>>,
           \A c \in Handler : hpc[c] \in {"status", "finalize", "emit"} /\ outcome[c] # "Pending" =>
               /\ hpc'[c] \in {"status", "finalize", "emit"}
               /\ outcome'[c] # "Pending" /\ vote'[c] = vote[c]
    PROVE  UndecidedIsPending'
  BY DEF UndecidedIsPending, Deciding

\* Every step keeps an undecided tally complete and below the quorum.
LEMMA NextUndecided ==
    TypeOK /\ UndecidedIsPending /\ [Next]_vars => UndecidedIsPending'
  <1> SUFFICES ASSUME TypeOK, UndecidedIsPending, [Next]_vars PROVE UndecidedIsPending'
    OBVIOUS
  <1>1. ASSUME NEW h \in Hash, DagInsert(h) \/ DagPrune(h) PROVE UndecidedIsPending'
    BY <1>1, UndecidedFrame DEF DagInsert, DagPrune, hlocals
  <1>2. ASSUME NEW c \in Handler, NEW v \in Vote, ReceiveVote(c, v) PROVE UndecidedIsPending'
    BY <1>2, UndecidedFrame DEF ReceiveVote, TypeOK
  <1>3. ASSUME NEW c \in Handler, HandlerStep(c) PROVE UndecidedIsPending'
    <2>1. CASE LookupPower(c)
      BY <2>1, UndecidedFrame DEF LookupPower, Return, TypeOK
    <2>2. CASE RecordVote(c)
      <3> DEFINE g == vote[c].tx_hash
                 t == Count(tallies[g], vote[c], power[c])
      <3>1. vote[c] \in Vote /\ g \in Hash /\ power[c] \in Nat /\ tallies[g] \in Tally
        BY DEF TypeOK, Vote
      <3>2. t.voters = tallies[g].voters \cup {vote[c].voter}
        BY <3>1, CountFacts
      <3>3. /\ hpc[c] = "record" /\ hpc' = [hpc EXCEPT ![c] = "status"]
            /\ tallies' = [tallies EXCEPT ![g] = t]
            /\ outcome' = [outcome EXCEPT ![c] = evaluate(t)]
            /\ heard' = [heard EXCEPT ![g] = heard[g] \cup {vote[c].voter}]
            /\ UNCHANGED <<decided, vote>>
        BY <2>2 DEF RecordVote
      <3> HIDE DEF t, g
      <3>4. ASSUME NEW h \in Hash, Deciding(h) PROVE Deciding(h)'
        BY <3>3, <3>4 DEF Deciding, TypeOK
      <3>5. ASSUME NEW h \in Hash, h # g
            PROVE  tallies'[h] = tallies[h] /\ heard'[h] = heard[h]
        BY <3>3, <3>5 DEF TypeOK
      <3>6. tallies'[g] = t /\ heard'[g] = heard[g] \cup {vote[c].voter}
        BY <3>1, <3>3 DEF TypeOK
      <3>7. ASSUME NEW h \in Hash, h = g, evaluate(t) # "Pending" PROVE Deciding(h)'
        BY <3>3, <3>7 DEF Deciding, TypeOK, g
      <3>8. ASSUME NEW h \in Hash
            PROVE  \/ decided'[h] # "none"
                   \/ Deciding(h)'
                   \/ tallies'[h].voters = heard'[h] /\ evaluate(tallies'[h]) = "Pending"
        <4>1. CASE decided[h] # "none" \/ Deciding(h)
          BY <3>3, <3>4, <4>1
        <4>2. CASE h # g /\ tallies[h].voters = heard[h] /\ evaluate(tallies[h]) = "Pending"
          BY <3>5, <4>2
        <4>3. CASE h = g /\ tallies[h].voters = heard[h]
          BY <3>2, <3>6, <3>7, <4>3
        <4>4. QED
          BY <4>1, <4>2, <4>3 DEF UndecidedIsPending
      <3>9. QED
        BY <3>8 DEF UndecidedIsPending
    <2>3. CASE SetStatus(c)
      BY <2>3, UndecidedFrame DEF SetStatus, Return, TypeOK
    <2>4. CASE Finalize(c)
      <3>1. \A h \in Hash : Deciding(h) => Deciding(h)'
        BY <2>4 DEF Finalize, Deciding, TypeOK
      <3>2. Deciding(vote[c].tx_hash)
        BY <2>4 DEF Finalize, Deciding, TypeOK
      <3>3. \A h \in Hash : h # vote[c].tx_hash => tallies'[h] = tallies[h]
        BY <2>4 DEF Finalize, TypeOK
      <3>4. UNCHANGED <<decided, heard>>
        BY <2>4 DEF Finalize
      <3>5. QED
        BY <3>1, <3>2, <3>3, <3>4 DEF UndecidedIsPending
    <2>5. CASE Emit(c)
      <3>1. vote[c].tx_hash \in Hash /\ outcome[c] \in {"Accepted", "Rejected"}
        BY <2>5 DEF Emit, TypeOK, Vote, Outcome
      <3>2. decided'[vote[c].tx_hash] # "none"
        BY <2>5, <3>1 DEF Emit, TypeOK
      <3>3. ASSUME NEW h \in Hash, h # vote[c].tx_hash
            PROVE  decided'[h] = decided[h] /\ (Deciding(h) => Deciding(h)')
        BY <2>5, <3>3 DEF Emit, Return, Deciding, TypeOK
      <3>4. UNCHANGED <<tallies, heard>>
        BY <2>5 DEF Emit
      <3>5. QED
        BY <3>2, <3>3, <3>4 DEF UndecidedIsPending
    <2>6. QED
      BY <1>3, <2>1, <2>2, <2>3, <2>4, <2>5 DEF HandlerStep
  <1>4. ASSUME NEW m \in Admin, NEW n \in Node, NEW p \in Powers, RegisterValidator(m, n, p)
        PROVE  UndecidedIsPending'
    BY <1>4, UndecidedFrame DEF RegisterValidator, Others, hlocals
  <1>5. ASSUME NEW m \in Admin, NEW s \in Sets, SetValidatorSet(m, s)
        PROVE  UndecidedIsPending'
    BY <1>5, UndecidedFrame DEF SetValidatorSet, Others, hlocals
  <1>6. ASSUME NEW m \in Admin, AdminStep(m) PROVE UndecidedIsPending'
    <2>1. UNCHANGED <<tallies, decided, heard, hpc, vote, outcome>>
      BY <1>6 DEF AdminStep, SubtractPrevious, AddNew, ClearEntry, InsertEntry, CheckLocal,
                  InsertLocal, StoreTotal, Others, hlocals
    <2>2. QED
      BY <2>1, UndecidedFrame
  <1>7. CASE UNCHANGED vars
    BY <1>7, UndecidedFrame DEF vars, hlocals
  <1>8. QED
    BY <1>1, <1>2, <1>3, <1>4, <1>5, <1>6, <1>7 DEF Next

-----------------------------------------------------------------------------
ConsensusInv == TypeOK /\ CountInv /\ UndecidedIsPending

\* The inductive invariant holds in every reachable state.
LEMMA Invariance == Spec => []ConsensusInv
  <1>1. Init => ConsensusInv
    <2> SUFFICES ASSUME Init PROVE ConsensusInv
      OBVIOUS
    <2>1. TypeOK
      BY InitTypeOK
    <2>2. CountInv
      BY EmptyExact DEF Init, CountInv
    <2>3. \A h \in Hash : decided[h] = "none" /\ tallies[h] = Empty /\ heard[h] = {}
      BY DEF Init
    <2>4. UndecidedIsPending
      <3>1. evaluate(Empty) = "Pending"
        BY ConsensusAssumption DEF evaluate, Empty
      <3>2. QED
        BY <2>3, <3>1, EmptyFacts DEF UndecidedIsPending
    <2>5. QED
      BY <2>1, <2>2, <2>4 DEF ConsensusInv
  <1>2. ConsensusInv /\ [Next]_vars => ConsensusInv'
    BY NextTypeOK, NextCountInv, NextUndecided DEF ConsensusInv
  <1>3. QED
    BY <1>1, <1>2, PTL DEF Spec

\* The engine's state keeps its types; total_voting_power stays a u64.
THEOREM TypeCorrect == Spec => []TypeOK
  <1>1. ConsensusInv => TypeOK
    BY DEF ConsensusInv
  <1>2. QED
    BY <1>1, Invariance, PTL

(***************************************************************************)
(* However many handlers record votes, a tally counts each voter once and  *)
(* with a weight of at least one (vote.rs:83-104).                         *)
(***************************************************************************)
THEOREM VotersCountedOnce == Spec => []VoterCountedOnce
  <1>1. ConsensusInv => VoterCountedOnce
    BY DEF ConsensusInv, CountInv, Exact, VoterCountedOnce
  <1>2. QED
    BY <1>1, Invariance, PTL

(***************************************************************************)
(* No decision is missed: when enough different voters have been heard, a  *)
(* decision has been announced or is on its way (vote.rs:107-129).         *)
(***************************************************************************)
THEOREM QuorumsAreDecided == Spec => []QuorumIsDecided
  <1>1. ConsensusInv => QuorumIsDecided
    <2> SUFFICES ASSUME ConsensusInv, NEW h \in Hash, decided[h] = "none", ~Deciding(h),
                        Cardinality(heard[h]) >= Quorum,
                        Cardinality(heard[h]) >= QuorumWeight
                 PROVE  FALSE
      BY DEF QuorumIsDecided
    <2> DEFINE t == tallies[h]
    <2>1. t \in Tally /\ Exact(t) /\ t.voters = heard[h] /\ evaluate(t) = "Pending"
      BY DEF ConsensusInv, TypeOK, CountInv, UndecidedIsPending
    <2>2. \/ t.accept + t.reject < Quorum
          \/ t.accept_weight + t.reject_weight < QuorumWeight
      BY <2>1, EvaluateFacts
    <2>3. /\ t.accept \in Nat /\ t.reject \in Nat
          /\ t.accept_weight \in Nat /\ t.reject_weight \in Nat
      BY <2>1 DEF Tally
    <2>4. /\ t.accept + t.reject = Cardinality(heard[h])
          /\ t.accept_weight >= t.accept /\ t.reject_weight >= t.reject
      BY <2>1 DEF Exact
    <2>5. QED
      BY <2>2, <2>3, <2>4, ConsensusAssumption
  <1>2. QED
    BY <1>1, Invariance, PTL

(***************************************************************************)
(* The strengthening of QuorumIsDecided holds by itself: until a decision  *)
(* is taken, a tally has every voter ever heard and has not reached its    *)
(* quorum, so no vote is forgotten before its time (vote.rs:83-129).       *)
(***************************************************************************)
THEOREM UndecidedArePending == Spec => []UndecidedIsPending
  <1>1. ConsensusInv => UndecidedIsPending
    BY DEF ConsensusInv
  <1>2. QED
    BY <1>1, Invariance, PTL

-----------------------------------------------------------------------------
(***************************************************************************)
(* One vote handler, as in the node's event loop: the status it has set is *)
(* that of the decision it is about to announce, and where it announces    *)
(* nothing the status is that of the last announcement.                    *)
(***************************************************************************)
SingleHandler == \A c, d \in Handler : c = d

Agrees(h, o) ==
    /\ status[h] = "Confirmed" => o = "Accepted"
    /\ status[h] = "Rejected" => o = "Rejected"

Announcing(c) == hpc[c] \in {"finalize", "emit"}

StatusInv ==
    /\ \A c \in Handler : Announcing(c) => outcome[c] # "Pending" /\ Agrees(vote[c].tx_hash, outcome[c])
    /\ \A h \in Hash : (\A c \in Handler : ~(Announcing(c) /\ vote[c].tx_hash = h)) => Agrees(h, decided[h])

\* What the DAG does to a status agrees with every decision.
LEMMA DagKeepsStatus ==
    ASSUME TypeOK, StatusInv, NEW h \in Hash, DagInsert(h) \/ DagPrune(h) PROVE StatusInv'
  <1>1. /\ status' = [status EXCEPT ![h] = "Pending"] \/ status' = [status EXCEPT ![h] = "absent"]
        /\ UNCHANGED <<hpc, vote, outcome, decided>>
    BY DEF DagInsert, DagPrune, hlocals
  <1>2. \A k \in Hash : status'[k] = status[k] \/ status'[k] \in {"Pending", "absent"}
    BY <1>1 DEF TypeOK
  <1>3. \A k \in Hash, o \in Outcome \cup {"none"} : Agrees(k, o) => Agrees(k, o)'
    BY <1>2 DEF Agrees
  <1>4. /\ \A c \in Handler : vote[c].tx_hash \in Hash /\ outcome[c] \in Outcome
        /\ \A k \in Hash : decided[k] \in Outcome \cup {"none"}
    BY DEF TypeOK, Vote, Outcome
  <1>5. QED
    BY <1>1, <1>3, <1>4 DEF StatusInv, Announcing

\* A step that announces nothing new and sets no status.
LEMMA StatusFrame ==
    ASSUME StatusInv, UNCHANGED <<status, decided>>,
           \A c \in Handler : /\ Announcing(c)' <=> Announcing(c)
                              /\ Announcing(c) => vote'[c] = vote[c] /\ outcome'[c] = outcome[c]
    PROVE  StatusInv'
  BY DEF StatusInv, Agrees

\* The handler sets the status of what it decides, and then announces that.
LEMMA HandlerKeepsStatus ==
    ASSUME SingleHandler, TypeOK, StatusInv, NEW c \in Handler, HandlerStep(c) PROVE StatusInv'
  <1>1. \A d \in Handler : d = c
    BY DEF SingleHandler
  <1>2. vote[c].tx_hash \in Hash /\ outcome[c] \in Outcome
    BY DEF TypeOK, Vote
  <1>3. CASE LookupPower(c) \/ RecordVote(c)
    <2>1. UNCHANGED <<status, decided>> /\ hpc[c] \in {"lookup", "record"}
      BY <1>3 DEF LookupPower, RecordVote
    <2>2. \E pc \in {"idle", "record", "status"} : hpc' = [hpc EXCEPT ![c] = pc]
      BY <1>3 DEF LookupPower, RecordVote, Return
    <2>3. ~Announcing(c) /\ ~Announcing(c)'
      BY <2>1, <2>2 DEF Announcing, TypeOK
    <2>4. QED
      BY <1>1, <2>1, <2>3, StatusFrame
  <1>4. CASE Finalize(c)
    <2>1. hpc[c] = "finalize" /\ hpc' = [hpc EXCEPT ![c] = "emit"] /\ UNCHANGED <<status, decided, vote, outcome>>
      BY <1>4 DEF Finalize
    <2>2. Announcing(c) /\ Announcing(c)'
      BY <2>1 DEF Announcing, TypeOK
    <2>3. QED
      BY <1>1, <2>1, <2>2, StatusFrame
  <1>5. CASE SetStatus(c)
    <2> DEFINE h == vote[c].tx_hash
    <2>1. /\ hpc[c] = "status" /\ UNCHANGED <<decided, outcome>>
          /\ status' = [status EXCEPT ![h] = IF @ = "absent" THEN @ ELSE StatusOf(outcome[c])]
      BY <1>5 DEF SetStatus
    <2>2. /\ \A k \in Hash \ {h} : status'[k] = status[k]
          /\ status'[h] \in {"absent", StatusOf(outcome[c])}
      BY <1>2, <2>1 DEF TypeOK
    <2>3. \A k \in Hash : Agrees(k, decided[k])
      BY <1>1, <2>1 DEF StatusInv, Announcing
    <2>4. \A k \in Hash \ {h} : Agrees(k, decided[k])'
      BY <2>1, <2>2, <2>3 DEF Agrees
    <2>5. CASE outcome[c] = "Pending"
      <3>1. hpc' = [hpc EXCEPT ![c] = "idle"]
        BY <1>5, <2>5 DEF SetStatus, Return
      <3>2. ~Announcing(c)'
        BY <3>1 DEF Announcing, TypeOK
      <3>3. \A k \in Hash : Agrees(k, decided[k])'
        BY <2>2, <2>4, <2>5 DEF Agrees, StatusOf
      <3>4. QED
        BY <1>1, <3>2, <3>3 DEF StatusInv
    <2>6. CASE outcome[c] # "Pending"
      <3>1. hpc' = [hpc EXCEPT ![c] = "finalize"] /\ vote' = vote
        BY <1>5, <2>6 DEF SetStatus
      <3>2. Announcing(c)'
        BY <3>1 DEF Announcing, TypeOK
      <3>3. Agrees(h, outcome[c])'
        BY <1>2, <2>1, <2>2, <2>6, <3>1 DEF Agrees, StatusOf, Outcome
      <3>4. vote'[c].tx_hash = h /\ outcome'[c] # "Pending"
        BY <2>1, <2>6, <3>1
      <3>5. Agrees(vote[c].tx_hash, outcome[c])'
        BY <3>1, <3>3
      <3>6. QED
        BY <1>1, <2>4, <3>2, <3>4, <3>5 DEF StatusInv
    <2>7. QED
      BY <2>5, <2>6
  <1>6. CASE Emit(c)
    <2> DEFINE h == vote[c].tx_hash
    <2>1. /\ hpc[c] = "emit" /\ UNCHANGED status /\ hpc' = [hpc EXCEPT ![c] = "idle"]
          /\ decided' = [decided EXCEPT ![h] = outcome[c]]
      BY <1>6 DEF Emit, Return
    <2>2. ~Announcing(c)' /\ Announcing(c)
      BY <2>1 DEF Announcing, TypeOK
    <2>3. decided'[h] = outcome[c] /\ \A k \in Hash \ {h} : decided'[k] = decided[k]
      BY <1>2, <2>1 DEF TypeOK
    <2>4. Agrees(h, outcome[c])
      BY <2>2 DEF StatusInv
    <2>5. \A k \in Hash \ {h} : Agrees(k, decided[k])
      BY <1>1 DEF StatusInv
    <2>6. \A k \in Hash : Agrees(k, decided'[k])
      BY <2>3, <2>4, <2>5
    <2>7. \A k \in Hash : Agrees(k, decided[k])'
      BY <2>1, <2>6 DEF Agrees
    <2>8. QED
      BY <1>1, <2>2, <2>7 DEF StatusInv
  <1>7. QED
    BY <1>3, <1>4, <1>5, <1>6 DEF HandlerStep

\* Every step keeps the status in line with the announcements.
LEMMA NextStatus == ASSUME SingleHandler, TypeOK, StatusInv, [Next]_vars PROVE StatusInv'
  <1>1. ASSUME NEW c \in Handler, NEW v \in Vote, ReceiveVote(c, v) PROVE StatusInv'
    <2>1. /\ hpc[c] = "idle" /\ hpc' = [hpc EXCEPT ![c] = "lookup"] /\ UNCHANGED <<status, decided>>
      BY <1>1 DEF ReceiveVote
    <2>2. ~Announcing(c) /\ ~Announcing(c)' /\ \A d \in Handler : d = c
      BY <2>1 DEF Announcing, TypeOK, SingleHandler
    <2>3. QED
      BY <2>1, <2>2, StatusFrame
  <1>2. ASSUME UNCHANGED Others PROVE StatusInv'
    BY <1>2, StatusFrame DEF Others, hlocals, Announcing
  <1>3. ASSUME NEW m \in Admin, NEW n \in Node, NEW p \in Powers, RegisterValidator(m, n, p) PROVE StatusInv'
    BY <1>2, <1>3 DEF RegisterValidator
  <1>4. ASSUME NEW m \in Admin, NEW s \in Sets, SetValidatorSet(m, s) PROVE StatusInv'
    BY <1>2, <1>4 DEF SetValidatorSet
  <1>5. ASSUME NEW m \in Admin, AdminStep(m) PROVE StatusInv'
    BY <1>2, <1>5 DEF AdminStep, SubtractPrevious, AddNew, ClearEntry, InsertEntry, CheckLocal, InsertLocal, StoreTotal
  <1>6. CASE UNCHANGED vars
    BY <1>2, <1>6 DEF vars, Others
  <1>7. QED
    BY <1>1, <1>3, <1>4, <1>5, <1>6, DagKeepsStatus, HandlerKeepsStatus DEF Next

(***************************************************************************)
(* With the one vote handler of the event loop, what the DAG says about a  *)
(* transaction agrees with the last decision announced for it, whatever    *)
(* votes come after a decision (engine.rs:160-178).                        *)
(***************************************************************************)
THEOREM StatusMatchesEvents == SingleHandler => (Spec => []StatusMatchesLastEvent)
  <1> SUFFICES ASSUME SingleHandler PROVE Spec => []StatusMatchesLastEvent
    OBVIOUS
  <1>1. Init => StatusInv
    BY DEF Init, StatusInv, Announcing, Agrees
  <1>2. TypeOK /\ StatusInv /\ [Next]_vars => StatusInv'
    BY NextStatus
  <1>3. StatusInv => StatusMatchesLastEvent
    BY DEF StatusInv, StatusMatchesLastEvent, InProgress, Announcing, Agrees
  <1>4. QED
    BY <1>1, <1>2, <1>3, TypeCorrect, PTL DEF Spec

-----------------------------------------------------------------------------
(***************************************************************************)
(* The total voting power.  The powers an entry can have, and what the     *)
(* theorem asks of the callers: that the powers of the validators, with    *)
(* what a list repeats, and those of a list, with the local node, add up   *)
(* to a u64, and that set_validator_set does not race, as its clearing and *)
(* filling is not one step.                                                *)
(***************************************************************************)
Listed(s) == {Weights(s)[i] : i \in 1 .. Len(s)}

Allowed == {0, 1} \cup {AtLeastOne(p) : p \in Powers} \cup UNION {Listed(s) : s \in Sets}

Administered ==
    /\ IsFiniteSet(Node) /\ IsFiniteSet(Admin)
    /\ Sets = {} \/ \E m \in Admin : Admin = {m}
    /\ \A s \in Sets : Total(Weights(s), 1 .. Len(s)) < MaxU64
    /\ \A s \in Sets \cup {<<>>}, f \in [Node -> Allowed] : Total(f, Node) + Repeated(s) <= MaxU64

\* x and y are the same number for a counter that wraps.
Congruent(x, y) == \E k \in Int : x = y + k * (MaxU64 + 1)

Registering(m) == apc[m] \in {"idle", "sub", "add"}

\* Every entry has a power that somebody asked for.
AllowedInv ==
    /\ validators \in [Node -> Allowed]
    /\ new \in [Admin -> Sets \cup {<<>>}] /\ installed \in Sets \cup {<<>>}

\* The first k entries of s leave f: each node has the power of its last one.
Filled(f, s, k) ==
    \A n \in Node :
        \/ f[n] = 0 /\ \A i \in 1 .. k : s[i].node # n
        \/ \E i \in 1 .. k :
               s[i].node = n /\ f[n] = Weights(s)[i] /\ \A j \in i + 1 .. k : s[j].node # n

\* What a call has still to do to the total, and how far set_validator_set has got.
UpdateInv ==
    \A m \in Admin :
        /\ apc[m] # "sub" => previous[m] = 0
        /\ apc[m] \in {"idle", "clear"} => sum[m] = 0
        /\ ~Registering(m) => Admin = {m}
        /\ apc[m] = "clear" => \A n \in Node \ todo[m] : validators[n] = 0
        /\ apc[m] = "fill" => Filled(validators, new[m], at[m]) /\ sum[m] = Total(Weights(new[m]), 1 .. at[m])
        /\ apc[m] = "local" => validators[Local] = 0 /\ sum[m] < MaxU64
        /\ apc[m] \in {"local", "store"} => sum[m] = Total(validators, Node) + Repeated(new[m])

\* The total, with what is still to be added and subtracted, is the sum of the map and of
\* what was counted twice.
BalanceInv ==
    (\A m \in Admin : Registering(m)) =>
        Congruent(total_voting_power + Total(sum, Admin),
                  (Total(validators, Node) + Total(previous, Admin)) + Repeated(installed))

PowerInv == AllowedInv /\ UpdateInv /\ BalanceInv

\* The powers are u64 values, so that they add up to a number.
LEMMA AllowedType == Allowed \subseteq 0 .. MaxU64 /\ 0 \in Allowed /\ 1 \in Allowed
  <1>1. \A p \in Powers : AtLeastOne(p) \in 0 .. MaxU64
    BY AtLeastOneType, ConsensusAssumption
  <1>2. \A s \in Sets : \A i \in 1 .. Len(s) : Weights(s)[i] \in 0 .. MaxU64
    BY WeightsType, ConsensusAssumption
  <1>3. 0 \in 0 .. MaxU64 /\ 1 \in 0 .. MaxU64
    BY ConsensusAssumption
  <1>4. QED
    BY <1>1, <1>2, <1>3 DEF Allowed, Listed

\* A number is congruent to itself.
LEMMA CongruentReflexive == ASSUME NEW x \in Nat PROVE Congruent(x, x)
  <1>1. x = x + 0 * (MaxU64 + 1)
    BY ConsensusAssumption
  <1>2. QED
    BY <1>1 DEF Congruent

\* Both sides of a congruence may be changed by as much.
LEMMA CongruentShift ==
    ASSUME NEW x \in Int, NEW y \in Int, NEW d \in Int, Congruent(x, y)
    PROVE  Congruent(x + d, y + d)
  <1>1. PICK k \in Int : x = y + k * (MaxU64 + 1)
    BY DEF Congruent
  <1> DEFINE w == k * (MaxU64 + 1)
  <1>2. w \in Int
    BY ConsensusAssumption
  <1>3. x = y + w
    BY <1>1
  <1> HIDE DEF w
  <1>4. x + d = (y + d) + w
    BY <1>2, <1>3
  <1>5. QED
    BY <1>4 DEF Congruent, w

\* One wrap of the counter changes nothing.
LEMMA CongruentWrap ==
    ASSUME NEW x \in Int, NEW y \in Int, Congruent(x, y)
    PROVE  Congruent(x + (MaxU64 + 1), y) /\ Congruent(x - (MaxU64 + 1), y)
  <1>1. PICK k \in Int : x = y + k * (MaxU64 + 1)
    BY DEF Congruent
  <1> DEFINE W == MaxU64 + 1
  <1>2. W \in Int
    BY ConsensusAssumption
  <1>3. x = y + k * W
    BY <1>1
  <1> HIDE DEF W
  <1>4. (k + 1) * W = k * W + W /\ (k - 1) * W = k * W - W /\ k * W \in Int
    BY <1>2
  <1>5. x + W = y + (k + 1) * W /\ x - W = y + (k - 1) * W
    BY <1>2, <1>3, <1>4
  <1>6. k + 1 \in Int /\ k - 1 \in Int
    OBVIOUS
  <1>7. QED
    BY <1>5, <1>6 DEF Congruent, W

\* Congruent u64 values are equal.
LEMMA CongruentSame ==
    ASSUME NEW x \in 0 .. MaxU64, NEW y \in 0 .. MaxU64, Congruent(x, y) PROVE x = y
  <1>1. PICK k \in Int : x = y + k * (MaxU64 + 1)
    BY DEF Congruent
  <1> DEFINE W == MaxU64 + 1
  <1>2. W \in Nat /\ x < W /\ y < W /\ x >= 0 /\ y >= 0 /\ x \in Int /\ y \in Int
    BY ConsensusAssumption
  <1>3. x = y + k * W
    BY <1>1
  <1> HIDE DEF W
  <1>4. k >= 1 => k * W >= W
    BY <1>2
  <1>5. k <= -1 => k * W <= -W
    BY <1>2
  <1>6. k * W \in Int /\ (k = 0 => k * W = 0)
    BY <1>2
  <1>7. k = 0
    BY <1>2, <1>3, <1>4, <1>5, <1>6
  <1>8. QED
    BY <1>2, <1>3, <1>6, <1>7

\* fetch_sub and fetch_add wrap at most once.
LEMMA WrapCases ==
    ASSUME NEW x \in 0 .. MaxU64, NEW y \in 0 .. MaxU64
    PROVE  /\ (x - y) % (MaxU64 + 1) \in {x - y, x - y + (MaxU64 + 1)}
           /\ (x + y) % (MaxU64 + 1) \in {x + y, x + y - (MaxU64 + 1)}
  <1>1. MaxU64 + 1 \in Nat \ {0} /\ x - y \in Int /\ x + y \in Int
    BY ConsensusAssumption
  <1>2. QED
    BY <1>1, ConsensusAssumption

\* The sums are numbers.
LEMMA SumTypes ==
    ASSUME Administered, TypeOK
    PROVE  /\ Total(sum, Admin) \in Nat /\ Total(previous, Admin) \in Nat /\ Total(validators, Node) \in Nat
           /\ sum \in [Admin -> Nat] /\ previous \in [Admin -> Nat] /\ validators \in [Node -> Nat]
  <1>1. sum \in [Admin -> Nat] /\ previous \in [Admin -> Nat] /\ validators \in [Node -> Nat]
    BY ConsensusAssumption DEF TypeOK
  <1>2. QED
    BY <1>1, UnitsFinite DEF Administered

\* A task that forgets its part takes it out of the sum.
LEMMA Forgotten ==
    ASSUME Administered, NEW f \in [Admin -> Nat], NEW m \in Admin
    PROVE  /\ Total([f EXCEPT ![m] = 0], Admin) + f[m] = Total(f, Admin)
           /\ Total([f EXCEPT ![m] = 0], Admin) \in Nat
  <1>1. IsFiniteSet(Admin) /\ 0 \in Nat
    BY DEF Administered
  <1>2. /\ Total([f EXCEPT ![m] = 0], Admin) + f[m] = Total(f, Admin) + 0
        /\ Total([f EXCEPT ![m] = 0], Admin) \in Nat /\ Total(f, Admin) \in Nat
    BY ONLY <1>1, TotalAssign, f \in [Admin -> Nat], m \in Admin
  <1> QED
    BY ONLY <1>2

\* The entries of a list add up to numbers.
LEMMA ListTypes ==
    ASSUME NEW s \in Seq(Entry), NEW R \in SUBSET (1 .. Len(s))
    PROVE  /\ IsFiniteSet(R) /\ IsFiniteSet(1 .. Len(s))
           /\ Total(Weights(s), R) \in Nat /\ Total(Weights(s), 1 .. Len(s)) \in Nat
           /\ Total(Weights(s), R) <= Total(Weights(s), 1 .. Len(s))
  <1> DEFINE I == 1 .. Len(s)
             W == Weights(s)
  <1>1. IsFiniteSet(I)
    BY WeightsType, FS_Interval
  <1>2. \A i \in I : W[i] \in Nat
    BY WeightsType
  <1> HIDE DEF I, W
  <1>3. R \in SUBSET I
    BY DEF I
  <1>4. IsFiniteSet(R)
    BY <1>1, <1>3, FS_Subset
  <1>5. Total(W, R) \in Nat /\ Total(W, I) \in Nat
    BY <1>1, <1>2, <1>3, <1>4, UnitsFinite
  <1>6. Total(W, R) <= Total(W, I)
    <2>1. \A i \in I : W[i] \in Nat /\ W[i] \in Nat /\ W[i] <= W[i]
      BY <1>2
    <2> QED
      BY <1>1, <1>3, <2>1, TotalBound
  <1>7. QED
    BY <1>1, <1>4, <1>5, <1>6 DEF I, W

\* What a list repeats is a number.
LEMMA RepeatedType == ASSUME Administered, NEW s \in Sets \cup {<<>>} PROVE Repeated(s) \in Nat
  <1>1. s \in Seq(Entry)
    <2>1. <<>> \in Seq(Entry)
      OBVIOUS
    <2> QED
      BY <2>1, ConsensusAssumption
  <1> DEFINE E == {i \in 1 .. Len(s) : \E j \in i + 1 .. Len(s) : s[j].node = s[i].node}
  <1>2. E \in SUBSET (1 .. Len(s))
    OBVIOUS
  <1> HIDE DEF E
  <1>3. Total(Weights(s), E) \in Nat
    BY <1>1, <1>2, ListTypes
  <1>4. QED
    BY <1>3 DEF Repeated, E

\* The list that is empty repeats nothing.
LEMMA NothingRepeated == Repeated(<<>>) = 0
  <1>1. {i \in 1 .. Len(<<>>) : \E j \in i + 1 .. Len(<<>>) : <<>>[j].node = <<>>[i].node} = {}
    OBVIOUS
  <1>2. QED
    BY <1>1, TotalEmpty DEF Repeated

(***************************************************************************)
(* A whole list counts what it leaves in the map and what it repeats: the  *)
(* entries that no later one replaces are one for each node it names.      *)
(***************************************************************************)
LEMMA ListTotal ==
    ASSUME NEW s \in Seq(Entry), NEW f \in [Node -> Nat], IsFiniteSet(Node), Filled(f, s, Len(s))
    PROVE  Total(Weights(s), 1 .. Len(s)) = Total(f, Node) + Repeated(s)
  <1> DEFINE I == 1 .. Len(s)
             E == {i \in I : \E j \in i + 1 .. Len(s) : s[j].node = s[i].node}
             L == I \ E
             W == Weights(s)
             h == [i \in L |-> s[i].node]
             N == {h[i] : i \in L}
  <1>1. /\ Len(s) \in Nat /\ \A i \in I : s[i].node \in Node /\ W[i] \in Nat
        /\ IsFiniteSet(I) /\ IsFiniteSet(E) /\ IsFiniteSet(L)
    <2>1. E \in SUBSET I /\ L \in SUBSET I
      OBVIOUS
    <2> QED
      BY <2>1, WeightsType, ListTypes
  <1>2. Total(W, I) = Total(W, E) + Total(W, L)
    <2>1. I = E \cup L /\ E \cap L = {}
      OBVIOUS
    <2> HIDE DEF I, E, L, W
    <2> QED
      BY <1>1, <2>1, TotalUnion
  <1>3. Total(W, E) = Repeated(s)
    BY DEF Repeated
  <1>4. \A i, j \in L : s[i].node = s[j].node => i = j
    <2> SUFFICES ASSUME NEW i \in L, NEW j \in L, s[i].node = s[j].node, i # j PROVE FALSE
      OBVIOUS
    <2>1. i \in Int /\ j \in Int /\ (i < j \/ j < i)
      BY <1>1
    <2> QED
      BY <1>1, <2>1
  <1>5. h \in Bijection(L, N)
    <2>1. h \in [L -> N] /\ \A i, j \in L : h[i] = h[j] => i = j
      BY <1>4
    <2>2. \A n \in N : \E i \in L : h[i] = n
      OBVIOUS
    <2> HIDE DEF h, L, N
    <2> QED
      BY <2>1, <2>2, Fun_IsBij
  <1>6. \A i \in L : W[i] = f[h[i]]
    <2> SUFFICES ASSUME NEW i \in L PROVE W[i] = f[s[i].node]
      OBVIOUS
    <2>1. PICK k \in I : s[k].node = s[i].node /\ f[s[i].node] = W[k] /\ \A j \in k + 1 .. Len(s) : s[j].node # s[i].node
      BY <1>1 DEF Filled
    <2>2. k \in L
      BY <2>1
    <2> QED
      BY <1>4, <2>1, <2>2
  <1>7. N \subseteq Node /\ \A n \in Node \ N : f[n] = 0
    <2>1. \A n \in Node : (\E k \in I : s[k].node = n /\ \A j \in k + 1 .. Len(s) : s[j].node # n) => n \in N
      <3> SUFFICES ASSUME NEW n \in Node, NEW k \in I, s[k].node = n, \A j \in k + 1 .. Len(s) : s[j].node # n
                   PROVE  n \in N
        OBVIOUS
      <3>1. k \in L
        OBVIOUS
      <3> QED
        BY <3>1
    <2>2. N \subseteq Node
      BY <1>1
    <2> HIDE DEF N
    <2>3. ASSUME NEW n \in Node, n \notin N PROVE f[n] = 0
      BY <2>1, <2>3 DEF Filled
    <2> QED
      BY <2>2, <2>3
  <1> HIDE DEF I, E, L, W, h, N
  <1>8. Total(W, L) = Total(f, N)
    <2>1. \A n \in N : f[n] \in Nat
      BY <1>7
    <2> QED
      BY <1>1, <1>5, <1>6, <2>1, TotalReindex
  <1>9. Total(f, Node) = Total(f, N) /\ Total(f, N) \in Nat
    <2> DEFINE M == Node \ N
    <2>1. IsFiniteSet(N) /\ IsFiniteSet(M) /\ Node = N \cup M /\ N \cap M = {}
      BY <1>7, FS_Subset
    <2>2. \A n \in M : f[n] = 0
      BY <1>7
    <2> HIDE DEF M
    <2>3. \A n \in N \cup M : f[n] \in Nat
      BY <2>1
    <2>4. Total(f, Node) = Total(f, N) + Total(f, M)
      BY <2>1, <2>3, TotalUnion
    <2>5. Total(f, M) = 0
      BY <2>2, TotalZero
    <2>6. Total(f, N) \in Nat
      BY <2>1, <2>3, UnitsFinite
    <2> QED
      BY <2>4, <2>5, <2>6
  <1>10. Total(W, E) \in Nat
    BY <1>1, UnitsFinite DEF E
  <1>11. QED
    BY <1>2, <1>3, <1>8, <1>9, <1>10 DEF I, W

\* A registration changes the map, and owes the total the difference.
LEMMA RegisterKeepsPower ==
    ASSUME Administered, TypeOK, PowerInv, NEW m \in Admin, NEW n \in Node, NEW p \in Powers,
           RegisterValidator(m, n, p)
    PROVE  PowerInv'
  <1> DEFINE a == AtLeastOne(p)
             v == validators[n]
  <1>1. /\ apc[m] = "idle" /\ apc' = [apc EXCEPT ![m] = "sub"]
        /\ previous' = [previous EXCEPT ![m] = v] /\ sum' = [sum EXCEPT ![m] = a]
        /\ validators' = [validators EXCEPT ![n] = a] /\ UNCHANGED <<total_voting_power, new, at, todo, installed>>
    BY DEF RegisterValidator
  <1>2. a \in Allowed /\ a \in Nat /\ v \in Nat /\ sum[m] = 0 /\ previous[m] = 0
    <2>1. p \in Nat
      BY ConsensusAssumption
    <2>2. a \in Allowed /\ a \in Nat
      BY <2>1, AtLeastOneType DEF Allowed
    <2>3. v \in Nat
      BY ConsensusAssumption DEF TypeOK
    <2>4. sum[m] = 0 /\ previous[m] = 0
      BY <1>1 DEF PowerInv, UpdateInv
    <2> QED
      BY <2>2, <2>3, <2>4
  <1>3. v = validators[n]
    OBVIOUS
  <1> HIDE DEF a, v
  <1>4. \A q \in Admin : Registering(q) /\ Registering(q)'
    BY <1>1 DEF PowerInv, UpdateInv, Registering, TypeOK
  <1>5. AllowedInv'
    BY <1>1, <1>2 DEF PowerInv, AllowedInv
  <1>6. UpdateInv'
    BY <1>1, <1>4 DEF PowerInv, UpdateInv, Registering, TypeOK
  <1>7. Total(validators', Node) + v = Total(validators, Node) + a /\ Total(validators', Node) \in Nat
    BY <1>1, <1>2, <1>3, SumTypes, TotalAssign DEF Administered
  <1>8. Total(sum', Admin) = Total(sum, Admin) + a
    <2>1. Total([sum EXCEPT ![m] = a], Admin) + sum[m] = Total(sum, Admin) + a
          /\ Total([sum EXCEPT ![m] = a], Admin) \in Nat
      BY <1>2, SumTypes, TotalAssign DEF Administered
    <2> QED
      BY <1>1, <1>2, <2>1
  <1>9. Total(previous', Admin) = Total(previous, Admin) + v
    <2>1. Total([previous EXCEPT ![m] = v], Admin) + previous[m] = Total(previous, Admin) + v
          /\ Total([previous EXCEPT ![m] = v], Admin) \in Nat
      BY <1>2, SumTypes, TotalAssign DEF Administered
    <2> QED
      BY <1>1, <1>2, <2>1
  <1>10. PICK q \in Nat : q = Repeated(installed) /\ q = Repeated(installed')
    BY <1>1, RepeatedType DEF PowerInv, AllowedInv
  <1>11. Congruent((total_voting_power + Total(sum, Admin)) + a,
                   ((Total(validators, Node) + Total(previous, Admin)) + q) + a)
    <2>1. Congruent(total_voting_power + Total(sum, Admin),
                    (Total(validators, Node) + Total(previous, Admin)) + q)
      BY <1>4, <1>10 DEF PowerInv, BalanceInv
    <2>2. /\ total_voting_power + Total(sum, Admin) \in Int /\ a \in Int
          /\ (Total(validators, Node) + Total(previous, Admin)) + q \in Int
      BY <1>2, <1>10, SumTypes, ConsensusAssumption DEF TypeOK
    <2> QED
      BY ONLY <2>1, <2>2, CongruentShift
  <1>12. /\ (total_voting_power + Total(sum, Admin)) + a = total_voting_power' + Total(sum', Admin)
         /\ ((Total(validators, Node) + Total(previous, Admin)) + q) + a
              = (Total(validators', Node) + Total(previous', Admin)) + q
    <2>1. total_voting_power \in Int
      BY ConsensusAssumption DEF TypeOK
    <2> QED
      BY <1>1, <1>2, <1>7, <1>8, <1>9, <1>10, <2>1, SumTypes
  <1>13. BalanceInv'
    BY <1>10, <1>11, <1>12 DEF BalanceInv
  <1>14. QED
    BY <1>5, <1>6, <1>13 DEF PowerInv

\* The two corrections of the total pay what is owed.
LEMMA CorrectionKeepsPower ==
    ASSUME Administered, TypeOK, PowerInv, NEW m \in Admin, SubtractPrevious(m) \/ AddNew(m)
    PROVE  PowerInv'
  <1>1. \A q \in Admin : apc[m] \in {"sub", "add"} => Registering(q)
    BY DEF PowerInv, UpdateInv, Registering
  <1>2. AllowedInv'
    BY DEF PowerInv, AllowedInv, SubtractPrevious, AddNew
  <1>q. PICK q \in Nat : q = Repeated(installed) /\ q = Repeated(installed')
    <2>1. installed' = installed
      BY DEF SubtractPrevious, AddNew
    <2> QED
      BY <2>1, RepeatedType DEF PowerInv, AllowedInv
  <1>3. CASE SubtractPrevious(m)
    <2> DEFINE p == previous[m]
    <2>1. /\ apc[m] = "sub" /\ apc' = [apc EXCEPT ![m] = "add"]
          /\ total_voting_power' = (total_voting_power - p) % (MaxU64 + 1)
          /\ previous' = [previous EXCEPT ![m] = 0] /\ UNCHANGED <<validators, new, at, todo, sum, installed>>
      BY <1>3 DEF SubtractPrevious
    <2>2. p \in 0 .. MaxU64 /\ p \in Nat /\ total_voting_power \in 0 .. MaxU64 /\ 0 \in Nat
      BY ConsensusAssumption DEF TypeOK
    <2>3. p = previous[m]
      OBVIOUS
    <2> HIDE DEF p
    <2>4. UpdateInv'
      BY <1>1, <2>1 DEF PowerInv, UpdateInv, Registering, TypeOK
    <2>5. Total(previous', Admin) + p = Total(previous, Admin) /\ Total(previous', Admin) \in Nat
      <3>1. previous \in [Admin -> Nat]
        BY SumTypes
      <3>2. Total([previous EXCEPT ![m] = 0], Admin) + previous[m] = Total(previous, Admin)
            /\ Total([previous EXCEPT ![m] = 0], Admin) \in Nat
        BY <3>1, Forgotten
      <3> QED
        BY <2>1, <2>3, <3>2
    <2> DEFINE S == Total(sum, Admin)
               R == (Total(validators, Node) + Total(previous, Admin)) + q
               x == total_voting_power + S - p
               y == R - p
    <2>6. Congruent(total_voting_power + S, R) /\ S \in Int /\ R \in Int
      BY <1>1, <1>q, <2>1, SumTypes DEF PowerInv, BalanceInv
    <2>7. y = (Total(validators', Node) + Total(previous', Admin)) + q
      BY <1>q, <2>1, <2>2, <2>5, SumTypes
    <2> HIDE DEF S, R
    <2>8. Congruent((total_voting_power + S) + (-p), R + (-p))
      <3>1. total_voting_power + S \in Int /\ -p \in Int
        BY <2>2, <2>6
      <3> QED
        BY ONLY <2>6, <3>1, CongruentShift
    <2>9. (total_voting_power + S) + (-p) = x /\ R + (-p) = y /\ x \in Int /\ y \in Int
      BY <2>2, <2>6
    <2>10. Congruent(x, y)
      BY <2>8, <2>9
    <2>11. total_voting_power' + S \in {x, x + (MaxU64 + 1)}
      BY <2>1, <2>2, <2>6, WrapCases, ConsensusAssumption
    <2> HIDE DEF x, y
    <2>12. Congruent(total_voting_power' + S, y)
      BY <2>9, <2>10, <2>11, CongruentWrap
    <2>13. S = Total(sum', Admin)
      BY <2>1 DEF S
    <2>14. BalanceInv'
      BY <1>q, <2>7, <2>12, <2>13 DEF BalanceInv
    <2> QED
      BY <1>2, <2>4, <2>14 DEF PowerInv
  <1>4. CASE AddNew(m)
    <2> DEFINE a == sum[m]
    <2>1. /\ apc[m] = "add" /\ apc' = [apc EXCEPT ![m] = "idle"]
          /\ total_voting_power' = (total_voting_power + a) % (MaxU64 + 1)
          /\ sum' = [sum EXCEPT ![m] = 0] /\ UNCHANGED <<validators, new, at, todo, previous, installed>>
      BY <1>4 DEF AddNew
    <2>2. a \in 0 .. MaxU64 /\ a \in Nat /\ total_voting_power \in 0 .. MaxU64 /\ 0 \in Nat
      BY ConsensusAssumption DEF TypeOK
    <2>3. a = sum[m]
      OBVIOUS
    <2> HIDE DEF a
    <2>4. UpdateInv'
      BY <1>1, <2>1 DEF PowerInv, UpdateInv, Registering, TypeOK
    <2> DEFINE S == Total(sum, Admin)
               T == Total(sum', Admin)
               R == (Total(validators, Node) + Total(previous, Admin)) + q
    <2>5. T + a = S /\ T \in Nat
      <3>1. sum \in [Admin -> Nat]
        BY SumTypes
      <3>2. Total([sum EXCEPT ![m] = 0], Admin) + sum[m] = Total(sum, Admin)
            /\ Total([sum EXCEPT ![m] = 0], Admin) \in Nat
        BY <3>1, Forgotten
      <3> QED
        BY <2>1, <2>3, <3>2
    <2>6. Congruent(total_voting_power + S, R) /\ S \in Int /\ R \in Int
      BY <1>1, <1>q, <2>1, SumTypes DEF PowerInv, BalanceInv
    <2>7. R = (Total(validators', Node) + Total(previous', Admin)) + q
      BY <2>1
    <2> HIDE DEF S, R, T
    <2>8. total_voting_power' + T \in {total_voting_power + S, (total_voting_power + S) - (MaxU64 + 1)}
      BY <2>1, <2>2, <2>5, <2>6, WrapCases, ConsensusAssumption
    <2>9. total_voting_power + S \in Int
      BY <2>2, <2>6
    <2>10. Congruent(total_voting_power' + T, R)
      <3>1. Congruent((total_voting_power + S) - (MaxU64 + 1), R)
        BY ONLY <2>6, <2>9, CongruentWrap
      <3>2. CASE total_voting_power' + T = total_voting_power + S
        BY ONLY <2>6, <3>2
      <3>3. CASE total_voting_power' + T = (total_voting_power + S) - (MaxU64 + 1)
        BY ONLY <3>1, <3>3
      <3> QED
        BY ONLY <2>8, <3>2, <3>3
    <2>11. BalanceInv'
      BY <1>q, <2>7, <2>10 DEF BalanceInv, T
    <2> QED
      BY <1>2, <2>4, <2>11 DEF PowerInv
  <1>5. QED
    BY <1>3, <1>4

\* While a set is being replaced, nobody else changes the map, and the total is not looked at.
LEMMA ReplaceKeepsBalance ==
    ASSUME NEW m \in Admin, ~Registering(m)' PROVE BalanceInv'
  BY DEF BalanceInv

\* A new set is announced: the map is still to be cleared.
LEMMA SetKeepsPower ==
    ASSUME Administered, TypeOK, PowerInv, NEW m \in Admin, NEW s \in Sets, SetValidatorSet(m, s)
    PROVE  PowerInv'
  <1>1. /\ apc[m] = "idle" /\ apc' = [apc EXCEPT ![m] = "clear"] /\ new' = [new EXCEPT ![m] = s]
        /\ todo' = [todo EXCEPT ![m] = Node]
        /\ UNCHANGED <<validators, total_voting_power, at, previous, sum, installed>>
    BY DEF SetValidatorSet, engine
  <1>2. Admin = {m}
    BY DEF Administered
  <1>4. AllowedInv'
    BY <1>1 DEF PowerInv, AllowedInv
  <1>5. UpdateInv'
    BY <1>1, <1>2 DEF PowerInv, UpdateInv, TypeOK
  <1>6. BalanceInv'
    BY <1>1, ReplaceKeepsBalance DEF Registering, TypeOK
  <1>7. QED
    BY <1>4, <1>5, <1>6 DEF PowerInv

\* The map is cleared entry by entry, and holds no power in the end.
LEMMA ClearKeepsPower ==
    ASSUME Administered, TypeOK, PowerInv, NEW m \in Admin, NEW n \in Node, ClearEntry(m, n)
    PROVE  PowerInv'
  <1>1. /\ apc[m] = "clear" /\ n \in todo[m] /\ validators' = [validators EXCEPT ![n] = 0]
        /\ todo' = [todo EXCEPT ![m] = @ \ {n}]
        /\ apc' = [apc EXCEPT ![m] = IF todo[m] = {n} THEN "fill" ELSE "clear"]
        /\ UNCHANGED <<total_voting_power, new, at, previous, sum, installed>>
    BY DEF ClearEntry
  <1>2. Admin = {m} /\ sum[m] = 0 /\ previous[m] = 0 /\ at[m] = 0
    BY <1>1 DEF PowerInv, UpdateInv, Registering, TypeOK
  <1>3. \A k \in Node \ (todo[m] \ {n}) : validators'[k] = 0
    BY <1>1 DEF PowerInv, UpdateInv, TypeOK
  <1>4. AllowedInv'
    BY <1>1, AllowedType DEF PowerInv, AllowedInv
  <1>5. CASE todo[m] = {n}
    <2>1. \A k \in Node : validators'[k] = 0
      BY <1>3, <1>5
    <2>2. Filled(validators', new'[m], at'[m])
      BY <1>1, <1>2, <2>1 DEF Filled
    <2>3. Total(Weights(new'[m]), 1 .. at'[m]) = 0
      BY <1>1, <1>2, TotalEmpty
    <2>4. apc'[m] = "fill"
      BY <1>1, <1>5 DEF TypeOK
    <2>5. UpdateInv'
      BY <1>1, <1>2, <2>2, <2>3, <2>4 DEF UpdateInv
    <2>6. BalanceInv'
      BY <2>4, ReplaceKeepsBalance DEF Registering
    <2> QED
      BY <1>4, <2>5, <2>6 DEF PowerInv
  <1>6. CASE todo[m] # {n}
    <2>1. apc'[m] = "clear"
      BY <1>1, <1>6 DEF TypeOK
    <2>2. UpdateInv'
      BY <1>1, <1>2, <1>3, <2>1 DEF UpdateInv, TypeOK
    <2>3. BalanceInv'
      BY <2>1, ReplaceKeepsBalance DEF Registering
    <2> QED
      BY <1>4, <2>2, <2>3 DEF PowerInv
  <1>7. QED
    BY <1>5, <1>6

\* The next entry of a list is its node's, whatever an earlier one said.
LEMMA FilledFurther ==
    ASSUME NEW s \in Seq(Entry), NEW f \in [Node -> Nat], NEW k \in Nat, k < Len(s), Filled(f, s, k)
    PROVE  Filled([f EXCEPT ![s[k + 1].node] = Weights(s)[k + 1]], s, k + 1)
  <1> DEFINE e == s[k + 1].node
             g == [f EXCEPT ![e] = Weights(s)[k + 1]]
  <1>1. Len(s) \in Nat /\ k + 1 \in 1 .. Len(s) /\ e \in Node
    BY WeightsType
  <1>2. SUFFICES ASSUME NEW n \in Node
                 PROVE  \/ g[n] = 0 /\ \A i \in 1 .. k + 1 : s[i].node # n
                        \/ \E i \in 1 .. k + 1 : /\ s[i].node = n /\ g[n] = Weights(s)[i]
                                                 /\ \A j \in i + 1 .. k + 1 : s[j].node # n
    BY DEF Filled
  <1>3. CASE n = e
    <2>1. g[n] = Weights(s)[k + 1] /\ s[k + 1].node = n
      BY <1>1, <1>3
    <2>2. k + 1 \in 1 .. k + 1 /\ \A j \in (k + 1) + 1 .. k + 1 : s[j].node # n
      OBVIOUS
    <2> QED
      BY <2>1, <2>2
  <1>4. CASE n # e
    <2>1. g[n] = f[n] /\ s[k + 1].node # n
      BY <1>4
    <2>2. \A j \in 1 .. k + 1 : j \in 1 .. k \/ j = k + 1
      OBVIOUS
    <2>3. CASE f[n] = 0 /\ \A i \in 1 .. k : s[i].node # n
      BY <2>1, <2>2, <2>3
    <2>4. ASSUME NEW i \in 1 .. k, s[i].node = n, f[n] = Weights(s)[i], \A j \in i + 1 .. k : s[j].node # n
          PROVE  \E q \in 1 .. k + 1 : /\ s[q].node = n /\ g[n] = Weights(s)[q]
                                       /\ \A j \in q + 1 .. k + 1 : s[j].node # n
      <3>1. i \in 1 .. k + 1 /\ \A j \in i + 1 .. k + 1 : j \in i + 1 .. k \/ j = k + 1
        OBVIOUS
      <3> QED
        BY <2>1, <2>4, <3>1
    <2> QED
      BY <2>3, <2>4 DEF Filled
  <1>5. QED
    BY <1>3, <1>4

\* A list adds up entry by entry, and never saturates.
LEMMA ListFurther ==
    ASSUME Administered, NEW s \in Sets, NEW k \in Nat, k < Len(s)
    PROVE  saturating_add(Total(Weights(s), 1 .. k), Weights(s)[k + 1]) = Total(Weights(s), 1 .. k + 1)
  <1> DEFINE W == Weights(s)
             K == 1 .. k
             p == W[k + 1]
  <1>1. s \in Seq(Entry) /\ Len(s) \in Nat
    BY ConsensusAssumption, WeightsType
  <1>2. p \in Nat /\ IsFiniteSet(K) /\ k + 1 \notin K /\ 1 .. k + 1 = K \cup {k + 1}
    <2>1. k + 1 \in 1 .. Len(s)
      BY <1>1
    <2>2. p \in Nat
      BY <1>1, <2>1, WeightsType
    <2>3. IsFiniteSet(K)
      BY FS_Interval
    <2>4. k + 1 \notin K /\ 1 .. k + 1 = K \cup {k + 1}
      OBVIOUS
    <2> QED
      BY <2>2, <2>3, <2>4
  <1>3. \A i \in K : W[i] \in Nat
    BY <1>1, WeightsType
  <1>4. 1 .. k + 1 \in SUBSET (1 .. Len(s)) /\ K \in SUBSET (1 .. Len(s))
    BY <1>1
  <1> DEFINE J == 1 .. k + 1
             x == Total(W, K)
             y == Total(W, J)
             z == Total(W, 1 .. Len(s))
  <1>5. y <= z /\ z < MaxU64 /\ y \in Nat /\ z \in Nat /\ x \in Nat
    <2>1. y <= z /\ y \in Nat /\ z \in Nat
      BY <1>1, <1>4, ListTypes
    <2>2. x \in Nat
      BY <1>1, <1>4, ListTypes
    <2>3. z < MaxU64
      BY DEF Administered
    <2> QED
      BY <2>1, <2>2, <2>3
  <1>6. y = x + p
    <2>1. W[k + 1] \in Nat /\ IsFiniteSet(K) /\ k + 1 \notin K /\ J = K \cup {k + 1} /\ p = W[k + 1]
      BY <1>2
    <2> HIDE DEF W, K, J, p
    <2>2. Total(W, K \cup {k + 1}) = Total(W, K) + W[k + 1]
      BY <1>3, <2>1, TotalAdd
    <2> QED
      BY <2>1, <2>2
  <1> HIDE DEF x, y, z, p
  <1>7. saturating_add(x, p) = y
    BY <1>2, <1>5, <1>6, ConsensusAssumption DEF saturating_add
  <1>8. QED
    BY <1>7 DEF x, y, p

\* The local node's entry adds to the map what it adds to the sum.
LEMMA AddedLocal ==
    ASSUME Administered, TypeOK, NEW m \in Admin, NEW q \in Nat, sum[m] = Total(validators, Node) + q,
           sum[m] < MaxU64, validators[Local] = 0, validators' = [validators EXCEPT ![Local] = 1]
    PROVE  saturating_add(sum[m], 1) = Total(validators', Node) + q
  <1>1. Total([validators EXCEPT ![Local] = 1], Node) + validators[Local] = Total(validators, Node) + 1
        /\ Total([validators EXCEPT ![Local] = 1], Node) \in Nat
    <2>1. /\ validators \in [Node -> Nat] /\ IsFiniteSet(Node) /\ Local \in Node /\ 1 \in Nat
      BY SumTypes, ConsensusAssumption DEF Administered
    <2> QED
      BY <2>1, TotalAssign
  <1>2. Total(validators', Node) = Total(validators, Node) + 1
    BY <1>1
  <1>3. QED
    BY <1>2, SumTypes, ConsensusAssumption DEF saturating_add, TypeOK

\* The new entries and the local one are counted as they are inserted, and stored.
LEMMA FillKeepsPower ==
    ASSUME Administered, TypeOK, PowerInv, NEW m \in Admin,
           InsertEntry(m) \/ CheckLocal(m) \/ InsertLocal(m) \/ StoreTotal(m)
    PROVE  PowerInv'
  <1>1. apc[m] \in {"fill", "local", "store"}
    BY DEF InsertEntry, CheckLocal, InsertLocal, StoreTotal
  <1>2. /\ Admin = {m} /\ previous[m] = 0
        /\ new[m] \in Seq(Entry) /\ new[m] \in Sets \cup {<<>>} /\ Len(new[m]) \in Nat /\ at[m] \in Nat
    BY <1>1, WeightsType DEF PowerInv, UpdateInv, AllowedInv, Registering, TypeOK
  <1>3. PICK q \in Nat : q = Repeated(new[m])
    BY <1>2, RepeatedType
  <1>4. CASE InsertEntry(m)
    <2> DEFINE s == new[m]
               k == at[m]
               e == s[k + 1].node
               p == Weights(s)[k + 1]
    <2>1. /\ apc[m] = "fill" /\ k < Len(s) /\ at' = [at EXCEPT ![m] = k + 1]
          /\ sum' = [sum EXCEPT ![m] = saturating_add(@, p)] /\ validators' = [validators EXCEPT ![e] = p]
          /\ UNCHANGED <<total_voting_power, apc, new, previous, todo, installed>>
      BY <1>4 DEF InsertEntry
    <2>2. /\ s \in Sets /\ s \in Seq(Entry) /\ k \in Nat /\ k + 1 \in 1 .. Len(s)
          /\ Filled(validators, s, k) /\ sum[m] = Total(Weights(s), 1 .. k) /\ new'[m] = s
      BY <1>2, <2>1 DEF PowerInv, UpdateInv
    <2>3. e \in Node /\ p \in Allowed
      BY <2>2, WeightsType DEF Allowed, Listed
    <2>4. Filled([validators EXCEPT ![e] = p], s, k + 1)
      <3>1. validators \in [Node -> Nat]
        BY SumTypes
      <3> HIDE DEF s, k
      <3> QED
        BY <2>1, <2>2, <3>1, FilledFurther
    <2>5. saturating_add(Total(Weights(s), 1 .. k), p) = Total(Weights(s), 1 .. k + 1)
      <3> HIDE DEF s, k
      <3> QED
        BY <2>1, <2>2, ListFurther
    <2> HIDE DEF s, k, e, p
    <2>6. AllowedInv'
      BY <2>1, <2>3 DEF PowerInv, AllowedInv
    <2>7. Filled(validators', new'[m], at'[m]) /\ sum'[m] = Total(Weights(new'[m]), 1 .. at'[m])
      BY <2>1, <2>2, <2>4, <2>5 DEF TypeOK
    <2>8. UpdateInv'
      BY <1>2, <2>1, <2>7 DEF UpdateInv
    <2>9. BalanceInv'
      BY <2>1, ReplaceKeepsBalance DEF Registering
    <2> QED
      BY <2>6, <2>8, <2>9 DEF PowerInv
  <1>5. CASE CheckLocal(m)
    <2>1. /\ apc[m] = "fill" /\ at[m] = Len(new[m])
          /\ UNCHANGED <<validators, total_voting_power, new, at, previous, todo, sum, installed>>
          /\ \/ apc' = [apc EXCEPT ![m] = "store"]
             \/ validators[Local] = 0 /\ apc' = [apc EXCEPT ![m] = "local"]
      BY <1>5 DEF CheckLocal, engine
    <2>2. apc'[m] = "store" \/ (validators[Local] = 0 /\ apc'[m] = "local")
      <3>1. CASE apc' = [apc EXCEPT ![m] = "store"]
        BY <3>1 DEF TypeOK
      <3>2. CASE validators[Local] = 0 /\ apc' = [apc EXCEPT ![m] = "local"]
        BY <3>2 DEF TypeOK
      <3> QED
        BY <2>1, <3>1, <3>2
    <2>3. Filled(validators, new[m], Len(new[m])) /\ sum[m] = Total(Weights(new[m]), 1 .. Len(new[m]))
      BY <2>1 DEF PowerInv, UpdateInv
    <2>4. sum[m] = Total(validators, Node) + Repeated(new[m])
      <3>1. validators \in [Node -> Nat] /\ IsFiniteSet(Node)
        BY SumTypes DEF Administered
      <3> QED
        BY <1>2, <2>3, <3>1, ListTotal
    <2>5. sum[m] < MaxU64
      <3>1. CASE new[m] \in Sets
        BY <2>3, <3>1 DEF Administered
      <3>2. CASE new[m] = <<>>
        <4>1. 1 .. Len(new[m]) = {}
          BY <3>2
        <4>2. sum[m] = 0
          BY <2>3, <4>1, TotalEmpty
        <4> QED
          BY <4>2, ConsensusAssumption
      <3> QED
        BY <1>2, <3>1, <3>2
    <2>6. AllowedInv'
      BY <2>1 DEF PowerInv, AllowedInv
    <2>7. UpdateInv'
      BY <1>2, <2>1, <2>2, <2>4, <2>5 DEF UpdateInv
    <2>8. BalanceInv'
      BY <2>2, ReplaceKeepsBalance DEF Registering
    <2> QED
      BY <2>6, <2>7, <2>8 DEF PowerInv
  <1>6. CASE InsertLocal(m)
    <2>1. /\ apc[m] = "local" /\ apc' = [apc EXCEPT ![m] = "store"] /\ validators' = [validators EXCEPT ![Local] = 1]
          /\ sum' = [sum EXCEPT ![m] = saturating_add(sum[m], 1)]
          /\ UNCHANGED <<total_voting_power, new, at, previous, todo, installed>>
      BY <1>6 DEF InsertLocal
    <2>2. validators[Local] = 0 /\ Local \in Node /\ 1 \in Allowed /\ sum[m] < MaxU64
          /\ sum[m] = Total(validators, Node) + q
      BY <1>3, <2>1, AllowedType, ConsensusAssumption DEF PowerInv, UpdateInv
    <2>3. saturating_add(sum[m], 1) = Total(validators', Node) + q
      BY <1>3, <2>1, <2>2, AddedLocal
    <2>4. apc'[m] = "store" /\ sum'[m] = Total(validators', Node) + Repeated(new'[m])
      BY <1>3, <2>1, <2>3 DEF TypeOK
    <2>5. AllowedInv'
      BY <2>1, <2>2 DEF PowerInv, AllowedInv
    <2>6. UpdateInv'
      BY <1>2, <2>1, <2>4 DEF UpdateInv
    <2>7. BalanceInv'
      BY <2>4, ReplaceKeepsBalance DEF Registering
    <2> QED
      BY <2>5, <2>6, <2>7 DEF PowerInv
  <1>7. CASE StoreTotal(m)
    <2>1. /\ apc[m] = "store" /\ apc' = [apc EXCEPT ![m] = "idle"]
          /\ total_voting_power' = sum[m] /\ sum' = [sum EXCEPT ![m] = 0]
          /\ new' = [new EXCEPT ![m] = <<>>] /\ at' = [at EXCEPT ![m] = 0] /\ installed' = new[m]
          /\ UNCHANGED <<validators, previous, todo>>
      BY <1>7 DEF StoreTotal
    <2>2. apc'[m] = "idle" /\ sum'[m] = 0
      BY <2>1 DEF TypeOK
    <2>3. AllowedInv'
      BY <1>2, <2>1 DEF PowerInv, AllowedInv
    <2>4. UpdateInv'
      BY <1>2, <2>1, <2>2 DEF UpdateInv, Registering
    <2>5. Total(sum', Admin) = 0 /\ Total(previous', Admin) = 0
      <3>1. (\A k \in Admin : sum'[k] = 0) /\ \A k \in Admin : previous'[k] = 0
        BY <1>2, <2>1, <2>2
      <3> QED
        BY <3>1, TotalZero
    <2>6. total_voting_power' = Total(validators, Node) + q /\ Repeated(installed') = q
      BY <1>3, <2>1 DEF PowerInv, UpdateInv
    <2>7. total_voting_power' + Total(sum', Admin)
            = (Total(validators', Node) + Total(previous', Admin)) + Repeated(installed')
      BY <2>1, <2>5, <2>6, SumTypes
    <2>8. total_voting_power' + Total(sum', Admin) \in Nat
      BY <1>3, <2>5, <2>6, SumTypes
    <2>9. BalanceInv'
      BY <2>7, <2>8, CongruentReflexive DEF BalanceInv
    <2> QED
      BY <2>3, <2>4, <2>9 DEF PowerInv
  <1>8. QED
    BY <1>4, <1>5, <1>6, <1>7

\* At the start the local node is the only validator.
LEMMA InitPower == ASSUME Administered, Init PROVE PowerInv
  <1> DEFINE z == [n \in Node |-> 0]
  <1>1. /\ validators = [z EXCEPT ![Local] = 1] /\ Local \in Node /\ z \in [Node -> Nat] /\ z[Local] = 0 /\ 1 \in Nat
        /\ total_voting_power = 1 /\ \A m \in Admin : apc[m] = "idle" /\ sum[m] = 0 /\ previous[m] = 0
        /\ installed = <<>>
    BY ConsensusAssumption DEF Init
  <1>2. \A n \in Node : z[n] = 0
    OBVIOUS
  <1> HIDE DEF z
  <1>3. Total(z, Node) = 0
    BY <1>2, TotalZero
  <1>4. Total(validators, Node) = 1
    <2>1. Total([z EXCEPT ![Local] = 1], Node) + z[Local] = Total(z, Node) + 1
          /\ Total([z EXCEPT ![Local] = 1], Node) \in Nat
      BY <1>1, TotalAssign DEF Administered
    <2> QED
      BY <1>1, <1>3, <2>1
  <1>5. Total(sum, Admin) = 0 /\ Total(previous, Admin) = 0
    BY <1>1, TotalZero
  <1>6. AllowedInv
    BY AllowedType, ConsensusAssumption DEF Init, AllowedInv
  <1>7. UpdateInv
    BY <1>1 DEF UpdateInv, Registering
  <1>8. BalanceInv
    BY <1>1, <1>4, <1>5, NothingRepeated, CongruentReflexive DEF BalanceInv
  <1>9. QED
    BY <1>6, <1>7, <1>8 DEF PowerInv

\* What leaves the validators and the callers that change them alone keeps the sums.
LEMMA PowerFrame ==
    ASSUME PowerInv, UNCHANGED engine, UNCHANGED alocals PROVE PowerInv'
  BY DEF PowerInv, AllowedInv, UpdateInv, BalanceInv, Registering, engine, alocals

\* Every step keeps the total in line with the map.
LEMMA NextPower == ASSUME Administered, TypeOK, PowerInv, [Next]_vars PROVE PowerInv'
  <1>1. ASSUME NEW h \in Hash, DagInsert(h) \/ DagPrune(h) PROVE PowerInv'
    BY <1>1, PowerFrame DEF DagInsert, DagPrune
  <1>2. ASSUME NEW c \in Handler, NEW v \in Vote, ReceiveVote(c, v) PROVE PowerInv'
    BY <1>2, PowerFrame DEF ReceiveVote
  <1>3. ASSUME NEW c \in Handler, HandlerStep(c) PROVE PowerInv'
    <2>1. UNCHANGED engine /\ UNCHANGED alocals
      BY <1>3 DEF HandlerStep, LookupPower, RecordVote, SetStatus, Finalize, Emit
    <2> QED
      BY <2>1, PowerFrame
  <1>4. ASSUME NEW m \in Admin, AdminStep(m) PROVE PowerInv'
    BY <1>4, CorrectionKeepsPower, ClearKeepsPower, FillKeepsPower DEF AdminStep
  <1>5. CASE UNCHANGED vars
    BY <1>5, PowerFrame DEF vars
  <1>6. QED
    BY <1>1, <1>2, <1>3, <1>4, <1>5, RegisterKeepsPower, SetKeepsPower DEF Next

(***************************************************************************)
(* Between updates total_voting_power is the sum of the validators' powers *)
(* and of what the list last installed counted twice, for any number of    *)
(* nodes and of racing registrations, wraps of the counter below zero      *)
(* included, and for one caller that also replaces the whole set by a list *)
(* that may name a node many times (engine.rs:196-223).                    *)
(***************************************************************************)
THEOREM PowerMatches == Administered => (Spec => []PowerMatchesSet)
  <1> SUFFICES ASSUME Administered PROVE Spec => []PowerMatchesSet
    OBVIOUS
  <1>1. Init => PowerInv
    BY InitPower
  <1>2. TypeOK /\ PowerInv /\ [Next]_vars => PowerInv'
    BY NextPower
  <1>3. TypeOK /\ PowerInv => PowerMatchesSet
    <2> SUFFICES ASSUME TypeOK, PowerInv, \A m \in Admin : apc[m] = "idle"
                 PROVE  total_voting_power = Total(validators, Node) + Repeated(installed)
      BY DEF PowerMatchesSet
    <2>1. Total(sum, Admin) = 0 /\ Total(previous, Admin) = 0
      <3>1. (\A m \in Admin : sum[m] = 0) /\ \A m \in Admin : previous[m] = 0
        BY DEF PowerInv, UpdateInv
      <3> QED
        BY <3>1, TotalZero
    <2>2. PICK q \in Nat : q = Repeated(installed)
      BY RepeatedType DEF PowerInv, AllowedInv
    <2>3. Congruent(total_voting_power + 0, (Total(validators, Node) + 0) + q)
      BY <2>1, <2>2 DEF PowerInv, BalanceInv, Registering
    <2>4. total_voting_power \in 0 .. MaxU64 /\ Total(validators, Node) + q \in 0 .. MaxU64
      <3>1. Total(validators, Node) + q <= MaxU64
        BY <2>2 DEF PowerInv, AllowedInv, Administered
      <3> QED
        BY <2>2, <3>1, SumTypes, ConsensusAssumption DEF TypeOK
    <2>5. /\ total_voting_power + 0 = total_voting_power
          /\ (Total(validators, Node) + 0) + q = Total(validators, Node) + q
      BY <2>2, <2>4, SumTypes, ConsensusAssumption
    <2> QED
      BY <2>2, <2>3, <2>4, <2>5, CongruentSame
  <1>4. QED
    BY <1>1, <1>2, <1>3, TypeCorrect, PTL DEF Spec
=============================================================================
