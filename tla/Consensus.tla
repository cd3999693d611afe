----------------------------- MODULE Consensus ------------------------------
(***************************************************************************)
(* The consensus engine of one node: ConsensusEngine (engine.rs) and its   *)
(* VoteAggregator (vote.rs) in crates/relyo-consensus/src.  Votes on       *)
(* transactions arrive from peers, are weighed by the voter's power, and a *)
(* tally that reaches the quorum decides the status of the transaction in  *)
(* the DAG.                                                                *)
(*                                                                         *)
(* The engine is shared and takes no lock of its own: it consists of       *)
(* concurrent maps and one atomic counter.  Handler is the set of tasks    *)
(* that deliver votes (the node's event loop is one), Admin the set of     *)
(* tasks that change the validator set.  Every action makes one access to  *)
(* one map entry or to the counter.                                        *)
(***************************************************************************)
EXTENDS Integers, FiniteSets, Sequences, Totals

CONSTANTS
    Handler,       \* tasks that run receive_vote
    Admin,         \* tasks that run register_validator or set_validator_set
    Node,          \* node identities
    Local,         \* the engine's own node
    Hash,          \* transactions voted on
    Quorum,        \* config.quorum
    QuorumWeight,  \* config.min_total_voting_power
    ThresholdBps,  \* config.threshold_bps
    MinPower,      \* config.min_validator_voting_power
    Powers,        \* voting powers that register_validator is called with
    Sets,          \* lists of entries that set_validator_set is called with; a list may
                   \* name a node more than once
    MaxU64         \* largest value of a u64

\* An entry (NodeId, u64) of such a list.
Entry == [node : Node, power : 0 .. MaxU64]

\* A quorum of no votes would decide nothing: no vote, no evaluation.
ASSUME ConsensusAssumption ==
    /\ Local \in Node /\ Hash # {}
    /\ Quorum \in Nat \ {0} /\ QuorumWeight \in Nat /\ ThresholdBps \in Nat /\ MinPower \in Nat
    /\ Powers \subseteq 0 .. MaxU64 /\ Sets \subseteq Seq(Entry)
    /\ MaxU64 \in Nat \ {0}

VARIABLES
    validators,         \* voting power of each validator, 0 where there is no entry
    total_voting_power,
    tallies,            \* VoteTally of each transaction (Empty where there is no entry)
    status,             \* status of each transaction in the DAG, "absent" if not stored
    decided,            \* the last Finalized event sent for each transaction
    hpc, vote, power, outcome,        \* locals of receive_vote
    apc, new, at, previous, todo, sum,    \* locals of the validator-set updates
    installed,          \* history: the list that the last set_validator_set installed
    heard               \* history: voters whose vote was ever recorded

engine == <<validators, total_voting_power>>
hlocals == <<hpc, vote, power, outcome>>
alocals == <<apc, new, at, previous, todo, sum, installed>>
vars == <<engine, tallies, status, decided, hlocals, alocals, heard>>

Vote == [voter : Node, tx_hash : Hash, accept : BOOLEAN]

NoVote == [voter |-> Local, tx_hash |-> CHOOSE h \in Hash : TRUE, accept |-> TRUE]

\* A tally without voters and the absence of one read the same.
Empty == [accept |-> 0, reject |-> 0, accept_weight |-> 0, reject_weight |-> 0,
          voters |-> {}]

AtLeastOne(p) == IF p = 0 THEN 1 ELSE p

-----------------------------------------------------------------------------
Init ==
    /\ validators = [n \in Node |-> IF n = Local THEN 1 ELSE 0]
    /\ total_voting_power = 1
    /\ tallies = [h \in Hash |-> Empty]
    /\ status = [h \in Hash |-> "absent"]
    /\ decided = [h \in Hash |-> "none"]
    /\ hpc = [c \in Handler |-> "idle"]
    /\ vote = [c \in Handler |-> NoVote]
    /\ power = [c \in Handler |-> 0]
    /\ outcome = [c \in Handler |-> "Pending"]
    /\ apc = [m \in Admin |-> "idle"]
    /\ new = [m \in Admin |-> <<>>]
    /\ at = [m \in Admin |-> 0]
    /\ installed = <<>>
    /\ previous = [m \in Admin |-> 0]
    /\ todo = [m \in Admin |-> {}]
    /\ sum = [m \in Admin |-> 0]
    /\ heard = [h \in Hash |-> {}]

-----------------------------------------------------------------------------
(***************************************************************************)
(* The DAG under the engine: a transaction appears as Pending, and pruning *)
(* may remove one that is Confirmed.                                       *)
(***************************************************************************)
DagInsert(h) ==
    /\ status[h] = "absent"
    /\ status' = [status EXCEPT ![h] = "Pending"]
    /\ UNCHANGED <<engine, tallies, decided, hlocals, alocals, heard>>

DagPrune(h) ==
    /\ status[h] = "Confirmed"
    /\ status' = [status EXCEPT ![h] = "absent"]
    /\ UNCHANGED <<engine, tallies, decided, hlocals, alocals, heard>>

-----------------------------------------------------------------------------
(***************************************************************************)
(* receive_vote.  process_remote_vote stamps a vote with the time of its   *)
(* arrival, so the age check passes every vote (a vote dropped for its age *)
(* would change nothing).  A local variable that is not read again goes    *)
(* back to its initial value.                                              *)
(***************************************************************************)
Return(c) == hpc' = [hpc EXCEPT ![c] = "idle"] /\ vote' = [vote EXCEPT ![c] = NoVote]

ReceiveVote(c, v) ==
    /\ hpc[c] = "idle"
    /\ hpc' = [hpc EXCEPT ![c] = "lookup"]
    /\ vote' = [vote EXCEPT ![c] = v]
    /\ UNCHANGED <<engine, tallies, status, decided, power, outcome, alocals, heard>>

LookupPower(c) ==
    /\ hpc[c] = "lookup"
    /\ \/ /\ validators[vote[c].voter] = 0 \/ validators[vote[c].voter] < MinPower
          /\ Return(c)
          /\ UNCHANGED power
       \/ /\ validators[vote[c].voter] > 0 /\ validators[vote[c].voter] >= MinPower
          /\ hpc' = [hpc EXCEPT ![c] = "record"] /\ UNCHANGED vote
          /\ power' = [power EXCEPT ![c] = validators[vote[c].voter]]
    /\ UNCHANGED <<engine, tallies, status, decided, outcome, alocals, heard>>

\* Mutant: the quorum must be exceeded, not reached.
evaluateAbove(t) ==
    LET total_weight == t.accept_weight + t.reject_weight
    IN  IF t.accept + t.reject <= Quorum \/ total_weight < QuorumWeight THEN "Pending"
        ELSE IF t.accept_weight * 10000 >= ThresholdBps * total_weight
        THEN "Accepted" ELSE "Rejected"

(***************************************************************************)
(* Both quorums, then the threshold on accept_bps, rounded down.  (The     *)
(* weights are u128 and cannot overflow here.)                             *)
(***************************************************************************)
evaluate(t) ==
    LET total_weight == t.accept_weight + t.reject_weight
        accept_bps   == IF total_weight = 0 THEN 0
                        ELSE (t.accept_weight * 10000) \div total_weight
    IN  IF t.accept + t.reject < Quorum \/ total_weight < QuorumWeight THEN "Pending"
        ELSE IF accept_bps >= ThresholdBps THEN "Accepted" ELSE "Rejected"

\* Mutant: a voter may vote again.
CountAgain(t, v, p) ==
    [accept        |-> t.accept + (IF v.accept THEN 1 ELSE 0),
     reject        |-> t.reject + (IF v.accept THEN 0 ELSE 1),
     accept_weight |-> t.accept_weight + (IF v.accept THEN p ELSE 0),
     reject_weight |-> t.reject_weight + (IF v.accept THEN 0 ELSE p),
     voters        |-> t.voters \cup {v.voter}]

\* A second vote by the same voter changes nothing.
Count(t, v, p) ==
    IF v.voter \in t.voters THEN t
    ELSE [accept        |-> t.accept + (IF v.accept THEN 1 ELSE 0),
          reject        |-> t.reject + (IF v.accept THEN 0 ELSE 1),
          accept_weight |-> t.accept_weight + (IF v.accept THEN AtLeastOne(p) ELSE 0),
          reject_weight |-> t.reject_weight + (IF v.accept THEN 0 ELSE AtLeastOne(p)),
          voters        |-> t.voters \cup {v.voter}]

\* Mutant: the outcome is that of the tally before the vote.
RecordVoteLate(c) ==
    /\ hpc[c] = "record" /\ hpc' = [hpc EXCEPT ![c] = "status"]
    /\ LET h == vote[c].tx_hash
       IN  /\ tallies' = [tallies EXCEPT ![h] = Count(@, vote[c], power[c])]
           /\ outcome' = [outcome EXCEPT ![c] = evaluate(tallies[h])]
           /\ heard' = [heard EXCEPT ![h] = @ \cup {vote[c].voter}]
    /\ power' = [power EXCEPT ![c] = 0]
    /\ UNCHANGED <<engine, status, decided, vote, alocals>>

\* record_vote_weighted holds the tally's entry while it counts and evaluates.
RecordVote(c) ==
    /\ hpc[c] = "record"
    /\ hpc' = [hpc EXCEPT ![c] = "status"]
    /\ LET h == vote[c].tx_hash
           t == Count(tallies[h], vote[c], power[c])
       IN  /\ tallies' = [tallies EXCEPT ![h] = t]
           /\ outcome' = [outcome EXCEPT ![c] = evaluate(t)]
           /\ heard' = [heard EXCEPT ![h] = @ \cup {vote[c].voter}]
    /\ power' = [power EXCEPT ![c] = 0]
    /\ UNCHANGED <<engine, status, decided, vote, alocals>>

StatusOf(o) == CASE o = "Accepted" -> "Confirmed" [] o = "Rejected" -> "Rejected"
                 [] o = "Pending" -> "Voting"

\* Mutant: only an accepted transaction gets a new status.
SetStatusAccepted(c) ==
    /\ hpc[c] = "status"
    /\ hpc' = [hpc EXCEPT ![c] = IF outcome[c] = "Pending" THEN "idle" ELSE "finalize"]
    /\ status' = [status EXCEPT ![vote[c].tx_hash] =
                     IF @ = "absent" \/ outcome[c] # "Accepted" THEN @ ELSE "Confirmed"]
    /\ UNCHANGED <<engine, tallies, decided, vote, power, outcome, alocals, heard>>

\* DagGraph::set_status ignores a transaction that is not stored.
SetStatus(c) ==
    /\ hpc[c] = "status"
    /\ \/ outcome[c] = "Pending" /\ Return(c)
       \/ /\ outcome[c] # "Pending"
          /\ hpc' = [hpc EXCEPT ![c] = "finalize"] /\ UNCHANGED vote
    /\ status' = [status EXCEPT ![vote[c].tx_hash] =
                     IF @ = "absent" THEN @ ELSE StatusOf(outcome[c])]
    /\ UNCHANGED <<engine, tallies, decided, power, outcome, alocals, heard>>

\* VoteAggregator::finalize forgets the tally, and with it who has voted.
Finalize(c) ==
    /\ hpc[c] = "finalize"
    /\ hpc' = [hpc EXCEPT ![c] = "emit"]
    /\ tallies' = [tallies EXCEPT ![vote[c].tx_hash] = Empty]
    /\ UNCHANGED <<engine, status, decided, vote, power, outcome, alocals, heard>>

Emit(c) ==
    /\ hpc[c] = "emit"
    /\ Return(c)
    /\ decided' = [decided EXCEPT ![vote[c].tx_hash] = outcome[c]]
    /\ outcome' = [outcome EXCEPT ![c] = "Pending"]
    /\ UNCHANGED <<engine, tallies, status, power, alocals, heard>>

-----------------------------------------------------------------------------
(***************************************************************************)
(* register_validator: replace the entry, then correct the total by the    *)
(* difference in two atomic steps.  fetch_sub and fetch_add wrap.          *)
(***************************************************************************)
Others == <<tallies, status, decided, hlocals, heard>>

RegisterValidator(m, n, p) ==
    /\ apc[m] = "idle"
    /\ apc' = [apc EXCEPT ![m] = "sub"]
    /\ previous' = [previous EXCEPT ![m] = validators[n]]
    /\ sum' = [sum EXCEPT ![m] = AtLeastOne(p)]
    /\ validators' = [validators EXCEPT ![n] = AtLeastOne(p)]
    /\ UNCHANGED <<total_voting_power, new, at, todo, installed, Others>>

\* Mutant: a re-registration does not take the old power back.
SubtractNothing(m) ==
    /\ apc[m] = "sub" /\ apc' = [apc EXCEPT ![m] = "add"]
    /\ previous' = [previous EXCEPT ![m] = 0]
    /\ UNCHANGED <<validators, total_voting_power, new, at, todo, sum, installed, Others>>

SubtractPrevious(m) ==
    /\ apc[m] = "sub"
    /\ apc' = [apc EXCEPT ![m] = "add"]
    /\ total_voting_power' = (total_voting_power - previous[m]) % (MaxU64 + 1)
    /\ previous' = [previous EXCEPT ![m] = 0]
    /\ UNCHANGED <<validators, new, at, todo, sum, installed, Others>>

AddNew(m) ==
    /\ apc[m] = "add"
    /\ apc' = [apc EXCEPT ![m] = "idle"]
    /\ total_voting_power' = (total_voting_power + sum[m]) % (MaxU64 + 1)
    /\ sum' = [sum EXCEPT ![m] = 0]
    /\ UNCHANGED <<validators, new, at, previous, todo, installed, Others>>

(***************************************************************************)
(* set_validator_set: clear the map (entry by entry, in any order), go     *)
(* through the list, add the local node if it is missing, store the total. *)
(* A node that the list names again has its entry replaced, and is counted *)
(* again.                                                                  *)
(***************************************************************************)
saturating_add(x, y) == IF x + y > MaxU64 THEN MaxU64 ELSE x + y

\* The power that each entry of a list counts for.
Weights(s) == [i \in 1 .. Len(s) |-> AtLeastOne(s[i].power)]

SetValidatorSet(m, s) ==
    /\ apc[m] = "idle"
    /\ apc' = [apc EXCEPT ![m] = "clear"]
    /\ new' = [new EXCEPT ![m] = s]
    /\ todo' = [todo EXCEPT ![m] = Node]
    /\ UNCHANGED <<engine, at, previous, sum, installed, Others>>

ClearEntry(m, n) ==
    /\ apc[m] = "clear" /\ n \in todo[m]
    /\ validators' = [validators EXCEPT ![n] = 0]
    /\ todo' = [todo EXCEPT ![m] = @ \ {n}]
    /\ apc' = [apc EXCEPT ![m] = IF todo[m] = {n} THEN "fill" ELSE "clear"]
    /\ UNCHANGED <<total_voting_power, new, at, previous, sum, installed, Others>>

InsertEntry(m) ==
    /\ apc[m] = "fill" /\ at[m] < Len(new[m])
    /\ LET i == at[m] + 1
           p == Weights(new[m])[i]
       IN  /\ at' = [at EXCEPT ![m] = i]
           /\ sum' = [sum EXCEPT ![m] = saturating_add(@, p)]
           /\ validators' = [validators EXCEPT ![new[m][i].node] = p]
    /\ UNCHANGED <<total_voting_power, apc, new, previous, todo, installed, Others>>

CheckLocal(m) ==
    /\ apc[m] = "fill" /\ at[m] = Len(new[m])
    /\ \/ validators[Local] > 0 /\ apc' = [apc EXCEPT ![m] = "store"]
       \/ validators[Local] = 0 /\ apc' = [apc EXCEPT ![m] = "local"]
    /\ UNCHANGED <<engine, new, at, previous, todo, sum, installed, Others>>

\* Mutant: the local node's power is not in the total.
InsertLocalUncounted(m) ==
    /\ apc[m] = "local" /\ apc' = [apc EXCEPT ![m] = "store"]
    /\ validators' = [validators EXCEPT ![Local] = 1]
    /\ UNCHANGED <<total_voting_power, new, at, previous, todo, sum, installed, Others>>

InsertLocal(m) ==
    /\ apc[m] = "local"
    /\ apc' = [apc EXCEPT ![m] = "store"]
    /\ validators' = [validators EXCEPT ![Local] = 1]
    /\ sum' = [sum EXCEPT ![m] = saturating_add(@, 1)]
    /\ UNCHANGED <<total_voting_power, new, at, previous, todo, installed, Others>>

StoreTotal(m) ==
    /\ apc[m] = "store"
    /\ apc' = [apc EXCEPT ![m] = "idle"]
    /\ total_voting_power' = sum[m]
    /\ sum' = [sum EXCEPT ![m] = 0]
    /\ new' = [new EXCEPT ![m] = <<>>]
    /\ at' = [at EXCEPT ![m] = 0]
    /\ installed' = new[m]
    /\ UNCHANGED <<validators, previous, todo, Others>>

-----------------------------------------------------------------------------
HandlerStep(c) ==
    \/ LookupPower(c) \/ RecordVote(c) \/ SetStatus(c) \/ Finalize(c) \/ Emit(c)

AdminStep(m) ==
    \/ SubtractPrevious(m) \/ AddNew(m)
    \/ \E n \in Node : ClearEntry(m, n)
    \/ InsertEntry(m) \/ CheckLocal(m) \/ InsertLocal(m) \/ StoreTotal(m)

Next ==
    \/ \E h \in Hash : DagInsert(h) \/ DagPrune(h)
    \/ \E c \in Handler, v \in Vote : ReceiveVote(c, v)
    \/ \E c \in Handler : HandlerStep(c)
    \/ \E m \in Admin, n \in Node, p \in Powers : RegisterValidator(m, n, p)
    \/ \E m \in Admin, s \in Sets : SetValidatorSet(m, s)
    \/ \E m \in Admin : AdminStep(m)

Spec == Init /\ [][Next]_vars

-----------------------------------------------------------------------------
Tally == [accept : Nat, reject : Nat, accept_weight : Nat, reject_weight : Nat,
          voters : SUBSET Node]

Outcome == {"Pending", "Accepted", "Rejected"}

\* The state has the types of the engine's fields.
TypeOK ==
    /\ validators \in [Node -> 0 .. MaxU64]
    /\ total_voting_power \in 0 .. MaxU64
    /\ tallies \in [Hash -> Tally]
    /\ status \in [Hash -> {"absent", "Pending", "Voting", "Confirmed", "Rejected"}]
    /\ decided \in [Hash -> {"none", "Accepted", "Rejected"}]
    /\ hpc \in [Handler -> {"idle", "lookup", "record", "status", "finalize", "emit"}]
    /\ vote \in [Handler -> Vote]
    /\ power \in [Handler -> Nat]
    /\ outcome \in [Handler -> Outcome]
    /\ apc \in [Admin -> {"idle", "sub", "add", "clear", "fill", "local", "store"}]
    /\ new \in [Admin -> Seq(Entry)] /\ installed \in Seq(Entry)
    /\ at \in [Admin -> Nat]
    /\ previous \in [Admin -> 0 .. MaxU64]
    /\ todo \in [Admin -> SUBSET Node]
    /\ sum \in [Admin -> 0 .. MaxU64]
    /\ heard \in [Hash -> SUBSET Node]
    /\ \A c \in Handler : hpc[c] \in {"finalize", "emit"} => outcome[c] # "Pending"
    /\ \A m \in Admin :
        /\ at[m] <= Len(new[m])
        /\ apc[m] \in {"idle", "sub", "add", "clear"} => at[m] = 0

(***************************************************************************)
(* "Prevent double voting by the same node" (vote.rs:89): a tally counts   *)
(* each of its voters exactly once, with a weight of at least one,         *)
(* whichever handlers counted them and whatever happened to the voter's    *)
(* power meanwhile.                                                        *)
(***************************************************************************)
VoterCountedOnce ==
    \A h \in Hash :
        /\ tallies[h].accept + tallies[h].reject = Cardinality(tallies[h].voters)
        /\ tallies[h].accept_weight >= tallies[h].accept
        /\ tallies[h].reject_weight >= tallies[h].reject

\* A vote on h is between being counted and being announced.
InProgress(h) ==
    \E c \in Handler : vote[c].tx_hash = h /\ hpc[c] \in {"status", "finalize", "emit"}

\* A decision on h has been taken and is on its way to being announced.
Deciding(h) ==
    \E c \in Handler :
        /\ vote[c].tx_hash = h /\ hpc[c] \in {"status", "finalize", "emit"}
        /\ outcome[c] # "Pending"

(***************************************************************************)
(* The strengthening that makes QuorumIsDecided inductive: until the first *)
(* decision, a tally knows every voter ever heard and is below a quorum.   *)
(***************************************************************************)
UndecidedIsPending ==
    \A h \in Hash :
        \/ decided[h] # "none"
        \/ Deciding(h)
        \/ tallies[h].voters = heard[h] /\ evaluate(tallies[h]) = "Pending"

(***************************************************************************)
(* No decision is missed: once as many different validators have voted on  *)
(* a transaction as either quorum asks for, a decision has been announced, *)
(* in whatever order the votes came and were handled (vote.rs:107-129,     *)
(* engine.rs:157-182).                                                     *)
(***************************************************************************)
QuorumIsDecided ==
    \A h \in Hash :
        Cardinality(heard[h]) >= Quorum /\ Cardinality(heard[h]) >= QuorumWeight
            => decided[h] # "none" \/ Deciding(h)

(***************************************************************************)
(* What the DAG says about a decided transaction agrees with the last      *)
(* decision announced for it (engine.rs:160-178).  It takes a single vote  *)
(* handler, which is what the node's event loop is.                        *)
(***************************************************************************)
StatusMatchesLastEvent ==
    \A h \in Hash : ~InProgress(h) =>
        /\ status[h] = "Confirmed" => decided[h] = "Accepted"
        /\ status[h] = "Rejected" => decided[h] = "Rejected"

(***************************************************************************)
(* A finalized transaction is "considered mathematically irreversible"     *)
(* (docs/api/websocket.md:23): once its acceptance has been announced, a   *)
(* transaction in the DAG stays confirmed.                                 *)
(***************************************************************************)
FinalityIsIrreversible ==
    [][\A h \in Hash : decided[h] = "Accepted" /\ status[h] = "Confirmed" =>
           status'[h] \in {"Confirmed", "absent"}]_vars

\* The power that a list counts for entries that a later one for the same node replaces.
Repeated(s) ==
    Total(Weights(s), {i \in 1 .. Len(s) : \E j \in i + 1 .. Len(s) : s[j].node = s[i].node})

(***************************************************************************)
(* Whenever no update is in progress, total_voting_power is the sum of the *)
(* validators' powers, and what the list last installed counted twice:     *)
(* set_validator_set adds every entry, the map keeps the last of a node    *)
(* (engine.rs:211-215).  Concurrent register_validator calls correct the   *)
(* total by their differences in separate atomic steps, and the counter    *)
(* may wrap below zero in between, but nothing is lost (engine.rs:196-205).*)
(* It takes a single caller while set_validator_set is used, and powers    *)
(* that add up to a u64.                                                   *)
(***************************************************************************)
PowerMatchesSet ==
    (\A m \in Admin : apc[m] = "idle") =>
        total_voting_power = Total(validators, Node) + Repeated(installed)
=============================================================================
