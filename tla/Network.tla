------------------------------- MODULE Network ------------------------------
(***************************************************************************)
(* Several nodes and the gossip between them: the event loop of            *)
(* crates/relyo-node/src/main.rs, the submission path of node.rs, and      *)
(* messages.rs and swarm.rs of crates/relyo-network.  One turn of the loop *)
(* is one action, except that the transactions of a batch are inserted one *)
(* by one, because the tasks that serve clients run beside the loop.  The  *)
(* steps inside DagGraph.insert are module DagGraph's subject: here an     *)
(* insertion is atomic, but for a sum of the balances that overlaps it.    *)
(* A node keeps its graph, votes and queues in memory; the database of     *)
(* banned peers and the identity key are on disk.                          *)
(***************************************************************************)
EXTENDS Integers, Sequences, FiniteSetsExt

CONSTANTS
    Node,       \* nodes, which are also the peer identities
    Name,       \* node_name of each node's configuration
    Tx,         \* transactions other than the genesis one
    Addr,       \* account addresses
    Sender, Receiver, Amount, Fee, Nonce,   \* fields of each transaction
    Parents,    \* parents of each transaction, the genesis one left out
    Valid,      \* transactions that pass Transaction::validate
    Timestamp,  \* timestamp of each transaction
    Funds,      \* balances the genesis state gives the accounts
    Cap,        \* TOTAL_SUPPLY
    Quorum,     \* votes and voting power needed for a decision
    Link,       \* pairs of nodes that can reach each other
    Offered,    \* <<node, transaction>>: what clients submit where
    Pooled,     \* <<node, transaction>>: what is put into the mempools
    Requests,   \* messages on the way at the start, vote requests among them: no code sends one
    BatchSize,  \* transactions that one tick takes from the mempool
    MaxFaults   \* bound on stops, losses, duplicates and failed I/O

Status == {"Absent", "Pending", "Voting", "Confirmed", "Rejected"}
MessageType == {"TransactionBroadcast", "VoteRequest", "VoteResponse"}
Message == [to : Node, from : Node, origin : Node, type : MessageType, tx : Tx, accept : BOOLEAN]
Vote == [tx : Tx, voter : {Name[n] : n \in Node}, accept : BOOLEAN]

ASSUME NetworkAssumption ==
    /\ Name \in [Node -> STRING] /\ Sender \in [Tx -> Addr] /\ Receiver \in [Tx -> Addr]
    /\ Amount \in [Tx -> Nat] /\ Fee \in [Tx -> Nat] /\ Nonce \in [Tx -> Nat]
    /\ Parents \in [Tx -> SUBSET Tx] /\ Valid \subseteq Tx /\ Timestamp \in [Tx -> Nat]
    /\ Funds \in [Addr -> Nat] /\ Cap \in Nat /\ Quorum \in Nat /\ MaxFaults \in Nat
    /\ BatchSize \in Nat \ {0} /\ Link \subseteq SUBSET Node /\ Requests \subseteq Message
    /\ Offered \subseteq Node \X Tx /\ Pooled \subseteq Node \X Tx

VARIABLES
    up,         \* nodes that run
    status,     \* status of each transaction in each node's DAG, "Absent" if it has none
    tally,      \* votes each node has recorded on undecided transactions
    mempool,    \* each node's mempool
    batch,      \* what each node has drained from its mempool and has yet to insert
    outbox,     \* each node's channel from submit_transaction to the event loop
    published,  \* how often a node has published a transaction since it started
    links,      \* open connections
    fresh,      \* <<n, m>>: n has yet to handle the event that m is connected
    wire,       \* messages on the way
    banned,     \* each node's banned_peers database (on disk)
    slipped,    \* peers a node let in because the database could not be read
    faults

memory == <<status, tally, mempool, batch, outbox, published>>
connections == <<links, fresh, slipped>>
vars == <<up, memory, connections, wire, banned, faults>>

Init ==
    /\ up = Node
    /\ status = [n \in Node |-> [t \in Tx |-> "Absent"]]
    /\ tally = [n \in Node |-> {}]
    /\ mempool = [n \in Node |-> {}]
    /\ batch = [n \in Node |-> <<>>]
    /\ outbox = [n \in Node |-> <<>>]
    /\ published = [n \in Node |-> [t \in Tx |-> 0]]
    /\ links = Link /\ fresh = {} /\ wire = Requests
    /\ banned = [n \in Node |-> {}]
    /\ slipped = [n \in Node |-> {}]
    /\ faults = 0

Fault == faults < MaxFaults /\ faults' = faults + 1
Peers(n) == {m \in Node : {n, m} \in links}
Dag(n) == {t \in Tx : status[n][t] # "Absent"}

\* The event loop of n is not inside process_mempool_batch.
Listens(n) == n \in up /\ batch[n] = <<>>

-----------------------------------------------------------------------------
(***************************************************************************)
(* What DagGraph.insert and the supply check decide from the set D of the  *)
(* transactions a DAG has accepted: the balances and nonces are those of   *)
(* applying D (Ledger), and every accepted fee has left circulation.       *)
(***************************************************************************)
Sum(f(_), S) == MapThenSumSet(f, S)
Balance(D, a) ==
    Funds[a] + Sum(LAMBDA t : Amount[t], {t \in D : Receiver[t] = a})
             - Sum(LAMBDA t : Amount[t] + Fee[t], {t \in D : Sender[t] = a})
NonceOf(D, a) == Cardinality({t \in D : Sender[t] = a})
Circulating(D) == Sum(LAMBDA a : Funds[a], Addr) - Sum(LAMBDA t : Fee[t], D)

OverCap(D, t) == Circulating(D) + Amount[t] > Cap

\* Mutant: the order of a sender's nonces is not checked.
InsertsAnyNonce(D, t) ==
    /\ t \in Valid /\ t \notin D /\ Parents[t] \subseteq D /\ ~OverCap(D, t)
    /\ Balance(D, Sender[t]) >= Amount[t] + Fee[t]
    /\ \A u \in D : Sender[u] = Sender[t] => Nonce[u] # Nonce[t]

\* Mutant: a parent that is not there does not matter.
InsertsOrphan(D, t) ==
    /\ t \in Valid /\ t \notin D /\ ~OverCap(D, t)
    /\ Balance(D, Sender[t]) >= Amount[t] + Fee[t]
    /\ Nonce[t] = NonceOf(D, Sender[t]) + 1

Inserts(D, t) ==
    /\ t \in Valid /\ t \notin D
    /\ Parents[t] \subseteq D
    /\ ~OverCap(D, t)
    /\ Balance(D, Sender[t]) >= Amount[t] + Fee[t]
    /\ Nonce[t] = NonceOf(D, Sender[t]) + 1

(***************************************************************************)
(* submit_transaction, for a call that inserts t: the transaction is       *)
(* pending in the DAG and queued for the event loop to publish.            *)
(***************************************************************************)
Accept(n, t) ==
    /\ status' = [status EXCEPT ![n][t] = "Pending"]
    /\ outbox' = [outbox EXCEPT ![n] = Append(@, t)]

(***************************************************************************)
(* total_circulating takes no lock: when it reads the sender of a client's *)
(* submission t before the debit and the receiver after the credit, it     *)
(* finds t's amount twice, and x is taken to be over the cap.  One such    *)
(* submission at a time; a sum that misses an amount only allows more.     *)
(***************************************************************************)
Crossed(n, x) ==
    \E t \in Tx :
        /\ <<n, t>> \in Offered /\ Sender[t] # Receiver[t] /\ Inserts(Dag(n), t)
        /\ Circulating(Dag(n)) + Amount[t] + Amount[x] > Cap
        /\ Accept(n, t)

RpcSubmit(n, t) ==
    /\ n \in up /\ <<n, t>> \in Offered
    /\ Inserts(Dag(n), t)
    /\ Accept(n, t)
    /\ UNCHANGED <<up, tally, mempool, batch, published, connections, wire, banned, faults>>

-----------------------------------------------------------------------------
(***************************************************************************)
(* The arms of the event loop's select.  Publishing without a connected    *)
(* peer always fails, and may fail otherwise: the transaction is taken     *)
(* from the channel all the same.                                          *)
(***************************************************************************)
Publish(n) ==
    /\ Listens(n) /\ outbox[n] # <<>> /\ Peers(n) # {}
    /\ outbox' = [outbox EXCEPT ![n] = Tail(@)]
    /\ published' = [published EXCEPT ![n][Head(outbox[n])] = @ + 1]
    /\ wire' = wire \cup [to : Peers(n), from : {n}, origin : {n},
                          type : {"TransactionBroadcast"}, tx : {Head(outbox[n])}, accept : {TRUE}]
    /\ UNCHANGED <<up, status, tally, mempool, batch, connections, banned, faults>>

PublishFails(n) ==
    /\ Listens(n) /\ outbox[n] # <<>>
    /\ \/ Peers(n) = {} /\ UNCHANGED faults
       \/ Peers(n) # {} /\ Fault
    /\ outbox' = [outbox EXCEPT ![n] = Tail(@)]
    /\ UNCHANGED <<up, status, tally, mempool, batch, published, connections, wire, banned>>

Disconnect(n, m) ==
    /\ links' = links \ {{n, m}}
    /\ fresh' = fresh \ {<<n, m>>, <<m, n>>}

\* The banned_peers database: a key is put in, and asked for.
Ban(n, m) == banned' = [banned EXCEPT ![n] = @ \cup {m}]
IsBanned(n, m) == m \in banned[n]

\* Mutant: the database is not asked.
LetIn(n, m) ==
    /\ Listens(n) /\ <<n, m>> \in fresh
    /\ fresh' = fresh \ {<<n, m>>}
    /\ UNCHANGED <<up, memory, links, slipped, wire, banned, faults>>

ConnectionEstablished(n, m) ==
    /\ Listens(n) /\ <<n, m>> \in fresh
    /\ \/ IsBanned(n, m) /\ Disconnect(n, m) /\ UNCHANGED slipped
       \/ ~IsBanned(n, m) /\ fresh' = fresh \ {<<n, m>>} /\ UNCHANGED <<links, slipped>>
       \/ /\ IsBanned(n, m)
          /\ fresh' = fresh \ {<<n, m>>}
          /\ slipped' = [slipped EXCEPT ![n] = @ \cup {m}]
          /\ UNCHANGED links
    /\ UNCHANGED <<up, memory, wire, banned, faults>>

(***************************************************************************)
(* A gossip message reaches node m.to.  The swarm passes it on to the      *)
(* node's other peers before the loop sees it, whatever the loop makes of  *)
(* it (the swarm is external), and the copy on the wire may be delivered   *)
(* again.  The propagation source is the peer that sent it here, not the   *)
(* one that published it.                                                  *)
(***************************************************************************)
Arrives(m, sent) ==
    LET forwarded == [to : Peers(m.to) \ {m.from, m.origin}, from : {m.to}, origin : {m.origin},
                      type : {m.type}, tx : {m.tx}, accept : {m.accept}]
    IN  /\ m \in wire /\ Listens(m.to)
        /\ \/ wire' = (wire \ {m}) \cup forwarded \cup sent /\ UNCHANGED faults
           \/ wire' = wire \cup forwarded \cup sent /\ Fault

\* Mutant: every transaction received is queued for publication.
OnBroadcastEcho(m) ==
    /\ m.type = "TransactionBroadcast" /\ Arrives(m, {})
    /\ ~OverCap(Dag(m.to), m.tx) /\ Len(outbox[m.to]) < 2
    /\ outbox' = [outbox EXCEPT ![m.to] = Append(@, m.tx)]
    /\ status' = [status EXCEPT ![m.to][m.tx] = IF Inserts(Dag(m.to), m.tx) THEN "Pending" ELSE @]
    /\ UNCHANGED <<up, tally, mempool, batch, published, connections, banned>>

\* The rate limiter (module RateLimiter) may refuse any transaction before it is looked at.
OnBroadcast(m) ==
    /\ m.type = "TransactionBroadcast" /\ Arrives(m, {})
    /\ \/ Inserts(Dag(m.to), m.tx) /\ Accept(m.to, m.tx)
       \/ UNCHANGED <<status, outbox>>
    /\ UNCHANGED <<up, tally, mempool, batch, published, connections, banned>>

(***************************************************************************)
(* SupplyCapExceeded: the propagation source is banned, if the database    *)
(* can be written, and disconnected, also when the sum was wrong.          *)
(***************************************************************************)
OnOverCap(m) ==
    /\ m.type = "TransactionBroadcast" /\ Arrives(m, {})
    /\ \/ OverCap(Dag(m.to), m.tx) /\ UNCHANGED <<status, outbox>>
       \/ Crossed(m.to, m.tx)
    /\ \/ Ban(m.to, m.from)
       \/ UNCHANGED banned
    /\ Disconnect(m.to, m.from)
    /\ UNCHANGED <<up, tally, mempool, batch, published, slipped>>

OnVoteRequest(m) ==
    LET answer == [to : Peers(m.to), from : {m.to}, origin : {m.to}, type : {"VoteResponse"},
                   tx : {m.tx}, accept : {m.tx \in Dag(m.to)}]
    IN  /\ m.type = "VoteRequest" /\ Arrives(m, answer)
        /\ UNCHANGED <<up, memory, connections, banned>>

(***************************************************************************)
(* process_remote_vote.  The node registers no validator, so its own name  *)
(* is the only one in the validator set, with power 1.                     *)
(***************************************************************************)
IsValidator(n, m) == Name[m.origin] = Name[n]

\* Mutant: a voter may vote again.
RecordedAgain(votes, v) == votes \cup {v}

Recorded(votes, v) ==
    IF \E u \in votes : u.tx = v.tx /\ u.voter = v.voter THEN votes ELSE votes \cup {v}

evaluate(cast) ==
    IF Cardinality(cast) < Quorum THEN "Voting"
    ELSE IF (Cardinality({v \in cast : v.accept}) * 10000) \div Cardinality(cast) >= 6667
         THEN "Confirmed" ELSE "Rejected"

OnVoteResponse(m) ==
    LET n     == m.to
        votes == Recorded(tally[n], [tx |-> m.tx, voter |-> Name[n], accept |-> m.accept])
        cast  == {v \in votes : v.tx = m.tx}
        new   == evaluate(cast)
    IN  /\ m.type = "VoteResponse" /\ Arrives(m, {})
        /\ \/ ~IsValidator(n, m) /\ UNCHANGED <<tally, status>>
           \/ /\ IsValidator(n, m)
              /\ tally' = [tally EXCEPT ![n] = IF new = "Voting" THEN votes ELSE votes \ cast]
              /\ status' = [status EXCEPT ![n][m.tx] = IF @ = "Absent" THEN @ ELSE new]
        /\ UNCHANGED <<up, mempool, batch, outbox, published, connections, banned>>

(***************************************************************************)
(* mempool_interval: process_mempool_batch drains the earliest BatchSize   *)
(* transactions, those of one timestamp in any order, and inserts one      *)
(* after the other, while clients go on submitting; what is refused is     *)
(* dropped, and nothing of the batch is published.                         *)
(***************************************************************************)
Drained(B) ==
    {s \in UNION {[1 .. k -> B] : k \in 1 .. BatchSize} :
        LET left == B \ {s[i] : i \in DOMAIN s}
        IN  /\ left # {} => Len(s) = BatchSize
            /\ \A i, j \in DOMAIN s : i < j => s[i] # s[j] /\ Timestamp[s[i]] <= Timestamp[s[j]]
            /\ \A i \in DOMAIN s, t \in left : Timestamp[s[i]] <= Timestamp[t]}

MempoolTick(n) ==
    /\ Listens(n) /\ mempool[n] # {}
    /\ \E s \in Drained(mempool[n]) :
          /\ mempool' = [mempool EXCEPT ![n] = @ \ {s[i] : i \in DOMAIN s}]
          /\ batch' = [batch EXCEPT ![n] = s]
    /\ UNCHANGED <<up, status, tally, outbox, published, connections, wire, banned, faults>>

InsertDrained(n) ==
    /\ n \in up /\ batch[n] # <<>>
    /\ LET t == Head(batch[n])
       IN  \/ /\ Inserts(Dag(n), t)
              /\ status' = [status EXCEPT ![n][t] = "Pending"] /\ UNCHANGED outbox
           \/ ~Inserts(Dag(n), t) /\ UNCHANGED <<status, outbox>>
           \/ Crossed(n, t)
    /\ batch' = [batch EXCEPT ![n] = Tail(@)]
    /\ UNCHANGED <<up, tally, mempool, published, connections, wire, banned, faults>>

-----------------------------------------------------------------------------
(***************************************************************************)
(* Start and stop.  A start finds the database as it was; ctrl_c, a panic  *)
(* or a crash loses everything else, and with it the node's connections.   *)
(***************************************************************************)
Start(n) ==
    /\ n \notin up
    /\ up' = up \cup {n}
    /\ UNCHANGED <<memory, connections, wire, banned, faults>>

Stop(n) ==
    /\ n \in up /\ Fault
    /\ up' = up \ {n}
    /\ status' = [status EXCEPT ![n] = [t \in Tx |-> "Absent"]]
    /\ tally' = [tally EXCEPT ![n] = {}]
    /\ mempool' = [mempool EXCEPT ![n] = {}]
    /\ batch' = [batch EXCEPT ![n] = <<>>]
    /\ outbox' = [outbox EXCEPT ![n] = <<>>]
    /\ published' = [published EXCEPT ![n] = [t \in Tx |-> 0]]
    /\ links' = {l \in links : n \notin l}
    /\ fresh' = {f \in fresh : f[1] # n /\ f[2] # n}
    /\ slipped' = [slipped EXCEPT ![n] = {}]
    /\ wire' = {m \in wire : m.to # n}
    /\ UNCHANGED banned

(***************************************************************************)
(* What other programs and the network do: clients fill the mempool, peers *)
(* dial and hang up, and messages are lost.                                *)
(***************************************************************************)
PoolInsert(n, t) ==
    /\ n \in up /\ <<n, t>> \in Pooled /\ t \notin mempool[n] /\ t \notin Dag(n)
    /\ mempool' = [mempool EXCEPT ![n] = @ \cup {t}]
    /\ UNCHANGED <<up, status, tally, batch, outbox, published, connections, wire, banned, faults>>

Dial(n, m) ==
    /\ n # m /\ {n, m} \subseteq up /\ {n, m} \in Link \ links
    /\ links' = links \cup {{n, m}}
    /\ fresh' = fresh \cup {<<n, m>>, <<m, n>>}
    /\ UNCHANGED <<up, memory, slipped, wire, banned, faults>>

HangUp(n, m) ==
    /\ {n, m} \in links /\ n # m /\ Fault
    /\ Disconnect(n, m)
    /\ UNCHANGED <<up, memory, slipped, wire, banned>>

Lose(m) ==
    /\ m \in wire /\ Fault
    /\ wire' = wire \ {m}
    /\ UNCHANGED <<up, memory, connections, banned>>

Next ==
    \/ \E n \in Node : Publish(n) \/ PublishFails(n) \/ Start(n) \/ Stop(n)
                        \/ MempoolTick(n) \/ InsertDrained(n)
    \/ \E n \in Node, t \in Tx : RpcSubmit(n, t) \/ PoolInsert(n, t)
    \/ \E n, m \in Node : ConnectionEstablished(n, m) \/ Dial(n, m) \/ HangUp(n, m)
    \/ \E m \in wire : OnBroadcast(m) \/ OnOverCap(m)
                       \/ OnVoteRequest(m) \/ OnVoteResponse(m) \/ Lose(m)

Spec == Init /\ [][Next]_vars

-----------------------------------------------------------------------------
\* Every variable has its type.
TypeOK ==
    /\ up \subseteq Node
    /\ status \in [Node -> [Tx -> Status]]
    /\ tally \in [Node -> SUBSET Vote] /\ mempool \in [Node -> SUBSET Tx]
    /\ batch \in [Node -> Seq(Tx)] /\ outbox \in [Node -> Seq(Tx)]
    /\ published \in [Node -> [Tx -> Nat]]
    /\ links \subseteq Link /\ fresh \subseteq Node \X Node
    /\ wire \subseteq Message
    /\ banned \in [Node -> SUBSET Node] /\ slipped \in [Node -> SUBSET Node]
    /\ faults \in 0 .. MaxFaults

(***************************************************************************)
(* Whatever messages are lost, repeated or reordered, however submissions  *)
(* of clients come between the insertions of a batch, and whichever of two *)
(* transactions with one nonce is first, those a node has accepted from    *)
(* one sender carry the nonces 1, 2, ..., each once (graph.rs:136-150,     *)
(* node.rs:101-110).                                                       *)
(***************************************************************************)
NoncesHaveNoGap ==
    \A n \in Node, a \in Addr :
        LET sent == {t \in Dag(n) : Sender[t] = a}
        IN  {Nonce[t] : t \in sent} = 1 .. Cardinality(sent)

(***************************************************************************)
(* A node's DAG holds the ancestors of all its transactions, a child that  *)
(* gossip brings before its parent included (graph.rs:111-119).            *)
(***************************************************************************)
AncestorsAreKnown == \A n \in Node : \A t \in Dag(n) : Parents[t] \subseteq Dag(n)

(***************************************************************************)
(* Gossip dies out: as every node publishes what it accepts, also what it  *)
(* got by gossip (node.rs:90, main.rs:277), it must publish a transaction  *)
(* at most once between two starts, however often it is delivered.         *)
(***************************************************************************)
AnnouncedOnce ==
    \A n \in Node, t \in Tx :
        LET queued == {i \in DOMAIN outbox[n] : outbox[n][i] = t}
        IN  /\ published[n][t] + Cardinality(queued) <= 1
            /\ published[n][t] + Cardinality(queued) > 0 => t \in Dag(n)

(***************************************************************************)
(* A banned peer is connected only until the node has handled the event    *)
(* of the connection, unless the database could not be read then           *)
(* (main.rs:248-256, 286-291): no order of redials, bans and restarts      *)
(* leaves it connected.                                                    *)
(***************************************************************************)
BanIsEnforced ==
    \A n \in Node : \A m \in banned[n] :
        {n, m} \in links => <<n, m>> \in fresh \/ m \in slipped[n]

(***************************************************************************)
(* As the running node registers no validator but itself, votes of other   *)
(* names are ignored and those of its own name count once: with a quorum   *)
(* above one (14 by default) it decides no transaction, whatever votes     *)
(* arrive (main.rs:347-356, engine.rs:95, 141-147, vote.rs:90).            *)
(***************************************************************************)
NothingIsDecided ==
    Quorum > 1 => \A n \in Node, t \in Tx : status[n][t] \in {"Absent", "Pending", "Voting"}
=============================================================================
