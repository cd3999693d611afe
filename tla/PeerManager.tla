----------------------------- MODULE PeerManager ----------------------------
(***************************************************************************)
(* PeerManager (crates/relyo-network/src/peer_manager.rs): the connected   *)
(* peers and, in a second map, how many of them each network bucket holds. *)
(* The maps are locked shard by shard and one access at a time, so that    *)
(* the calls of several threads interleave between any two accesses.       *)
(***************************************************************************)
EXTENDS Callers, Integers, SequencesExt, FiniteSetsExt

CONSTANTS
    PeerIds,                \* sequence of the peer identities, in the order a scan meets them
    Address,                \* multiaddresses: [sep |-> "." or ":", parts |-> the fields of the IP]
    max_peers,
    max_peers_per_bucket

VARIABLES
    peers,                  \* address of each connected peer, NoAddress for the others
    connections_per_bucket, \* peers per bucket, 0 for a bucket without an entry
    pc, arg, scan,          \* each thread's next step, its peer and address, its scan of the map
    raced                   \* buckets that two calls have changed in a harmful order

peerVars == <<peers, connections_per_bucket, pc, arg, scan, raced>>

NoAddress == [sep |-> "none", parts |-> <<>>]
PeerId == ToSet(PeerIds)

\* An IPv4 address counts with its first three fields, an IPv6 one with its first four.
bucket_for_address(address) ==
    LET kept == IF address.sep = ":" THEN 4 ELSE 3
    IN  SubSeq(address.parts, 1, Min({kept, Len(address.parts)}))

Bucket == {bucket_for_address(address) : address \in Address}
Members(b) == {p \in PeerId : peers[p] # NoAddress /\ bucket_for_address(peers[p]) = b}

PeersInit ==
    /\ peers = [p \in PeerId |-> NoAddress]
    /\ connections_per_bucket = [b \in Bucket |-> 0]
    /\ pc = [t \in Thread |-> "idle"]
    /\ arg = [t \in Thread |-> [peer |-> PeerIds[1], address |-> NoAddress]]
    /\ scan = [t \in Thread |-> [next |-> 1, len |-> 0]]
    /\ raced = {}

BucketOf(t) == bucket_for_address(arg[t].address)
MoveTo(t, step) == pc' = [pc EXCEPT ![t] = step]
At(t, step) == pc[t] = step /\ UNCHANGED arg

-----------------------------------------------------------------------------
add_peer(t, p, address) ==
    /\ pc[t] = "idle" /\ peers[p] = NoAddress
    /\ arg' = [arg EXCEPT ![t] = [peer |-> p, address |-> address]]
    /\ scan' = [scan EXCEPT ![t] = [next |-> 1, len |-> 0]]
    /\ MoveTo(t, "len")
    /\ UNCHANGED <<peers, connections_per_bucket, raced>>

\* peers.len() adds up the shards one by one.
ScanShard(t) ==
    /\ At(t, "len") /\ scan[t].next <= Len(PeerIds)
    /\ scan' = [scan EXCEPT ![t] =
                 [next |-> @.next + 1, len |-> @.len + (IF peers[PeerIds[@.next]] = NoAddress THEN 0 ELSE 1)]]
    /\ UNCHANGED <<peers, connections_per_bucket, pc, raced>>

\* Mutant: one peer too many.
IsFullAbove(len) == len > max_peers

IsFull(len) == len >= max_peers

CheckLen(t) ==
    /\ At(t, "len") /\ scan[t].next > Len(PeerIds)
    /\ scan' = [scan EXCEPT ![t] = [next |-> 1, len |-> 0]]
    /\ MoveTo(t, IF IsFull(scan[t].len) THEN "idle" ELSE "bucket")
    /\ UNCHANGED <<peers, connections_per_bucket, raced>>

CheckBucket(t) ==
    /\ At(t, "bucket")
    /\ MoveTo(t, IF connections_per_bucket[BucketOf(t)] >= max_peers_per_bucket THEN "idle" ELSE "insert")
    /\ UNCHANGED <<peers, connections_per_bucket, scan, raced>>

\* A peer that another call has added meanwhile is replaced, and counted again.
InsertPeer(t) ==
    LET old == peers[arg[t].peer]
    IN  /\ At(t, "insert")
        /\ peers' = [peers EXCEPT ![arg[t].peer] = arg[t].address]
        /\ raced' = IF old = NoAddress THEN raced ELSE raced \cup {bucket_for_address(old), BucketOf(t)}
        /\ MoveTo(t, "count")
        /\ UNCHANGED <<connections_per_bucket, scan>>

CountPeer(t) ==
    /\ At(t, "count")
    /\ connections_per_bucket' = [connections_per_bucket EXCEPT ![BucketOf(t)] = @ + 1]
    /\ MoveTo(t, "idle")
    /\ UNCHANGED <<peers, scan, raced>>

-----------------------------------------------------------------------------
remove_peer(t, p) ==
    /\ pc[t] = "idle" /\ peers[p] # NoAddress
    /\ arg' = [arg EXCEPT ![t] = [peer |-> p, address |-> peers[p]]]
    /\ peers' = [peers EXCEPT ![p] = NoAddress]
    /\ MoveTo(t, "discount")
    /\ UNCHANGED <<connections_per_bucket, scan, raced>>

\* Mutant: the bucket's entry is kept when its last peer leaves.
DiscountAbove(t) ==
    /\ At(t, "discount") /\ MoveTo(t, "idle")
    /\ connections_per_bucket' = [connections_per_bucket EXCEPT ![BucketOf(t)] = Max({1, @ - 1})]
    /\ UNCHANGED <<peers, scan, raced>>

\* The entry of one peer is removed in a step of its own, without its lock in between.
Discount(t) ==
    LET count == connections_per_bucket[BucketOf(t)]
    IN  /\ At(t, "discount")
        /\ \/ /\ count = 0
              /\ raced' = raced \cup {BucketOf(t)}
              /\ MoveTo(t, "idle") /\ UNCHANGED connections_per_bucket
           \/ count = 1 /\ MoveTo(t, "drop") /\ UNCHANGED <<connections_per_bucket, raced>>
           \/ /\ count > 1
              /\ connections_per_bucket' = [connections_per_bucket EXCEPT ![BucketOf(t)] = @ - 1]
              /\ MoveTo(t, "idle") /\ UNCHANGED raced
        /\ UNCHANGED <<peers, scan>>

DropBucket(t) ==
    /\ At(t, "drop")
    /\ connections_per_bucket' = [connections_per_bucket EXCEPT ![BucketOf(t)] = 0]
    /\ raced' = IF connections_per_bucket[BucketOf(t)] = 1 THEN raced ELSE raced \cup {BucketOf(t)}
    /\ MoveTo(t, "idle")
    /\ UNCHANGED <<peers, scan>>

PeersNext ==
    \E t \in Thread :
        \/ \E p \in PeerId, address \in Address : add_peer(t, p, address)
        \/ \E p \in PeerId : remove_peer(t, p)
        \/ ScanShard(t) \/ CheckLen(t) \/ CheckBucket(t) \/ InsertPeer(t) \/ CountPeer(t)
        \/ Discount(t) \/ DropBucket(t)

PeersSpec == PeersInit /\ [][PeersNext]_peerVars

-----------------------------------------------------------------------------
(***************************************************************************)
(* The limit on peers is checked against a sum over shards read one by one *)
(* and before the insertion (peer_manager.rs:48, 70): callers that race    *)
(* exceed it by at most one peer each but one.                             *)
(***************************************************************************)
PeersAreBounded ==
    Cardinality({p \in PeerId : peers[p] # NoAddress}) <= max_peers + Cardinality(Thread) - 1

(***************************************************************************)
(* Between calls a bucket's count is the number of its peers, unless one   *)
(* of three races has hit it: a peer added twice at once, a removal before *)
(* its addition is counted, and an addition between the test for the last  *)
(* peer and the removal of the entry (peer_manager.rs:44-86, 94-103).      *)
(***************************************************************************)
BucketsAreExact ==
    (\A t \in Thread : pc[t] = "idle") =>
        \A b \in Bucket \ raced : connections_per_bucket[b] = Cardinality(Members(b))

(***************************************************************************)
(* What the manager promises however its callers race: few peers too many  *)
(* (peer_manager.rs:48), and buckets that count their peers unless a race  *)
(* has hit them (peer_manager.rs:75-86, 94-103).                           *)
(***************************************************************************)
PeerCountsHold == PeersAreBounded /\ BucketsAreExact
=============================================================================
