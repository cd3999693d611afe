------------------------------ MODULE MCClients -----------------------------
(***************************************************************************)
(* Instances for TLC of what a node's clients meet: the event stream       *)
(* (RpcEvents), the RPC handlers and the wallet's send command             *)
(* (WalletRpc), the key file (Keystore), and the pure algorithms of        *)
(* Merkle, Economics and Formats on inputs from small sets.  They share    *)
(* nothing; a behaviour exercises the one that part names.                 *)
(***************************************************************************)
EXTENDS RpcEvents, WalletRpc, Keystore

VARIABLES
    part,
    input       \* the input of an algorithm

\* Each run of create has a key of its own.
MCAmount == [r \in Run |-> 1]
MCKey == [p \in Process |-> p]

M == INSTANCE Merkle

F == INSTANCE Formats WITH
        ByteBits <- 3, PROTOCOL_VERSION <- 1, MIN_DAG_PARENTS <- 2, DUST_THRESHOLD <- 1,
        MAX_MEMO_BYTES <- 2, MAX_TX_SIZE <- 26, CHAIN_ID <- 1, ADDRESS_PREFIX <- 5, HashBytes <- 2,
        ChecksumValues <- 4

Y == INSTANCE Economics WITH
        Bps <- 20, MaxEpoch <- 80, Precision <- 1000, base_fee <- 10000, MinBps <- 10000, MaxBps <- 100000,
        Decimals <- 3

vars == <<part, streamVars, walletVars, keyVars, input>>

\* The inputs of the algorithms.
Bit == {0, 1}
\* Leaf data: one unit, or the two hashes that an inner node is made of.
Datum == {<<M!Plain(1)>>, <<M!Plain(2)>>}
Pair == <<M!LeafHash(<<M!Plain(1)>>), M!LeafHash(<<M!Plain(2)>>)>>
Leaves == SeqOf(Datum, 5) \cup SeqOf(Datum \cup {Pair}, 4)
Score == [uptime_hours : {0, 6, 30}, validated_txs : Bit, relayed_bytes : {0, 2}]
Pools == [nodes : SeqOf(Score, 2) \cup {<<q, q, r>> : q, r \in Score}, pool : {1, 12, 52},
          validations : {0, 2}, bandwidth : {0, 3}]
UtxoTx == [version : {1, 2}, kind : DOMAIN F!Kind,
           inputs : SeqOf([tx_hash : {1, 2}, output_index : {1}, pubkey : {1}], 2),
           outputs : SeqOf([amount : {1, 4}, pubkey_hash : {1, 3}], 2),
           dag_parents : SeqOf({1, 2}, 4), timestamp : {1}, fee : {1, 2}, memo : SeqOf({1}, 2)]
Address == {<<0, 0>>, <<0, 1>>, <<1, 0>>}
AccountTx == [tx_type : Bit, sender : Address, receiver : Address, amount : Bit, fee : Bit,
              timestamp : {1}, nonce : Bit, parent_1 : Bit, parent_2 : Bit, sender_pubkey : {1},
              data : SeqOf(Bit, 2)]
KeyHash == [1..2 -> 0..2]

InputInit ==
    \/ part \in {"stream", "wallet", "keys"} /\ input = 0
    \/ part = "merkle" /\ input \in Leaves
    \/ part = "emission" /\ input \in [total_supply : 10..100, decay_bps : {18, 19}]
    \/ part = "rewards" /\ input \in Pools
    \/ part = "fees" /\ input = Y!DefaultMultiplier
    \/ part = "amount" /\ input \in 0..1200
    \/ part = "utxo" /\ input \in DOMAIN F!Kind
    \/ part = "signed" /\ input \in Bit
    \/ part = "address" /\ input \in [hash : KeyHash, type : F!AddressType]
    \/ part = "work" /\ input \in [1..3 -> 0..7]

\* Only the fee market has a state of its own.
FeesNext == \E size, capacity \in 0..2 : input' = Y!update_congestion(input, size, capacity)

Init == InputInit /\ StreamInit /\ WalletInit /\ KeyInit
Next ==
    \/ part = "stream" /\ StreamNext /\ UNCHANGED <<part, walletVars, keyVars, input>>
    \/ part = "wallet" /\ WalletNext /\ UNCHANGED <<part, streamVars, keyVars, input>>
    \/ part = "keys" /\ KeyNext /\ UNCHANGED <<part, streamVars, walletVars, input>>
    \/ part = "fees" /\ FeesNext /\ UNCHANGED <<part, streamVars, walletVars, keyVars>>
Spec == Init /\ [][Next]_vars /\ StreamFairness

\* The proof of a leaf verifies for that leaf and for no other, and a root
\* stands for one list of leaves (MerkleTree).
MerkleIsSound ==
    part = "merkle" => M!ProofsAreExact(input, Datum \cup {Pair, <<M!Plain(3)>>}) /\ M!RootIsBinding(input, Leaves)

\* No unit is made or lost by rounding: all rewards fit into the supply
\* (EmissionSchedule), a pool is given away whole and to each its share
\* (RewardCalculator), a printed amount reads back as the same amount (format_rly),
\* and no sequence of loads gets the fee stuck (FeeMarket).
RoundingIsHarmless ==
    /\ part = "emission" => Y!RewardsFitSupply(input.total_supply, input.decay_bps)
    /\ part = "rewards" =>
           Y!PoolIsDividedFairly(input.nodes, input.pool, input.validations, input.bandwidth)
    /\ part = "amount" => Y!PrintedAmountReadsBack(input)
    /\ part = "fees" => Y!FeeFollowsLoad(input)

\* Different transactions, of either protocol, have different signed bytes
\* (signable_bytes); derived addresses are valid and damaged ones are not
\* (Address); the number of zero bits is the size of the hash as a number
\* (leading_zero_bits).
BytesAreUnambiguous ==
    /\ part = "utxo" => F!UtxoBytesAreUnambiguous({tx \in UtxoTx : tx.kind = input})
    /\ part = "signed" => F!SignedBytesAreUnambiguous({tx \in AccountTx : tx.fee = input})
    /\ part = "address" => F!AddressesAreSound(input.hash, input.type, 0..5, KeyHash)
    /\ part = "work" => F!ZeroBitsMeasureWork(input)
=============================================================================
