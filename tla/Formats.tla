------------------------------- MODULE Formats ------------------------------
(***************************************************************************)
(* The byte formats of relyo-core: what a transaction's signature covers   *)
(* (transaction.rs, primitives.rs), addresses (address.rs) and the count   *)
(* of a hash's leading zero bits (primitives.rs).  A field of fixed width  *)
(* is one byte here, and so is the length in front of a list.              *)
(***************************************************************************)
EXTENDS Integers, SequencesExt, FiniteSetsExt

CONSTANTS
    ByteBits,           \* bits of a byte: 8
    PROTOCOL_VERSION, MIN_DAG_PARENTS, DUST_THRESHOLD, MAX_MEMO_BYTES, MAX_TX_SIZE,
    CHAIN_ID,
    ADDRESS_PREFIX,     \* 0x52
    HashBytes,          \* bytes of the key's hash in an address: 20
    ChecksumValues      \* values of an address's checksum: 2^32

-----------------------------------------------------------------------------
\* TransactionKind as u8
Kind == [Standard |-> 0, Coinbase |-> 1, Genesis |-> 2]

Listed(bytes, len) == <<len>> \o bytes

InputsOf(tx) ==
    FlattenSeq([i \in DOMAIN tx.inputs |->
                  <<tx.inputs[i].tx_hash, tx.inputs[i].output_index, tx.inputs[i].pubkey>>])
OutputsOf(tx) ==
    FlattenSeq([i \in DOMAIN tx.outputs |-> <<tx.outputs[i].amount, tx.outputs[i].pubkey_hash>>])

\* Mutants: the number of inputs, of outputs, of parents is not written.
InputBytesBare(tx) == InputsOf(tx)
OutputBytesBare(tx) == OutputsOf(tx)
ParentBytesBare(tx) == tx.dag_parents

\* The lists, with their lengths in front.
InputBytes(tx) == Listed(InputsOf(tx), Len(tx.inputs))
OutputBytes(tx) == Listed(OutputsOf(tx), Len(tx.outputs))
ParentBytes(tx) == Listed(tx.dag_parents, Len(tx.dag_parents))

\* Transaction::signable_bytes of primitives.rs, all but the inputs' signatures.
utxo_signable_bytes(tx) ==
    <<tx.version, Kind[tx.kind]>> \o InputBytes(tx) \o OutputBytes(tx) \o ParentBytes(tx)
      \o <<tx.timestamp, tx.fee>> \o Listed(tx.memo, Len(tx.memo))

\* Transaction::validate_structure, the serialized size being that of the signed
\* bytes and of a signature per input.
validate_structure(tx) ==
    /\ tx.version = PROTOCOL_VERSION
    /\ tx.outputs # <<>>
    /\ \A i \in DOMAIN tx.outputs : tx.outputs[i].amount >= DUST_THRESHOLD
    /\ Len(tx.memo) <= MAX_MEMO_BYTES
    /\ tx.kind = "Standard" => tx.inputs # <<>>
    /\ tx.kind # "Standard" => tx.inputs = <<>>
    /\ tx.kind # "Genesis" => Len(tx.dag_parents) >= MIN_DAG_PARENTS
    /\ Len(utxo_signable_bytes(tx)) + Len(tx.inputs) <= MAX_TX_SIZE

(***************************************************************************)
(* Different transactions of the UTXO protocol that are well-formed are    *)
(* signed as, and identified by the hash of, different bytes               *)
(* (primitives.rs:308-350): no input, output, parent or memo can be taken  *)
(* for a neighbour of it.                                                  *)
(***************************************************************************)
UtxoBytesAreUnambiguous(Txs) ==
    LET valid == {tx \in Txs : validate_structure(tx)}
    IN  Cardinality({utxo_signable_bytes(tx) : tx \in valid}) = Cardinality(valid)

-----------------------------------------------------------------------------
\* Mutant: the data's length is written and the data is not.
WithDataLength(tx, bytes) ==
    bytes \o (IF tx.data = <<>> THEN <<>> ELSE <<Len(tx.data)>>)

\* The data comes last, with its length, and not at all if it is empty.
WithData(tx, bytes) ==
    bytes \o (IF tx.data = <<>> THEN <<>> ELSE Listed(tx.data, Len(tx.data)))

\* Transaction::signable_bytes of transaction.rs.  The addresses have no length in
\* front of them: Base58 gives all valid ones the same number of characters.
signable_bytes(tx) ==
    WithData(tx,
        <<tx.tx_type>> \o tx.sender \o tx.receiver
          \o <<tx.amount, tx.fee, tx.timestamp, tx.nonce>>
          \o <<tx.parent_1, tx.parent_2, tx.sender_pubkey, CHAIN_ID>>)

(***************************************************************************)
(* Two transactions of the running protocol that have valid addresses and  *)
(* differ in any field are signed as different bytes                       *)
(* (transaction.rs:128-147), with and without data.                        *)
(***************************************************************************)
SignedBytesAreUnambiguous(Txs) ==
    Cardinality({signable_bytes(tx) : tx \in Txs}) = Cardinality(Txs)

-----------------------------------------------------------------------------
(***************************************************************************)
(* Addresses: the bytes prefix, type, hash and checksum.  The checksum is  *)
(* four bytes of a hash, so that many payloads share one; the sum of the   *)
(* bytes stands for it.                                                    *)
(***************************************************************************)
AddressType == 1..4

Checksum(bytes) == FoldSeq(+, 0, bytes) % ChecksumValues

AddressLen == HashBytes + 3

from_public_key_typed(hash, type) ==
    LET payload == <<ADDRESS_PREFIX, type>> \o hash
    IN  Append(payload, Checksum(payload))

\* Address::genesis
genesis == from_public_key_typed([i \in 1..HashBytes |-> 0], 1)

HasValidChecksum(bytes) == bytes[AddressLen] = Checksum(SubSeq(bytes, 1, AddressLen - 1))

\* Address::from_bytes, which does not look at the type.
from_bytes(bytes) ==
    Len(bytes) = AddressLen /\ bytes[1] = ADDRESS_PREFIX /\ HasValidChecksum(bytes)

\* Address::address_type
address_type(bytes) == bytes[2] \in AddressType

\* Mutant: the checksum is left out.
validateShape(bytes) ==
    Len(bytes) = AddressLen /\ bytes[1] = ADDRESS_PREFIX /\ bytes[2] \in AddressType

\* Address::validate
validate(bytes) ==
    /\ Len(bytes) = AddressLen
    /\ bytes[1] = ADDRESS_PREFIX
    /\ bytes[2] \in AddressType
    /\ HasValidChecksum(bytes)

(***************************************************************************)
(* Every address made from a key, of every type, is accepted by validate   *)
(* and by from_bytes and has a type; with a byte changed validate refuses  *)
(* it, unless it stands before the checksum and the new payload has the    *)
(* same checksum, and always with a byte dropped or added; and the         *)
(* addresses of two hashes or types differ (address.rs:52-136).            *)
(***************************************************************************)
AddressesAreSound(hash, type, Byte, Hashes) ==
    LET address == from_public_key_typed(hash, type)
    IN  /\ \A a \in {address, genesis} : validate(a) /\ from_bytes(a) /\ address_type(a)
        /\ \A i \in DOMAIN address, b \in Byte :
               LET changed == [address EXCEPT ![i] = b]
               IN  b # address[i] /\ validate(changed) =>
                       /\ i < AddressLen
                       /\ Checksum(Front(changed)) = Checksum(Front(address))
        /\ \A i \in DOMAIN address : ~validate(RemoveAt(address, i))
        /\ \A i \in DOMAIN address, b \in Byte : ~validate(InsertAt(address, i, b))
        /\ \A h \in Hashes, t \in AddressType :
               from_public_key_typed(h, t) = address => h = hash /\ t = type

-----------------------------------------------------------------------------
\* u8::leading_zeros
ByteZeros(byte) ==
    Cardinality({k \in 1..ByteBits : byte < 2^(ByteBits - k)})

\* Mutant: the scan goes on behind the first byte that is not zero.
leading_zero_bitsOfAll(hash) == FoldLeft(LAMBDA n, byte : n + ByteZeros(byte), 0, hash)

\* TxHash::leading_zero_bits: whole bytes of zeros, and the first other byte's.
leading_zero_bits(hash) ==
    LET rest == {i \in DOMAIN hash : hash[i] # 0}
    IN  IF rest = {} THEN ByteBits * Len(hash)
        ELSE ByteBits * (Min(rest) - 1) + ByteZeros(hash[Min(rest)])

(***************************************************************************)
(* The count is that of the hash as one big number, the measure of         *)
(* proof of work: a hash has at least n leading zero bits if and only if   *)
(* it is below 2^(bits - n) (primitives.rs:64-75).                         *)
(***************************************************************************)
ZeroBitsMeasureWork(hash) ==
    LET number == FoldLeft(LAMBDA n, byte : n * 2^ByteBits + byte, 0, hash)
        bits   == ByteBits * Len(hash)
    IN  \A n \in 0..bits : leading_zero_bits(hash) >= n <=> number < 2^(bits - n)
=============================================================================
