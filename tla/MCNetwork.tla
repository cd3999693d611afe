----------------------------- MODULE MCNetwork ------------------------------
(***************************************************************************)
(* An instance of Network for TLC: two nodes with the default name and a   *)
(* third, with one of its own, of which only a vote arrives.  x1 and x2    *)
(* are the first two transactions of a, x2 with the earlier timestamp, and *)
(* y1 is another first one of a, which a client submits to n2, where x1    *)
(* and x2 are in the mempool.                                              *)
(* v1 is one of b, a child of x2, that n1 has published before a restart;  *)
(* it is within the supply cap only for a node that has accepted x1, whose *)
(* fee has left circulation there.                                         *)
(***************************************************************************)
EXTENDS Network

CONSTANTS n1, n2, n3, a, b, x1, x2, y1, v1

MCName == [n \in Node |-> IF n = n3 THEN "validator" ELSE "relyo-node"]
MCSender == [t \in Tx |-> IF t = v1 THEN b ELSE a]
MCReceiver == [t \in Tx |-> IF t = v1 THEN a ELSE b]
MCAmount == [t \in Tx |-> IF t = v1 THEN 2 ELSE 1]
MCFee == [t \in Tx |-> 1]
MCNonce == [t \in Tx |-> IF t = x2 THEN 2 ELSE 1]
MCParents == [t \in Tx |-> IF t = v1 THEN {x2} ELSE {}]
MCTimestamp == [t \in Tx |-> IF t = x2 THEN 1 ELSE 2]
MCFunds == [c \in Addr |-> IF c = a THEN 5 ELSE 3]
MCLink == {{n1, n2}}
MCOffered == {<<n1, x1>>, <<n2, y1>>}
MCPooled == {<<n2, x1>>, <<n2, x2>>}
MCRequests ==
    {[to |-> n1, from |-> n2, origin |-> n3, type |-> "VoteResponse", tx |-> x1, accept |-> TRUE],
     [to |-> n2, from |-> n1, origin |-> n1, type |-> "VoteRequest", tx |-> x1, accept |-> TRUE],
     [to |-> n2, from |-> n1, origin |-> n1, type |-> "TransactionBroadcast", tx |-> v1, accept |-> TRUE]}
=============================================================================
