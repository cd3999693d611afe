----------------------------- MODULE MCMempool ------------------------------
(***************************************************************************)
(* Instances of Mempool for TLC: x1 and x2 are transactions of a, x2 the   *)
(* older one with the higher fee, y1 is one of b.                          *)
(***************************************************************************)
EXTENDS Mempool, TLC

CONSTANTS a, b, x1, x2, y1

MCSender == [h \in Hash |-> IF h = y1 THEN b ELSE a]

MCFee == [h \in Hash |-> IF h = x2 THEN 2 ELSE 1]

MCNoFee == [h \in Hash |-> 0]

MCTimestamp == [h \in Hash |-> IF h = x2 THEN 1 ELSE 2]

Symmetry == Permutations(Inserter) \cup Permutations(Remover)

-----------------------------------------------------------------------------
(***************************************************************************)
(* A statement of the code's comments that the code does not meet.         *)
(***************************************************************************)
Quiet == (\A i \in Inserter : ipc[i] = "idle") /\ \A r \in Remover : rpc[r] = "idle"

(***************************************************************************)
(* by_sender holds the "pending txs per sender for conflict checking"      *)
(* (mempool.rs:44): when no call is running, every transaction in the map  *)
(* is in its sender's entry, where has_conflict looks for it.              *)
(***************************************************************************)
IndexIsComplete == Quiet => \A h \in txs : h \in by_sender[Sender[h]]

=============================================================================
