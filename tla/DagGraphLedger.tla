--------------------------- MODULE DagGraphLedger ---------------------------
(***************************************************************************)
(* DagGraph implements Ledger.  A transaction takes effect when insert     *)
(* credits the receiver.  Until then the debit is not visible: what the    *)
(* holder of the sender's lock has taken is still counted as the sender's. *)
(* From then on the nonce and the log entry count as written.              *)
(***************************************************************************)
EXTENDS DagGraph

HolderAt(x, label) == lock[x] \in Thread /\ pc[lock[x]] = label

AbsBal ==
    [x \in Addr |-> IF HolderAt(x, "credit")
                    THEN balances[x] + total_debit(cur[lock[x]]) ELSE balances[x]]

AbsSeq ==
    [x \in Addr |-> IF HolderAt(x, "nonce") THEN nonces[x] + 1 ELSE nonces[x]]

AbsApplied ==
    committed \cup {cur[t] : t \in {u \in Thread : pc[u] \in {"nonce", "commit"}}}

L == INSTANCE Ledger
       WITH bal <- AbsBal, seq <- AbsSeq, applied <- AbsApplied, unminted <- boot

(***************************************************************************)
(* Every behaviour of the concurrent DAG is, seen through the mapping, a   *)
(* behaviour of the atomic ledger: debit, credit, nonce and nonce key of   *)
(* one transaction appear to change at once, whatever the interleaving     *)
(* (graph.rs:152-156).                                                     *)
(***************************************************************************)
ImplementsLedger == L!LSpec

=============================================================================
