------------------------------- MODULE Ledger -------------------------------
(***************************************************************************)
(* What the node's ledger promises, without threads, locks or a graph: an  *)
(* account book in which a transaction is applied in one indivisible step, *)
(* at most once, in the order of its sender's nonces and only when the     *)
(* sender can pay.  DagGraphLedger shows that DagGraph implements it.      *)
(***************************************************************************)
EXTENDS Naturals

CONSTANTS Addr, Hash, Tx, Genesis

VARIABLES
    bal,       \* balance of each account
    seq,       \* number of transactions each account has sent
    applied,   \* transactions applied
    unminted   \* genesis allocations still to be made

lvars == <<bal, seq, applied, unminted>>

Cost(h) == Tx[h].amount + Tx[h].fee

LInit ==
    /\ bal = [x \in Addr |-> 0]
    /\ seq = [x \in Addr |-> 0]
    /\ applied = {}
    /\ unminted = Genesis

Allocate(h) ==
    /\ h \in unminted
    /\ unminted' = unminted \ {h}
    /\ bal' = [bal EXCEPT ![Tx[h].receiver] = @ + Tx[h].amount]
    /\ UNCHANGED <<seq, applied>>

\* The fee leaves the sender's account and enters no other.
Apply(h) ==
    /\ unminted = {}
    /\ h \in Hash \ (applied \cup Genesis)
    /\ Tx[h].nonce = seq[Tx[h].sender] + 1
    /\ bal[Tx[h].sender] >= Cost(h)
    /\ bal' = [[bal EXCEPT ![Tx[h].sender] = @ - Cost(h)]
                  EXCEPT ![Tx[h].receiver] = @ + Tx[h].amount]
    /\ seq' = [seq EXCEPT ![Tx[h].sender] = @ + 1]
    /\ applied' = applied \cup {h}
    /\ UNCHANGED unminted

LNext == \E h \in Hash : Allocate(h) \/ Apply(h)

LSpec == LInit /\ [][LNext]_lvars

=============================================================================
