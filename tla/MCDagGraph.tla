----------------------------- MODULE MCDagGraph -----------------------------
(***************************************************************************)
(* Instances of DagGraph for TLC.  Two accounts are funded at start-up; x1 *)
(* and x2 are consecutive transfers of a, z1 competes with x1 for nonce 1, *)
(* and v1 pays a back: x2 is affordable only after v1 has been applied.    *)
(* w1 has the type of a genesis transaction but comes from an account,     *)
(* over exceeds the supply cap and a u64, and bad has no signature.        *)
(***************************************************************************)
EXTENDS DagGraphInv, TLC

CONSTANTS a, b, g1, g2, x1, x2, z1, v1, w1, over, bad

Transfer(from, to, amount, fee, nonce, p1, p2) ==
    [tx_type |-> "Transfer", sender |-> from, receiver |-> to, amount |-> amount,
     fee |-> fee, nonce |-> nonce, parent_1 |-> p1, parent_2 |-> p2, signed |-> TRUE]

Mint(to, amount) ==
    [tx_type |-> "Genesis", sender |-> to, receiver |-> to, amount |-> amount,
     fee |-> 0, nonce |-> 0, parent_1 |-> Zero, parent_2 |-> Zero, signed |-> TRUE]

AllTx ==
    (g1 :> Mint(a, 4)) @@ (g2 :> Mint(b, 3)) @@
    (x1 :> Transfer(a, b, 1, 1, 1, g1, g2)) @@
    (x2 :> Transfer(a, b, 2, 1, 2, g2, x1)) @@
    (z1 :> Transfer(a, b, 2, 1, 1, g1, g1)) @@
    (v1 :> Transfer(b, a, 1, 1, 1, g1, g2)) @@
    (w1 :> [Transfer(b, a, 1, 0, 1, Zero, Zero) EXCEPT !.tx_type = "Genesis"]) @@
    (over :> Transfer(b, a, 15, 1, 1, g1, g2)) @@
    (bad :> [Transfer(b, a, 1, 1, 1, g1, g2) EXCEPT !.signed = FALSE])

MCTx == [h \in Hash |-> AllTx[h]]

Symmetry == Permutations(Thread)
=============================================================================
