---------------------------- MODULE DagGraphInv -----------------------------
(***************************************************************************)
(* The inductive invariant from which DagGraphProofs derives the safety    *)
(* properties of DagGraph and its refinement of Ledger.                    *)
(***************************************************************************)
EXTENDS DagGraphLedger, Totals

\* A thread is in the critical section of a sender iff it owns that sender's lock.
LockInv ==
    /\ \A t \in Thread : pc[t] \in Holding => lock[sender(cur[t])] = t
    /\ \A x \in Addr : lock[x] # NoThread =>
          /\ pc[lock[x]] \in Holding
          /\ sender(cur[lock[x]]) = x

\* Start-up is over before the first submission.
BootInv == boot # {} => \A t \in Thread : pc[t] = "idle"

(***************************************************************************)
(* What a thread has established about its transaction's nonce, and that   *)
(* it is in the log once committed.                                        *)
(***************************************************************************)
NonceInv ==
    \A t \in Thread :
        /\ pc[t] \in {"debit", "credit", "nonce"} =>
              Tx[cur[t]].nonce = nonces[sender(cur[t])] + 1
        /\ pc[t] = "commit" =>
              Tx[cur[t]].nonce = nonces[sender(cur[t])] /\ Tx[cur[t]].nonce > 0
        /\ pc[t] \in Weaving \cup {"count"} => cur[t] \in committed

LedgerInv == NonceInv /\ DebitIsCovered /\ NonceLogIsExact

(***************************************************************************)
(* A transaction is settled once it has been stored, pruned since or not.  *)
(* It stays settled: its nonce is used up, so it is never inserted again,  *)
(* and a transaction that is being woven in is not settled.                *)
(***************************************************************************)
Settled ==
    (Genesis \ boot) \cup
    {h \in committed : \A t \in Thread : pc[t] \in Weaving => cur[t] # h}

HasParents(t) == pc[t] \in {"cap2", "check", "debit"} \cup Applying \cup Weaving

SettledInv ==
    /\ \A h \in nodes : h \in Settled /\ Parents(h) \cap Hash \subseteq Settled
    /\ \A t \in Thread :
          /\ pc[t] = "parent2" => Tx[cur[t]].parent_1 \in Settled
          /\ HasParents(t) => Parents(cur[t]) \cap Hash \subseteq Settled

TipInv ==
    /\ TipsAreUnreferenced
    /\ FrontierIsComplete
    /\ \A t \in Thread :
          /\ pc[t] = "untip" =>
                \A p \in Parents(cur[t]) \cap nodes : info[p].children # {}
          /\ pc[t] \in {"tip", "store"} => Parents(cur[t]) \cap tips = {}
          /\ pc[t] = "store" => cur[t] \in tips

DepthInv ==
    /\ DepthFollowsParents
    /\ MaxDepthIsBound
    /\ \A t \in Thread :
          /\ pc[t] \in Weaving \ {"depth"} =>
                \A p \in Parents(cur[t]) \cap nodes : info[p].depth < depth[t]
          /\ pc[t] = "maxcas" => current_max[t] < depth[t]
          /\ pc[t] \in {"link", "untip", "tip", "store"} => depth[t] <= max_depth

-----------------------------------------------------------------------------
(***************************************************************************)
(* The amounts the applied transactions move: what they cost their senders *)
(* from the debit on, what they pay their receivers from the credit on,    *)
(* and what genesis has paid so far.                                       *)
(***************************************************************************)
Amounts == [h \in Hash |-> Tx[h].amount]
Debits  == [h \in Hash |-> total_debit(h)]

Debited  == committed \cup {cur[t] : t \in {u \in Thread : pc[u] \in Applying}}
Received == (Genesis \ boot) \cup AbsApplied

DebitedBy(x)  == {h \in Debited : sender(h) = x}
ReceivedBy(x) == {h \in Received : receiver(h) = x}

(***************************************************************************)
(* The ledger is a function of the log: at every instant each balance is   *)
(* what genesis gave the account plus what the applied transactions paid   *)
(* it minus what they cost it, each counted once (graph.rs:153-156).  So   *)
(* nothing is minted or lost by races, and only fees leave circulation.    *)
(***************************************************************************)
LedgerReplaysLog ==
    \A x \in Addr :
        balances[x] + Total(Debits, DebitedBy(x)) = Total(Amounts, ReceivedBy(x))

\* The same for all accounts together.
SupplyIsConserved ==
    Total(balances, Addr) + Total(Debits, Debited) = Total(Amounts, Received)

ReplayInv ==
    /\ IsFiniteSet(Debited) /\ IsFiniteSet(Received)
    /\ LedgerReplaysLog /\ SupplyIsConserved

(***************************************************************************)
(* What total_circulating adds up when nobody interferes never exceeds     *)
(* what genesis has allocated so far: no interleaving of insertions mints  *)
(* (graph.rs:120-156).                                                     *)
(***************************************************************************)
CirculationIsBounded == Total(balances, Addr) <= Total(Amounts, Genesis \ boot)

(***************************************************************************)
(* create_genesis inserts one transaction of amount 0 (genesis.rs:21), and *)
(* deployments and tests that fund accounts allocate what fits in a u64 ...*)
(***************************************************************************)
ASSUME AllocationFits == IsFiniteSet(Genesis) /\ Total(Amounts, Genesis) <= MaxU64

\* ... so no balance ever wraps, although credit is a plain fetch_add (state.rs:57-62).
BalancesFit == \A x \in Addr : balances[x] <= MaxU64

-----------------------------------------------------------------------------
(***************************************************************************)
(* All of it.  Each part is preserved by every step given those before it. *)
(***************************************************************************)
IInv ==
    /\ TypeOK /\ LockInv /\ BootInv /\ LedgerInv /\ SettledInv /\ TipInv /\ DepthInv
    /\ ReplayInv

(***************************************************************************)
(* What is recorded under a sender's nonce is never replaced, although     *)
(* commit_transaction overwrites whatever it finds (conflict.rs:84-88),    *)
(* and a transaction that was stored once is never inserted again,         *)
(* although pruning makes the DAG forget it.                               *)
(***************************************************************************)
SettledIsFinal == [][committed \subseteq committed' /\ Settled \subseteq Settled']_vars
=============================================================================
