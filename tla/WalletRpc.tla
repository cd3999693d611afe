------------------------------ MODULE WalletRpc -----------------------------
(***************************************************************************)
(* A node's JSON-RPC handlers (crates/relyo-node/src/rpc.rs) and runs of   *)
(* the wallet's send command (crates/relyo-wallet/src/main.rs) against     *)
(* them.  A run asks for the nonce, then for the tips, then submits, while *)
(* other runs with the same key, a user's retry among them, and other      *)
(* clients do the same.  A call can fail on its way out, when the node may *)
(* still get it later, or on its way back, when the node has handled it.   *)
(***************************************************************************)
EXTENDS Integers, SequencesExt, Totals

CONSTANTS
    Run,        \* runs of the command; a run stands for its transaction's hash as well
    Amount,     \* what each of them sends
    Other,      \* transactions of other clients
    Genesis,    \* hash of a genesis transaction
    ZeroHash,   \* TransactionHash::zero()
    Fee, Funds  \* the base fee, and what the wallet's account has at the start

VARIABLES
    nodes,      \* hashes in the DAG
    tips,
    applied,    \* runs whose transaction is applied to the ledger
    run,        \* what each run does and knows
    request,    \* each run's request that the node has not handled
    reply       \* each run's reply that has not arrived

walletVars == <<nodes, tips, applied, run, request, reply>>

NoMessage == [method |-> "none"]
Hash == Run \cup Other \cup {Genesis}

WalletInit ==
    /\ nodes = {Genesis} /\ tips = {Genesis} /\ applied = {}
    /\ run = [r \in Run |-> [pc |-> "start", nonce |-> 0, parents |-> <<>>]]
    /\ request = [r \in Run |-> NoMessage]
    /\ reply = [r \in Run |-> NoMessage]

nonce == Cardinality(applied)
Cost == [r \in Run |-> Amount[r] + Fee]
balance == Funds - Total(Cost, applied)

-----------------------------------------------------------------------------
(***************************************************************************)
(* The node's handlers: a reply carries a result or an error code.  The    *)
(* parameters of a request are "missing", "malformed" or "ok", and then it *)
(* has a value.                                                            *)
(***************************************************************************)
INVALID_REQUEST == -32600
METHOD_NOT_FOUND == -32601
INVALID_PARAMS == -32602
TX_REJECTED == -32000

Request(method, value) == [jsonrpc |-> "2.0", method |-> method, params |-> "ok", value |-> value]
success(result) == [method |-> "reply", result |-> result]
error(code) == [method |-> "reply", error |-> code]
IsError(m) == "error" \in DOMAIN m

handle_get_balance == success([balance |-> balance, nonce |-> nonce])
handle_get_nonce == success(nonce)
handle_get_transaction(h) == IF h \in nodes THEN success(h) ELSE error(INVALID_PARAMS)
handle_get_stats == success([dag_size |-> Cardinality(nodes), tip_count |-> Cardinality(tips)])

\* The numbers are those of module Economics for the depth of the DAG.
handle_get_emission == success("emission")

\* The hash set gives the tips in no particular order.
handle_get_tips == {success(list) : list \in SetToSeqs(tips)}

TakesParams == {"rly_getBalance", "rly_getNonce", "rly_getTransaction", "rly_submitTransaction"}

\* The answers to a request, one that submits a transaction left to Submitted.
handle_rpc(req) ==
    IF req.jsonrpc # "2.0" THEN {error(INVALID_REQUEST)}
    ELSE IF req.method \in TakesParams /\ req.params # "ok" THEN {error(INVALID_PARAMS)}
    ELSE CASE req.method = "rly_getBalance" -> {handle_get_balance}
           [] req.method = "rly_getNonce" -> {handle_get_nonce}
           [] req.method = "rly_getTips" -> handle_get_tips
           [] req.method = "rly_getTransaction" -> {handle_get_transaction(req.value)}
           [] req.method = "rly_getStats" -> {handle_get_stats}
           [] req.method = "rly_getEmission" -> {handle_get_emission}
           [] OTHER -> {error(METHOD_NOT_FOUND)}

-----------------------------------------------------------------------------
(***************************************************************************)
(* handle_submit_tx with RelyoNode.submit_transaction, which here is one   *)
(* step (module DagGraph has its own); the rate limiter and the supply cap *)
(* may refuse any transaction.                                             *)
(***************************************************************************)
\* Mutant: the nonce is not compared with the sender's.
InsertsAnyNonce(r) ==
    /\ Amount[r] > 0 /\ ToSet(run[r].parents) \subseteq nodes
    /\ balance >= Cost[r]

Inserts(r) ==
    /\ Amount[r] > 0
    /\ ToSet(run[r].parents) \subseteq nodes
    /\ balance >= Cost[r]
    /\ run[r].nonce = nonce + 1

Link(h, parents) ==
    /\ nodes' = nodes \cup {h}
    /\ tips' = (tips \ parents) \cup {h}

Answer(r, m) ==
    /\ reply' = [reply EXCEPT ![r] = m]
    /\ request' = [request EXCEPT ![r] = NoMessage]

\* Mutant: an error is sent although the transaction was inserted.
SubmittedLate(r) ==
    /\ request[r].method = "rly_submitTransaction"
    /\ \/ Inserts(r) /\ Link(r, ToSet(run[r].parents)) /\ applied' = applied \cup {r}
       \/ UNCHANGED <<nodes, tips, applied>>
    /\ \/ Inserts(r) /\ Answer(r, success(r))
       \/ Answer(r, error(TX_REJECTED))
    /\ UNCHANGED run

Submitted(r) ==
    /\ request[r].method = "rly_submitTransaction"
    /\ \/ /\ Inserts(r)
          /\ Link(r, ToSet(run[r].parents)) /\ applied' = applied \cup {r}
          /\ Answer(r, success(r))
       \/ UNCHANGED <<nodes, tips, applied>> /\ Answer(r, error(TX_REJECTED))
    /\ UNCHANGED run

Handle(r) ==
    /\ request[r].method \in {"rly_getNonce", "rly_getTips"}
    /\ \E m \in handle_rpc(request[r]) : Answer(r, m)
    /\ UNCHANGED <<nodes, tips, applied, run>>

\* Other clients' transactions refer to nodes of the DAG, and prune_confirmed forgets nodes.
OthersInsert(h, p) ==
    /\ h \in Other \ nodes /\ p \in nodes
    /\ Link(h, {p})
    /\ UNCHANGED <<applied, run, request, reply>>

Prune(h) ==
    /\ h \in nodes
    /\ nodes' = nodes \ {h}
    /\ UNCHANGED <<tips, applied, run, request, reply>>

-----------------------------------------------------------------------------
(***************************************************************************)
(* The send command, one action between two calls.  rpc_call fails with    *)
(* the transport, and with an error in the reply; either ends the run.     *)
(***************************************************************************)
Call(r, pc, m) ==
    /\ run' = [run EXCEPT ![r].pc = pc]
    /\ request' = [request EXCEPT ![r] = m]

Begin(r) ==
    /\ run[r].pc = "start"
    /\ Call(r, "nonce", Request("rly_getNonce", r))
    /\ UNCHANGED <<nodes, tips, applied, reply>>

Arrived(r, pc) ==
    /\ run[r].pc = pc /\ reply[r] # NoMessage
    /\ reply' = [reply EXCEPT ![r] = NoMessage]
    /\ UNCHANGED <<nodes, tips, applied>>

GotNonce(r) ==
    /\ Arrived(r, "nonce")
    /\ run' = [run EXCEPT ![r].pc = "tips", ![r].nonce = reply[r].result + 1]
    /\ request' = [request EXCEPT ![r] = Request("rly_getTips", r)]

\* The first two tips are the parents, the only one twice, the zero hash without any.
ParentsOf(list) ==
    CASE Len(list) = 0 -> <<ZeroHash, ZeroHash>>
      [] Len(list) = 1 -> <<list[1], list[1]>>
      [] OTHER -> <<list[1], list[2]>>

GotTips(r) ==
    /\ Arrived(r, "tips")
    /\ run' = [run EXCEPT ![r].pc = "submit", ![r].parents = ParentsOf(reply[r].result)]
    /\ request' = [request EXCEPT ![r] = Request("rly_submitTransaction", r)]

\* Mutant: the reply is not looked at.
GotAnyReply(r) ==
    /\ Arrived(r, "submit")
    /\ run' = [run EXCEPT ![r].pc = "accepted"]
    /\ UNCHANGED request

GotReply(r) ==
    /\ Arrived(r, "submit")
    /\ run' = [run EXCEPT ![r].pc = IF IsError(reply[r]) THEN "refused" ELSE "accepted"]
    /\ UNCHANGED request

\* The run ends; what it has sent may still be on its way.
CallFails(r) ==
    /\ run[r].pc \in {"nonce", "tips", "submit"}
    /\ run' = [run EXCEPT ![r].pc = "failed"]
    /\ \/ UNCHANGED request
       \/ request[r] # NoMessage /\ request' = [request EXCEPT ![r] = NoMessage]
    /\ reply' = [reply EXCEPT ![r] = NoMessage]
    /\ UNCHANGED <<nodes, tips, applied>>

WalletNext ==
    \/ \E r \in Run : Submitted(r) \/ Handle(r) \/ Begin(r) \/ GotNonce(r) \/ GotTips(r)
                      \/ GotReply(r) \/ CallFails(r)
    \/ \E h \in Hash : Prune(h) \/ \E p \in Hash : OthersInsert(h, p)

WalletSpec == WalletInit /\ [][WalletNext]_walletVars

-----------------------------------------------------------------------------
(***************************************************************************)
(* When the wallet prints that its transaction was accepted, the node's    *)
(* answers show it: the balance and the nonce include it, and              *)
(* rly_getTransaction finds it until it is pruned (main.rs:204-215,        *)
(* rpc.rs:344-351).                                                        *)
(***************************************************************************)
AcceptedIsVisible ==
    \A r \in Run : run[r].pc = "accepted" =>
        /\ \A m \in handle_rpc(Request("rly_getBalance", r)) :
               m.result.nonce >= run[r].nonce /\ m.result.balance + Amount[r] + Fee <= Funds
        /\ r \in nodes => \A m \in handle_rpc(Request("rly_getTransaction", r)) : ~IsError(m)
        /\ r \in applied

(***************************************************************************)
(* When it prints an error of the node about the submission, nothing was   *)
(* applied and nothing is left on the way that could be: the user may send *)
(* again.  A failed call says neither (main.rs:203-218, 282-303).          *)
(***************************************************************************)
RefusedIsNotApplied ==
    \A r \in Run : run[r].pc = "refused" => r \notin applied /\ request[r] = NoMessage

(***************************************************************************)
(* Runs that have read the same nonce pay once, however their requests     *)
(* are delayed and retried: a retry pays again only if the node had        *)
(* applied the first run before the retry asked for the nonce              *)
(* (main.rs:156-164).                                                      *)
(***************************************************************************)
NonceIsPaidOnce ==
    \A q, r \in applied : q # r => run[q].nonce # run[r].nonce

\* What the wallet prints about a payment is true, and runs that have read the
\* same nonce pay once (the send command, handle_submit_tx).
PaymentsAreAsTold == AcceptedIsVisible /\ RefusedIsNotApplied /\ NonceIsPaidOnce
=============================================================================
