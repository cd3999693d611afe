------------------------------ MODULE RpcEvents -----------------------------
(***************************************************************************)
(* The event stream of crates/relyo-node/src/rpc.rs: a task turns the      *)
(* decisions of consensus into events, another one sends statistics, and   *)
(* each WebSocket subscriber has a task that reads them from a broadcast   *)
(* channel.  The channel is external: it keeps the last Capacity messages, *)
(* and a reader that has missed one gets an error in its place.            *)
(***************************************************************************)
EXTENDS Integers, Sequences

CONSTANTS
    Tx,             \* transactions consensus decides on
    Subscriber,
    Capacity,       \* messages the channel keeps
    MaxStats        \* bound on the statistics sent

VARIABLES
    dag,            \* transactions in the DAG
    decided,        \* decision of consensus on each transaction, "none" before it
    queue,          \* ConsensusEvents the listener has yet to take
    sent,           \* all that was sent into the channel
    stats,          \* statistics among them
    sub             \* each subscriber's task

streamVars == <<dag, decided, queue, sent, stats, sub>>

NetworkStats == [type |-> "network.stats"]
TransactionFinalized(x) == [type |-> "transaction.finalized", txHash |-> x]
Off == [pc |-> "off", from |-> 0, next |-> 0, got |-> <<>>]

StreamInit ==
    /\ dag = Tx /\ decided = [x \in Tx |-> "none"]
    /\ queue = <<>> /\ sent = <<>> /\ stats = 0
    /\ sub = [s \in Subscriber |-> Off]

\* The engine's emission, with the status it has set, and prune_confirmed.
Emit(x, accepted) ==
    /\ decided[x] = "none" /\ x \in dag
    /\ decided' = [decided EXCEPT ![x] = IF accepted THEN "accepted" ELSE "rejected"]
    /\ queue' = Append(queue, [tx_hash |-> x, accepted |-> accepted])
    /\ UNCHANGED <<dag, sent, stats, sub>>

PruneDecided(x) ==
    /\ x \in dag /\ decided[x] = "accepted"
    /\ dag' = dag \ {x}
    /\ UNCHANGED <<decided, queue, sent, stats, sub>>

-----------------------------------------------------------------------------
\* Mutant: a rejection ends the task.
ListenToAccepted ==
    /\ queue # <<>> /\ Head(queue).accepted
    /\ queue' = Tail(queue)
    /\ sent' = IF Head(queue).tx_hash \in dag THEN Append(sent, TransactionFinalized(Head(queue).tx_hash)) ELSE sent
    /\ UNCHANGED <<dag, decided, stats, sub>>

\* A transaction that has been pruned since its decision is not announced.
Listen ==
    LET event == Head(queue)
    IN  /\ queue # <<>>
        /\ queue' = Tail(queue)
        /\ \/ /\ event.accepted /\ event.tx_hash \in dag
              /\ sent' = Append(sent, TransactionFinalized(event.tx_hash))
           \/ ~(event.accepted /\ event.tx_hash \in dag) /\ UNCHANGED sent
        /\ UNCHANGED <<dag, decided, stats, sub>>

SendStats ==
    /\ stats < MaxStats /\ stats' = stats + 1
    /\ sent' = Append(sent, NetworkStats)
    /\ UNCHANGED <<dag, decided, queue, sub>>

handle_web_socket(s) ==
    /\ sub[s].pc = "off"
    /\ sub' = [sub EXCEPT ![s] = [pc |-> "recv", from |-> Len(sent) + 1, next |-> Len(sent) + 1, got |-> <<>>]]
    /\ UNCHANGED <<dag, decided, queue, sent, stats>>

Lagged(s) == Len(sent) - sub[s].next >= Capacity

\* Mutant: the task goes on with the oldest message that is kept.
RecvOldest(s) ==
    /\ sub[s].pc = "recv" /\ sub[s].next <= Len(sent)
    /\ sub' = [sub EXCEPT ![s].pc = "write",
                          ![s].next = IF Lagged(s) THEN Len(sent) - Capacity + 1 ELSE @]
    /\ UNCHANGED <<dag, decided, queue, sent, stats>>

\* Any error ends the task, that of a reader that lags behind too.
Recv(s) ==
    /\ sub[s].pc = "recv" /\ sub[s].next <= Len(sent)
    /\ sub' = [sub EXCEPT ![s].pc = IF Lagged(s) THEN "ended" ELSE "write"]
    /\ UNCHANGED <<dag, decided, queue, sent, stats>>

Write(s) ==
    /\ sub[s].pc = "write"
    /\ sub' = [sub EXCEPT ![s].pc = "recv", ![s].next = @ + 1, ![s].got = Append(@, sent[sub[s].next])]
    /\ UNCHANGED <<dag, decided, queue, sent, stats>>

WriteFails(s) ==
    /\ sub[s].pc = "write"
    /\ sub' = [sub EXCEPT ![s].pc = "ended"]
    /\ UNCHANGED <<dag, decided, queue, sent, stats>>

StreamNext ==
    \/ \E x \in Tx : PruneDecided(x) \/ \E accepted \in BOOLEAN : Emit(x, accepted)
    \/ Listen \/ SendStats
    \/ \E s \in Subscriber : handle_web_socket(s) \/ Recv(s) \/ Write(s) \/ WriteFails(s)

(***************************************************************************)
(* Tasks that can run are run (tokio); a write into a socket completes or  *)
(* fails, as for a client that reads what it is sent.                      *)
(***************************************************************************)
StreamFairness ==
    /\ WF_streamVars(Listen)
    /\ \A s \in Subscriber : WF_streamVars(Recv(s)) /\ WF_streamVars(Write(s) \/ WriteFails(s))

StreamSpec == StreamInit /\ [][StreamNext]_streamVars /\ StreamFairness

-----------------------------------------------------------------------------
(***************************************************************************)
(* What a subscriber has received is an unbroken run of the events since   *)
(* it subscribed: one that is too slow loses its connection, never an      *)
(* event in the middle (rpc.rs:132-138).                                   *)
(***************************************************************************)
ReceivedHasNoGap ==
    \A s \in Subscriber :
        LET got == sub[s].got  from == sub[s].from
        IN  got = SubSeq(sent, from, from + Len(got) - 1)

Received(s, x) == \E i \in DOMAIN sub[s].got : sub[s].got[i] = TransactionFinalized(x)

Announcing(x) == \E i \in DOMAIN queue : queue[i] = [tx_hash |-> x, accepted |-> TRUE]

(***************************************************************************)
(* An acceptance that the listener has yet to announce reaches everybody   *)
(* who is subscribed by then, or the connection ends, whatever else is     *)
(* decided before, unless the transaction is pruned (rpc.rs:132-138,       *)
(* 168-196).                                                               *)
(***************************************************************************)
AcceptedReachesSubscriber ==
    \A s \in Subscriber, x \in Tx :
        (Announcing(x) /\ sub[s].pc \in {"recv", "write"}) ~>
            (x \notin dag \/ sub[s].pc = "ended" \/ Received(s, x))
=============================================================================
