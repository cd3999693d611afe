---------------------------- MODULE NetworkProofs ---------------------------
(***************************************************************************)
(* The safety of module Network for any number of nodes, transactions and  *)
(* faults.  The inductive invariant has one part per subject; all but the  *)
(* bans need to know how a step changes a node's DAG (DagSteps).           *)
(***************************************************************************)
EXTENDS Network, FiniteSetTheorems, TLAPS

-----------------------------------------------------------------------------
(***************************************************************************)
(* Types.                                                                  *)
(***************************************************************************)
\* The constants have the types the code gives them, taken apart.
LEMMA ConstantTypes ==
    /\ Sender \in [Tx -> Addr] /\ Nonce \in [Tx -> Nat] /\ Parents \in [Tx -> SUBSET Tx]
    /\ MaxFaults \in Nat /\ Requests \subseteq Message /\ Quorum \in Nat
    /\ Name \in [Node -> STRING]
BY NetworkAssumption

\* What a node reads from the wire is a message, and what it leaves there are messages.
LEMMA ArrivesType ==
    ASSUME TypeOK, NEW m \in wire, NEW sent, sent \subseteq Message, Arrives(m, sent)
    PROVE  /\ m \in Message /\ m.to \in up /\ m.to \in Node
           /\ m.from \in Node /\ m.origin \in Node /\ m.tx \in Tx /\ m.accept \in BOOLEAN
           /\ wire' \subseteq Message
           /\ faults' \in 0 .. MaxFaults
<1>1. m \in Message
  BY DEF TypeOK
<1>2. /\ m.to \in Node /\ m.from \in Node /\ m.origin \in Node
      /\ m.tx \in Tx /\ m.accept \in BOOLEAN /\ m.type \in MessageType
  BY <1>1 DEF Message
<1> DEFINE forwarded == [to : Peers(m.to) \ {m.from, m.origin}, from : {m.to}, origin : {m.origin},
                         type : {m.type}, tx : {m.tx}, accept : {m.accept}]
<1>3. forwarded \subseteq Message
  BY <1>2 DEF Message, Peers
<1>4. wire' \subseteq wire \cup forwarded \cup sent
  BY DEF Arrives
<1>5. wire' \subseteq Message
  BY <1>3, <1>4 DEF TypeOK
<1>6. faults' \in 0 .. MaxFaults
  BY ConstantTypes DEF Arrives, Fault, TypeOK
<1>7. m.to \in up
  BY DEF Arrives, Listens
<1> QED
  BY <1>1, <1>2, <1>5, <1>6, <1>7

\* evaluate gives one of three statuses.
LEMMA EvaluateType ==
    ASSUME NEW cast PROVE evaluate(cast) \in {"Voting", "Confirmed", "Rejected"}
BY DEF evaluate

\* The submission that a sum has crossed is accepted.
LEMMA CrossedType ==
    ASSUME TypeOK, NEW n \in Node, NEW x, Crossed(n, x)
    PROVE  status' \in [Node -> [Tx -> Status]] /\ outbox' \in [Node -> Seq(Tx)]
BY DEF Crossed, Accept, TypeOK, Status

\* No action breaks the types.
LEMMA NextTypeOK == TypeOK /\ [Next]_vars => TypeOK'
<1> SUFFICES ASSUME TypeOK, [Next]_vars PROVE TypeOK'
  OBVIOUS
<1> USE ConstantTypes
<1>1. ASSUME NEW n \in Node, Publish(n) PROVE TypeOK'
  <2>1. Head(outbox[n]) \in Tx /\ Tail(outbox[n]) \in Seq(Tx)
    BY <1>1 DEF Publish, TypeOK
  <2>2. wire' \subseteq Message
    BY <1>1, <2>1 DEF Publish, TypeOK, Message, MessageType, Peers
  <2>3. outbox' \in [Node -> Seq(Tx)] /\ published' \in [Node -> [Tx -> Nat]]
    BY <1>1, <2>1 DEF Publish, TypeOK
  <2> QED
    BY <1>1, <2>2, <2>3 DEF Publish, TypeOK, connections
<1>2. ASSUME NEW n \in Node, PublishFails(n) PROVE TypeOK'
  <2>1. Tail(outbox[n]) \in Seq(Tx)
    BY <1>2 DEF PublishFails, TypeOK
  <2>2. faults' \in 0 .. MaxFaults
    BY <1>2 DEF PublishFails, TypeOK, Fault
  <2> QED
    BY <1>2, <2>1, <2>2 DEF PublishFails, TypeOK, connections
<1>3. ASSUME NEW n \in Node, MempoolTick(n) PROVE TypeOK'
  <2>1. PICK s \in Drained(mempool[n]) :
            /\ mempool' = [mempool EXCEPT ![n] = @ \ {s[i] : i \in DOMAIN s}]
            /\ batch' = [batch EXCEPT ![n] = s]
    BY <1>3 DEF MempoolTick
  <2>2. s \in Seq(Tx)
    <3>1. PICK l \in 1 .. BatchSize : s \in [1 .. l -> mempool[n]]
      BY DEF Drained
    <3>2. mempool[n] \subseteq Tx /\ l \in Nat
      BY NetworkAssumption DEF TypeOK
    <3> QED
      BY <3>1, <3>2
  <2>3. mempool' \in [Node -> SUBSET Tx] /\ batch' \in [Node -> Seq(Tx)]
    BY <2>1, <2>2 DEF TypeOK
  <2> QED
    BY <1>3, <2>3 DEF MempoolTick, TypeOK, connections
<1>4. ASSUME NEW n \in Node, Start(n) PROVE TypeOK'
  BY <1>4 DEF Start, TypeOK, memory, connections
<1>5. ASSUME NEW n \in Node, Stop(n) PROVE TypeOK'
  <2>1. status' \in [Node -> [Tx -> Status]] /\ published' \in [Node -> [Tx -> Nat]]
    BY <1>5 DEF Stop, TypeOK, Status
  <2>2. /\ outbox' \in [Node -> Seq(Tx)] /\ batch' \in [Node -> Seq(Tx)]
        /\ tally' \in [Node -> SUBSET Vote] /\ mempool' \in [Node -> SUBSET Tx]
    BY <1>5 DEF Stop, TypeOK
  <2>3. faults' \in 0 .. MaxFaults
    BY <1>5 DEF Stop, TypeOK, Fault
  <2>4. slipped' \in [Node -> SUBSET Node] /\ banned' \in [Node -> SUBSET Node]
    BY <1>5 DEF Stop, TypeOK
  <2>5. up' \subseteq Node /\ links' \subseteq Link /\ fresh' \subseteq Node \X Node /\ wire' \subseteq Message
    BY <1>5 DEF Stop, TypeOK
  <2> QED
    BY <2>1, <2>2, <2>3, <2>4, <2>5 DEF TypeOK
<1>6. ASSUME NEW n \in Node, NEW t \in Tx, RpcSubmit(n, t) PROVE TypeOK'
  BY <1>6 DEF RpcSubmit, Accept, TypeOK, Status, connections
<1>7. ASSUME NEW n \in Node, NEW t \in Tx, PoolInsert(n, t) PROVE TypeOK'
  BY <1>7 DEF PoolInsert, TypeOK, connections
<1>8. ASSUME NEW n \in Node, NEW m \in Node, ConnectionEstablished(n, m) PROVE TypeOK'
  <2>1. links' \subseteq Link /\ fresh' \subseteq Node \X Node
    BY <1>8 DEF ConnectionEstablished, Disconnect, TypeOK
  <2>2. slipped' \in [Node -> SUBSET Node]
    <3>1. UNCHANGED slipped \/ slipped' = [slipped EXCEPT ![n] = @ \cup {m}]
      BY <1>8 DEF ConnectionEstablished
    <3>2. ASSUME slipped' = [slipped EXCEPT ![n] = @ \cup {m}] PROVE slipped' \in [Node -> SUBSET Node]
      BY <3>2 DEF TypeOK
    <3> QED
      BY <3>1, <3>2 DEF TypeOK
  <2>3. UNCHANGED <<up, memory, wire, banned, faults>>
    BY <1>8 DEF ConnectionEstablished
  <2> QED
    BY <2>1, <2>2, <2>3 DEF TypeOK, memory
<1>9. ASSUME NEW n \in Node, NEW m \in Node, Dial(n, m) PROVE TypeOK'
  <2>1. links' \subseteq Link
    BY <1>9 DEF Dial, TypeOK
  <2>2. <<n, m>> \in Node \X Node /\ <<m, n>> \in Node \X Node
    OBVIOUS
  <2>3. fresh' \subseteq Node \X Node
    BY <1>9, <2>2 DEF Dial, TypeOK
  <2> QED
    BY <1>9, <2>1, <2>3 DEF Dial, TypeOK, memory
<1>10. ASSUME NEW n \in Node, NEW m \in Node, HangUp(n, m) PROVE TypeOK'
  <2>1. links' \subseteq Link /\ fresh' \subseteq Node \X Node /\ faults' \in 0 .. MaxFaults
    BY <1>10 DEF HangUp, Disconnect, Fault, TypeOK
  <2> QED
    BY <1>10, <2>1 DEF HangUp, TypeOK, memory
<1>11. ASSUME NEW m \in wire, OnBroadcast(m) PROVE TypeOK'
  <2>1. Arrives(m, {})
    BY <1>11 DEF OnBroadcast
  <2>2. m.to \in Node /\ m.tx \in Tx /\ wire' \subseteq Message /\ faults' \in 0 .. MaxFaults
    BY <2>1, ArrivesType
  <2>3. status' \in [Node -> [Tx -> Status]] /\ outbox' \in [Node -> Seq(Tx)]
    <3>1. Accept(m.to, m.tx) \/ UNCHANGED <<status, outbox>>
      BY <1>11 DEF OnBroadcast
    <3>2. CASE Accept(m.to, m.tx)
      BY <2>2, <3>2 DEF Accept, TypeOK, Status
    <3> QED
      BY <3>1, <3>2 DEF TypeOK
  <2> QED
    BY <1>11, <2>2, <2>3 DEF OnBroadcast, TypeOK, connections
<1>12. ASSUME NEW m \in wire, OnOverCap(m) PROVE TypeOK'
  <2>1. Arrives(m, {})
    BY <1>12 DEF OnOverCap
  <2>2. m.to \in Node /\ m.from \in Node /\ wire' \subseteq Message /\ faults' \in 0 .. MaxFaults
    BY <2>1, ArrivesType
  <2>3. links' \subseteq Link /\ fresh' \subseteq Node \X Node
    BY <1>12, <2>2 DEF OnOverCap, Disconnect, TypeOK
  <2>4. status' \in [Node -> [Tx -> Status]] /\ outbox' \in [Node -> Seq(Tx)]
    BY <1>12, <2>2, CrossedType DEF OnOverCap, TypeOK
  <2>5. banned' \in [Node -> SUBSET Node]
    <3>1. Ban(m.to, m.from) \/ UNCHANGED banned
      BY <1>12 DEF OnOverCap
    <3>2. CASE Ban(m.to, m.from)
      BY <2>2, <3>2 DEF Ban, TypeOK
    <3> QED
      BY <3>1, <3>2 DEF TypeOK
  <2> QED
    BY <1>12, <2>2, <2>3, <2>4, <2>5 DEF OnOverCap, TypeOK
<1>13. ASSUME NEW m \in wire, OnVoteRequest(m) PROVE TypeOK'
  <2> DEFINE answer == [to : Peers(m.to), from : {m.to}, origin : {m.to}, type : {"VoteResponse"},
                        tx : {m.tx}, accept : {m.tx \in Dag(m.to)}]
  <2>1. Arrives(m, answer)
    BY <1>13 DEF OnVoteRequest
  <2>2. m \in Message
    BY DEF TypeOK
  <2>3. m.to \in Node /\ m.tx \in Tx /\ (m.tx \in Dag(m.to)) \in BOOLEAN
    BY <2>2 DEF Message
  <2>4. Peers(m.to) \subseteq Node /\ "VoteResponse" \in MessageType
    BY DEF Peers, MessageType
  <2>5. answer \subseteq Message
    BY <2>3, <2>4 DEF Message
  <2> HIDE DEF answer
  <2>6. wire' \subseteq Message /\ faults' \in 0 .. MaxFaults
    BY <2>1, <2>5, ArrivesType
  <2> QED
    BY <1>13, <2>6 DEF OnVoteRequest, TypeOK, memory, connections
<1>14. ASSUME NEW m \in wire, OnVoteResponse(m) PROVE TypeOK'
  <2> DEFINE n     == m.to
             v     == [tx |-> m.tx, voter |-> Name[n], accept |-> m.accept]
             votes == Recorded(tally[n], v)
             cast  == {u \in votes : u.tx = m.tx}
             new   == evaluate(cast)
  <2>1. Arrives(m, {})
    BY <1>14 DEF OnVoteResponse
  <2>2. m.to \in Node /\ m.tx \in Tx /\ m.accept \in BOOLEAN /\ wire' \subseteq Message /\ faults' \in 0 .. MaxFaults
    BY <2>1, ArrivesType
  <2>3. votes \subseteq Vote
    BY <2>2 DEF Recorded, Vote, TypeOK
  <2>4. new \in Status
    BY EvaluateType DEF Status
  <2> HIDE DEF votes, cast, new
  <2>5. CASE UNCHANGED <<tally, status>>
    BY <1>14, <2>2, <2>5 DEF OnVoteResponse, TypeOK, connections
  <2>6. CASE /\ tally' = [tally EXCEPT ![n] = IF new = "Voting" THEN votes ELSE votes \ cast]
             /\ status' = [status EXCEPT ![n][m.tx] = IF @ = "Absent" THEN @ ELSE new]
    <3>1. tally' \in [Node -> SUBSET Vote]
      BY <2>2, <2>3, <2>6 DEF TypeOK
    <3>2. (IF status[n][m.tx] = "Absent" THEN status[n][m.tx] ELSE new) \in Status
      BY <2>2, <2>4 DEF TypeOK
    <3>3. status' \in [Node -> [Tx -> Status]]
      BY <2>2, <2>6, <3>2 DEF TypeOK
    <3> QED
      BY <1>14, <2>2, <3>1, <3>3 DEF OnVoteResponse, TypeOK, connections
  <2> QED
    BY <1>14, <2>5, <2>6 DEF OnVoteResponse, votes, cast, new
<1>15. ASSUME NEW m \in wire, Lose(m) PROVE TypeOK'
  BY <1>15 DEF Lose, Fault, TypeOK, memory, connections
<1>16. ASSUME UNCHANGED vars PROVE TypeOK'
  BY <1>16 DEF vars, TypeOK, memory, connections
<1>17. ASSUME NEW n \in Node, InsertDrained(n) PROVE TypeOK'
  <2>1. batch[n] \in Seq(Tx) /\ batch[n] # <<>>
    BY <1>17 DEF InsertDrained, TypeOK
  <2>2. Head(batch[n]) \in Tx /\ Tail(batch[n]) \in Seq(Tx)
    BY <2>1
  <2>3. batch' \in [Node -> Seq(Tx)]
    BY <1>17, <2>2 DEF InsertDrained, TypeOK
  <2>4. status' \in [Node -> [Tx -> Status]] /\ outbox' \in [Node -> Seq(Tx)]
    <3>1. CASE status' = [status EXCEPT ![n][Head(batch[n])] = "Pending"] /\ UNCHANGED outbox
      BY <2>2, <3>1 DEF TypeOK, Status
    <3>2. CASE UNCHANGED <<status, outbox>>
      BY <3>2 DEF TypeOK
    <3>3. CASE Crossed(n, Head(batch[n]))
      BY <3>3, CrossedType
    <3> QED
      BY <1>17, <3>1, <3>2, <3>3 DEF InsertDrained
  <2> QED
    BY <1>17, <2>3, <2>4 DEF InsertDrained, TypeOK, connections
<1> QED
  BY <1>1, <1>2, <1>3, <1>4, <1>5, <1>6, <1>7, <1>8, <1>9, <1>10, <1>11, <1>12,
     <1>13, <1>14, <1>15, <1>16, <1>17 DEF Next

\* Init is well typed.
LEMMA InitTypeOK == Init => TypeOK
BY ConstantTypes DEF Init, TypeOK, Status, Vote

-----------------------------------------------------------------------------
(***************************************************************************)
(* How a step changes a node's DAG.                                        *)
(***************************************************************************)
\* A DAG holds finitely many transactions.
FiniteInv == \A n \in Node : IsFiniteSet(Dag(n))

\* A node that goes on keeps its DAG, or adds one transaction that insert accepts; one
\* that stops loses all of it.
DagStep(n) ==
    \/ Dag(n)' = Dag(n)
    \/ n \notin up' /\ Dag(n)' = {}
    \/ \E t \in Tx : Inserts(Dag(n), t) /\ Dag(n)' = Dag(n) \cup {t}

\* submit_transaction adds its transaction to the DAG.
LEMMA AcceptEffect ==
    ASSUME TypeOK, NEW n \in Node, NEW t \in Tx, Inserts(Dag(n), t), Accept(n, t)
    PROVE  /\ Dag(n)' = Dag(n) \cup {t}
           /\ \A k \in Node \ {n} : Dag(k)' = Dag(k)
BY DEF Accept, Dag, TypeOK

\* A vote does not take a transaction from a DAG or put one there.
LEMMA VoteKeepsDag ==
    ASSUME TypeOK, NEW m \in wire, OnVoteResponse(m), NEW k \in Node
    PROVE  Dag(k)' = Dag(k)
<1> DEFINE n     == m.to
           votes == Recorded(tally[n], [tx |-> m.tx, voter |-> Name[n], accept |-> m.accept])
           cast  == {v \in votes : v.tx = m.tx}
           new   == evaluate(cast)
<1>1. m.to \in Node /\ m.tx \in Tx
  BY DEF TypeOK, Message
<1>2. new # "Absent"
  BY EvaluateType
<1> HIDE DEF votes, cast, new
<1>3. UNCHANGED status \/ status' = [status EXCEPT ![n][m.tx] = IF @ = "Absent" THEN @ ELSE new]
  BY DEF OnVoteResponse, votes, cast, new
<1>4. ASSUME NEW t \in Tx PROVE status'[k][t] = "Absent" <=> status[k][t] = "Absent"
  <2>1. CASE UNCHANGED status
    BY <2>1
  <2>2. CASE status' = [status EXCEPT ![n][m.tx] = IF @ = "Absent" THEN @ ELSE new]
    <3>1. status'[n][m.tx] = IF status[n][m.tx] = "Absent" THEN status[n][m.tx] ELSE new
      BY <1>1, <2>2 DEF TypeOK
    <3>2. k # n \/ t # m.tx => status'[k][t] = status[k][t]
      BY <1>1, <2>2 DEF TypeOK
    <3> QED
      BY <1>2, <3>1, <3>2
  <2> QED
    BY <1>3, <2>1, <2>2
<1> QED
  BY <1>4 DEF Dag

\* Every step changes every DAG in one of these ways.
LEMMA DagSteps == ASSUME TypeOK, [Next]_vars, NEW k \in Node PROVE DagStep(k)
<1>1. ASSUME UNCHANGED status PROVE DagStep(k)
  BY <1>1 DEF DagStep, Dag
<1>2. ASSUME NEW n \in Node, Publish(n) \/ PublishFails(n) \/ Start(n) PROVE DagStep(k)
  BY <1>1, <1>2 DEF Publish, PublishFails, Start, memory
<1>3. ASSUME NEW n \in Node, MempoolTick(n) PROVE DagStep(k)
  BY <1>1, <1>3 DEF MempoolTick
<1>4. ASSUME NEW n \in Node, Stop(n) PROVE DagStep(k)
  <2>1. CASE k = n
    BY <1>4, <2>1 DEF Stop, DagStep, Dag, TypeOK
  <2>2. CASE k # n
    BY <1>4, <2>2 DEF Stop, DagStep, Dag, TypeOK
  <2> QED
    BY <2>1, <2>2
<1>5. ASSUME NEW n \in Node, NEW t \in Tx, RpcSubmit(n, t) PROVE DagStep(k)
  BY <1>5, AcceptEffect DEF RpcSubmit, DagStep
<1>6. ASSUME NEW n \in Node, NEW t \in Tx, PoolInsert(n, t) PROVE DagStep(k)
  BY <1>1, <1>6 DEF PoolInsert
<1>7. ASSUME NEW n \in Node, NEW m \in Node, ConnectionEstablished(n, m) \/ Dial(n, m) \/ HangUp(n, m)
      PROVE  DagStep(k)
  BY <1>1, <1>7 DEF ConnectionEstablished, Dial, HangUp, memory
<1>8. ASSUME NEW m \in wire, OnBroadcast(m) PROVE DagStep(k)
  <2>1. m.to \in Node /\ m.tx \in Tx
    BY DEF TypeOK, Message
  <2>2. CASE Inserts(Dag(m.to), m.tx) /\ Accept(m.to, m.tx)
    BY <2>1, <2>2, AcceptEffect DEF DagStep
  <2> QED
    BY <1>1, <1>8, <2>2 DEF OnBroadcast
<1>9. ASSUME NEW m \in wire, OnVoteRequest(m) \/ Lose(m) PROVE DagStep(k)
  BY <1>1, <1>9 DEF OnVoteRequest, Lose, memory
<1>10. ASSUME NEW m \in wire, OnVoteResponse(m) PROVE DagStep(k)
  BY <1>10, VoteKeepsDag DEF DagStep
<1>11. ASSUME UNCHANGED vars PROVE DagStep(k)
  BY <1>1, <1>11 DEF vars, memory
<1>12. ASSUME NEW n \in Node, NEW x, Crossed(n, x) PROVE DagStep(k)
  BY <1>12, AcceptEffect DEF Crossed, DagStep
<1>13. ASSUME NEW m \in wire, OnOverCap(m) PROVE DagStep(k)
  <2>1. m.to \in Node
    BY DEF TypeOK, Message
  <2> QED
    BY <1>1, <1>12, <1>13, <2>1 DEF OnOverCap
<1>14. ASSUME NEW n \in Node, InsertDrained(n) PROVE DagStep(k)
  <2> DEFINE t == Head(batch[n])
  <2>1. t \in Tx
    BY <1>14 DEF InsertDrained, TypeOK
  <2> HIDE DEF t
  <2>2. CASE Inserts(Dag(n), t) /\ status' = [status EXCEPT ![n][t] = "Pending"]
    <3>1. Dag(n)' = Dag(n) \cup {t} /\ \A l \in Node \ {n} : Dag(l)' = Dag(l)
      BY <2>1, <2>2 DEF Dag, TypeOK
    <3> QED
      BY <2>1, <2>2, <3>1 DEF DagStep
  <2> QED
    BY <1>1, <1>12, <1>14, <2>2 DEF InsertDrained, t
<1> QED
  BY <1>2, <1>3, <1>4, <1>5, <1>6, <1>7, <1>8, <1>9, <1>10, <1>11, <1>13, <1>14 DEF Next

-----------------------------------------------------------------------------
(***************************************************************************)
(* Finiteness, ancestors and nonces.                                       *)
(***************************************************************************)
Sent(D, a) == {t \in D : Sender[t] = a}

\* A sender's nonces differ and are at most as large as their number: what makes
\* NoncesHaveNoGap inductive.
NoncesFit(D) ==
    \A a \in Addr :
        /\ \A t \in Sent(D, a) : Nonce[t] \in 1 .. Cardinality(Sent(D, a))
        /\ \A t, u \in Sent(D, a) : Nonce[t] = Nonce[u] => t = u

NonceInv == \A n \in Node : NoncesFit(Dag(n))

\* A step adds at most one transaction to a DAG.
LEMMA NextFinite == ASSUME TypeOK, FiniteInv, [Next]_vars PROVE FiniteInv'
<1> SUFFICES ASSUME NEW k \in Node PROVE IsFiniteSet(Dag(k))'
  BY DEF FiniteInv
<1>1. IsFiniteSet(Dag(k))
  BY DEF FiniteInv
<1>2. CASE Dag(k)' = Dag(k) \/ Dag(k)' = {}
  BY <1>1, <1>2, FS_EmptySet
<1>3. CASE \E t \in Tx : Dag(k)' = Dag(k) \cup {t}
  BY <1>1, <1>3, FS_AddElement
<1> QED
  BY <1>2, <1>3, DagSteps DEF DagStep

\* What is inserted has its parents in the DAG.
LEMMA NextAncestors == ASSUME TypeOK, AncestorsAreKnown, [Next]_vars PROVE AncestorsAreKnown'
<1> SUFFICES ASSUME NEW k \in Node PROVE (\A t \in Dag(k) : Parents[t] \subseteq Dag(k))'
  BY DEF AncestorsAreKnown
<1> DEFINE D == Dag(k)
<1>1. \A t \in D : Parents[t] \subseteq D
  BY DEF AncestorsAreKnown
<1>2. CASE Dag(k)' = D \/ Dag(k)' = {}
  BY <1>1, <1>2
<1>3. CASE \E t \in Tx : Inserts(D, t) /\ Dag(k)' = D \cup {t}
  BY <1>1, <1>3 DEF Inserts
<1> QED
  BY <1>2, <1>3, DagSteps DEF DagStep

\* Removing nothing, what is sent from an address only grows.
LEMMA SentFacts ==
    ASSUME NEW D, NEW E, D \subseteq E, IsFiniteSet(E), NEW a
    PROVE  /\ IsFiniteSet(Sent(D, a)) /\ IsFiniteSet(Sent(E, a))
           /\ Cardinality(Sent(D, a)) \in Nat /\ Cardinality(Sent(E, a)) \in Nat
           /\ Cardinality(Sent(D, a)) <= Cardinality(Sent(E, a))
<1>1. Sent(E, a) \in SUBSET E /\ Sent(D, a) \in SUBSET Sent(E, a)
  BY DEF Sent
<1>2. IsFiniteSet(Sent(E, a))
  BY <1>1, FS_Subset
<1>3. IsFiniteSet(Sent(D, a)) /\ Cardinality(Sent(D, a)) <= Cardinality(Sent(E, a))
  BY <1>1, <1>2, FS_Subset
<1> QED
  BY <1>2, <1>3, FS_CardinalityType

\* One more transaction: its nonce is one above the number of those before it.
LEMMA SentOneMore ==
    ASSUME NEW D, NEW E, NEW t \in Tx, IsFiniteSet(E), D \cup {t} \subseteq E, Inserts(D, t)
    PROVE  /\ Nonce[t] = Cardinality(Sent(D, Sender[t])) + 1
           /\ Nonce[t] <= Cardinality(Sent(E, Sender[t]))
<1> DEFINE a == Sender[t]
<1>1. Nonce[t] = Cardinality(Sent(D, a)) + 1 /\ t \notin D
  BY DEF Inserts, NonceOf, Sent
<1>2. IsFiniteSet(Sent(D, a)) /\ Cardinality(Sent(D, a)) \in Nat
  BY SentFacts
<1>3. Sent(D \cup {t}, a) = Sent(D, a) \cup {t} /\ t \notin Sent(D, a)
  BY <1>1 DEF Sent
<1>4. Cardinality(Sent(D \cup {t}, a)) = Cardinality(Sent(D, a)) + 1
  BY <1>2, <1>3, FS_AddElement
<1>5. Cardinality(Sent(D \cup {t}, a)) <= Cardinality(Sent(E, a))
  BY SentFacts
<1> QED
  BY <1>1, <1>4, <1>5

\* One insertion keeps the nonces of every sender in place.
LEMMA NoncesFitInsert ==
    ASSUME NEW D \in SUBSET Tx, IsFiniteSet(D), NoncesFit(D), NEW t \in Tx, Inserts(D, t)
    PROVE  NoncesFit(D \cup {t})
<1> DEFINE E == D \cup {t}
<1>1. IsFiniteSet(E) /\ E \subseteq Tx
  BY FS_AddElement
<1> HIDE DEF E
<1>2. D \subseteq E /\ D \cup {t} \subseteq E
  BY DEF E
<1>3. SUFFICES ASSUME NEW a \in Addr
               PROVE  /\ \A x \in Sent(E, a) : Nonce[x] \in 1 .. Cardinality(Sent(E, a))
                      /\ \A x, u \in Sent(E, a) : Nonce[x] = Nonce[u] => x = u
  BY DEF NoncesFit, E
<1> DEFINE c == Cardinality(Sent(D, a))  e == Cardinality(Sent(E, a))
<1>4. c \in Nat /\ e \in Nat /\ c <= e
  BY <1>1, <1>2, SentFacts
<1>5. /\ \A x \in Sent(D, a) : Nonce[x] \in 1 .. c
      /\ \A x, u \in Sent(D, a) : Nonce[x] = Nonce[u] => x = u
  BY DEF NoncesFit
<1>6. Sender[t] = a => Nonce[t] = c + 1 /\ Nonce[t] <= e
  BY <1>1, <1>2, SentOneMore
<1>7. \A x \in Sent(E, a) : x \in Sent(D, a) \/ (x = t /\ Sender[t] = a)
  BY DEF Sent, E
<1> HIDE DEF c, e
<1>8. \A x \in Sent(E, a) : Nonce[x] \in 1 .. e
  BY <1>4, <1>5, <1>6, <1>7
<1>9. \A x, u \in Sent(E, a) : Nonce[x] = Nonce[u] => x = u
  BY <1>4, <1>5, <1>6, <1>7
<1> QED
  BY <1>8, <1>9 DEF e

\* The nonces stay in place in every DAG.
LEMMA NextNonces == ASSUME TypeOK, FiniteInv, NonceInv, [Next]_vars PROVE NonceInv'
<1> SUFFICES ASSUME NEW k \in Node PROVE NoncesFit(Dag(k))'
  BY DEF NonceInv
<1>1. Dag(k) \in SUBSET Tx /\ IsFiniteSet(Dag(k)) /\ NoncesFit(Dag(k))
  BY DEF Dag, FiniteInv, NonceInv
<1>2. NoncesFit({})
  BY DEF NoncesFit, Sent
<1>3. NoncesFit(Dag(k)')
  <2>1. CASE Dag(k)' = Dag(k) \/ Dag(k)' = {}
    BY <1>1, <1>2, <2>1
  <2>2. ASSUME NEW t \in Tx, Inserts(Dag(k), t), Dag(k)' = Dag(k) \cup {t} PROVE NoncesFit(Dag(k)')
    BY <1>1, <2>2, NoncesFitInsert
  <2> QED
    BY <2>1, <2>2, DagSteps DEF DagStep
<1> QED
  BY <1>3 DEF NoncesFit, Sent

\* Different nonces among the first as many as there are, and so all of them.
LEMMA FitHasNoGap ==
    ASSUME NEW D, IsFiniteSet(D), D \subseteq Tx, NoncesFit(D), NEW a \in Addr
    PROVE  {Nonce[t] : t \in Sent(D, a)} = 1 .. Cardinality(Sent(D, a))
<1> DEFINE S == Sent(D, a)  N == Cardinality(S)  f == [t \in S |-> Nonce[t]]
<1>1. IsFiniteSet(S) /\ N \in Nat
  BY SentFacts
<1>2. (\A t \in S : Nonce[t] \in 1 .. N) /\ (\A t, u \in S : Nonce[t] = Nonce[u] => t = u)
  BY DEF NoncesFit
<1> HIDE DEF S, N
<1>3. f \in Injection(S, 1 .. N)
  BY <1>2 DEF Injection, IsInjective
<1>4. IsFiniteSet(1 .. N) /\ Cardinality(1 .. N) = N
  BY <1>1, FS_Interval
<1>5. f \in Surjection(S, 1 .. N)
  <2> HIDE DEF f
  <2> QED
    BY <1>3, <1>4, FS_Injection DEF N
<1>6. \A i \in 1 .. N : \E t \in S : Nonce[t] = i
  BY <1>5 DEF Surjection
<1>7. {Nonce[t] : t \in S} = 1 .. N
  BY <1>2, <1>6
<1> QED
  BY <1>7 DEF S, N

-----------------------------------------------------------------------------
(***************************************************************************)
(* Publication: what is queued is in the DAG, is queued once and has not   *)
(* been published.                                                         *)
(***************************************************************************)
OutboxInvAt(n) ==
    /\ \A i, j \in DOMAIN outbox[n] : outbox[n][i] = outbox[n][j] => i = j
    /\ \A i \in DOMAIN outbox[n] : outbox[n][i] \in Dag(n) /\ published[n][outbox[n][i]] = 0
    /\ \A t \in Tx : published[n][t] <= 1 /\ (published[n][t] > 0 => t \in Dag(n))

OutboxInv == \A n \in Node : OutboxInvAt(n)

\* A node whose DAG does not shrink keeps the invariant when its queue and its
\* publications stay.
LEMMA OutboxFrame ==
    ASSUME NEW k \in Node, OutboxInvAt(k), outbox'[k] = outbox[k], published'[k] = published[k],
           Dag(k) \subseteq Dag(k)'
    PROVE  OutboxInvAt(k)'
BY DEF OutboxInvAt

\* Accepting a transaction queues one that was never queued since the start.
LEMMA OutboxAccept ==
    ASSUME TypeOK, NEW n \in Node, NEW t \in Tx, OutboxInvAt(n), Inserts(Dag(n), t), Accept(n, t),
           UNCHANGED published
    PROVE  OutboxInvAt(n)'
<1>1. Dag(n)' = Dag(n) \cup {t}
  BY AcceptEffect
<1>2. t \notin Dag(n)
  BY DEF Inserts
<1>3. outbox[n] \in Seq(Tx) /\ outbox'[n] = Append(outbox[n], t)
  BY DEF Accept, TypeOK
<1> DEFINE q == outbox[n]  r == outbox'[n]
<1>4. /\ Len(q) \in Nat /\ DOMAIN q = 1 .. Len(q) /\ DOMAIN r = 1 .. Len(q) + 1
      /\ \A i \in 1 .. Len(q) : r[i] = q[i]
      /\ r[Len(q) + 1] = t
  BY <1>3
<1>5. published[n][t] = 0
  BY <1>2 DEF OutboxInvAt, TypeOK
<1> HIDE DEF q, r
<1>6. /\ \A i, j \in DOMAIN q : q[i] = q[j] => i = j
      /\ \A i \in DOMAIN q : q[i] \in Dag(n) /\ published[n][q[i]] = 0
  BY DEF OutboxInvAt, q
<1>7. \A i, j \in DOMAIN r : r[i] = r[j] => i = j
  BY <1>2, <1>4, <1>6
<1>8. \A i \in DOMAIN r : r[i] \in Dag(n)' /\ published'[n][r[i]] = 0
  BY <1>1, <1>4, <1>5, <1>6
<1> QED
  BY <1>1, <1>7, <1>8 DEF OutboxInvAt, r

\* Publishing takes the first of the queue, which was not published before.
LEMMA OutboxPublish ==
    ASSUME TypeOK, NEW n \in Node, OutboxInvAt(n), outbox[n] # <<>>, UNCHANGED status,
           outbox' = [outbox EXCEPT ![n] = Tail(@)],
           \/ published' = [published EXCEPT ![n][Head(outbox[n])] = @ + 1]
           \/ UNCHANGED published
    PROVE  OutboxInvAt(n)'
<1>1. outbox[n] \in Seq(Tx) /\ outbox'[n] = Tail(outbox[n])
  BY DEF TypeOK
<1> DEFINE q == outbox[n]  r == outbox'[n]  h == Head(q)
<1>2. /\ Len(q) \in Nat /\ Len(q) > 0 /\ DOMAIN q = 1 .. Len(q) /\ DOMAIN r = 1 .. Len(q) - 1
      /\ \A i \in 1 .. Len(q) - 1 : r[i] = q[i + 1]
      /\ h = q[1] /\ h \in Tx
  <2>1. q \in Seq(Tx) /\ q # <<>> /\ r = Tail(q)
    BY <1>1
  <2> HIDE DEF q, r
  <2>2. Len(q) \in Nat /\ Len(q) > 0 /\ DOMAIN q = 1 .. Len(q) /\ h = q[1] /\ h \in Tx
    BY <2>1
  <2>3. DOMAIN r = 1 .. Len(q) - 1 /\ \A i \in 1 .. Len(q) - 1 : r[i] = q[i + 1]
    BY <2>1
  <2> QED
    BY <2>2, <2>3
<1>3. \A t \in Tx : published'[n][t] = published[n][t] \/ (t = h /\ published'[n][t] = published[n][t] + 1)
  <2>1. CASE UNCHANGED published
    BY <2>1
  <2>2. CASE published' = [published EXCEPT ![n][h] = @ + 1]
    <3> HIDE DEF h
    <3> QED
      BY <1>2, <2>2 DEF TypeOK
  <2> QED
    BY <2>1, <2>2
<1>4. \A t \in Tx : published[n][t] \in Nat
  BY DEF TypeOK
<1>5. Dag(n)' = Dag(n)
  BY DEF Dag
<1> HIDE DEF q, r, h
<1>6. /\ \A i, j \in DOMAIN q : q[i] = q[j] => i = j
      /\ \A i \in DOMAIN q : q[i] \in Dag(n) /\ published[n][q[i]] = 0
      /\ \A t \in Tx : published[n][t] <= 1 /\ (published[n][t] > 0 => t \in Dag(n))
  BY DEF OutboxInvAt, q
<1>7. \A i, j \in DOMAIN r : r[i] = r[j] => i = j
  BY <1>2, <1>6
<1>8. \A i \in DOMAIN r : r[i] \in Dag(n) /\ r[i] # h /\ published[n][r[i]] = 0
  BY <1>2, <1>6
<1>9. \A i \in DOMAIN r : r[i] \in Dag(n)' /\ published'[n][r[i]] = 0
  BY <1>3, <1>5, <1>8 DEF Dag
<1>10. h \in Dag(n) /\ published[n][h] = 0
  BY <1>2, <1>6
<1>11. \A t \in Tx : published'[n][t] <= 1 /\ (published'[n][t] > 0 => t \in Dag(n)')
  BY <1>3, <1>4, <1>5, <1>6, <1>10
<1> QED
  BY <1>7, <1>9, <1>11 DEF OutboxInvAt, r

\* Only a stop takes transactions from a DAG.
LEMMA DagGrows ==
    ASSUME TypeOK, [Next]_vars, NEW k \in Node, k \in up'
    PROVE  Dag(k) \subseteq Dag(k)'
BY DagSteps DEF DagStep

\* The invariant of the queues is kept by every step.
LEMMA NextOutbox == ASSUME TypeOK, OutboxInv, [Next]_vars PROVE OutboxInv'
<1> SUFFICES ASSUME NEW k \in Node PROVE OutboxInvAt(k)'
  BY DEF OutboxInv
<1>1. OutboxInvAt(k)
  BY DEF OutboxInv
<1>2. ASSUME outbox'[k] = outbox[k], published'[k] = published[k], Dag(k)' = Dag(k) PROVE OutboxInvAt(k)'
  BY <1>1, <1>2, OutboxFrame
<1>3. ASSUME UNCHANGED <<status, outbox, published>> PROVE OutboxInvAt(k)'
  BY <1>2, <1>3 DEF Dag
<1>4. ASSUME NEW n \in Node, Publish(n) \/ PublishFails(n) PROVE OutboxInvAt(k)'
  <2>1. CASE k = n
    BY <1>1, <1>4, <2>1, OutboxPublish DEF Publish, PublishFails
  <2>2. CASE k # n
    BY <1>2, <1>4, <2>2 DEF Publish, PublishFails, TypeOK, Dag
  <2> QED
    BY <2>1, <2>2
<1>5. ASSUME NEW n \in Node, MempoolTick(n) PROVE OutboxInvAt(k)'
  BY <1>3, <1>5 DEF MempoolTick
<1>6. ASSUME NEW n \in Node, Start(n) PROVE OutboxInvAt(k)'
  BY <1>3, <1>6 DEF Start, memory
<1>7. ASSUME NEW n \in Node, Stop(n) PROVE OutboxInvAt(k)'
  <2>1. CASE k = n
    <3>1. outbox'[k] = <<>> /\ published'[k] = [t \in Tx |-> 0]
      BY <1>7, <2>1 DEF Stop, TypeOK
    <3> QED
      BY <3>1 DEF OutboxInvAt
  <2>2. CASE k # n
    BY <1>2, <1>7, <2>2 DEF Stop, TypeOK, Dag
  <2> QED
    BY <2>1, <2>2
<1>8. ASSUME NEW n \in Node, NEW t \in Tx, Inserts(Dag(n), t), Accept(n, t), UNCHANGED published
      PROVE  OutboxInvAt(k)'
  <2>1. CASE k = n
    BY <1>1, <1>8, <2>1, OutboxAccept
  <2>2. CASE k # n
    BY <1>2, <1>8, <2>2, AcceptEffect DEF Accept, TypeOK
  <2> QED
    BY <2>1, <2>2
<1>9. ASSUME NEW n \in Node, NEW t \in Tx, RpcSubmit(n, t) PROVE OutboxInvAt(k)'
  BY <1>8, <1>9 DEF RpcSubmit
<1>10. ASSUME NEW n \in Node, NEW t \in Tx, PoolInsert(n, t) PROVE OutboxInvAt(k)'
  BY <1>3, <1>10 DEF PoolInsert
<1>11. ASSUME NEW n \in Node, NEW m \in Node, ConnectionEstablished(n, m) \/ Dial(n, m) \/ HangUp(n, m)
       PROVE  OutboxInvAt(k)'
  BY <1>3, <1>11 DEF ConnectionEstablished, Dial, HangUp, memory
<1>12. ASSUME NEW m \in wire, OnBroadcast(m) PROVE OutboxInvAt(k)'
  <2>1. m.to \in Node /\ m.tx \in Tx
    BY DEF TypeOK, Message
  <2> QED
    BY <1>3, <1>8, <1>12, <2>1 DEF OnBroadcast
<1>13. ASSUME NEW m \in wire, OnVoteRequest(m) \/ Lose(m) PROVE OutboxInvAt(k)'
  BY <1>3, <1>13 DEF OnVoteRequest, Lose, memory
<1>14. ASSUME NEW m \in wire, OnVoteResponse(m) PROVE OutboxInvAt(k)'
  <2>1. UNCHANGED <<outbox, published>>
    BY <1>14 DEF OnVoteResponse
  <2> QED
    BY <1>2, <1>14, <2>1, VoteKeepsDag
<1>15. ASSUME UNCHANGED vars PROVE OutboxInvAt(k)'
  BY <1>3, <1>15 DEF vars, memory
<1>16. ASSUME NEW n \in Node, NEW x, Crossed(n, x), UNCHANGED published PROVE OutboxInvAt(k)'
  BY <1>8, <1>16 DEF Crossed
<1>17. ASSUME NEW m \in wire, OnOverCap(m) PROVE OutboxInvAt(k)'
  <2>1. m.to \in Node
    BY DEF TypeOK, Message
  <2> QED
    BY <1>3, <1>16, <1>17, <2>1 DEF OnOverCap
<1>18. ASSUME NEW n \in Node, InsertDrained(n) PROVE OutboxInvAt(k)'
  <2>1. Dag(k) \subseteq Dag(k)'
    <3>1. CASE k = n
      BY <1>18, <3>1, DagGrows DEF InsertDrained
    <3>2. CASE k # n /\ ~Crossed(n, Head(batch[n]))
      BY <1>18, <3>2 DEF InsertDrained, Dag, TypeOK
    <3>3. CASE k # n /\ Crossed(n, Head(batch[n]))
      BY <1>18, <3>3, AcceptEffect DEF Crossed
    <3> QED
      BY <3>1, <3>2, <3>3
  <2> QED
    BY <1>1, <1>16, <1>18, <2>1, OutboxFrame DEF InsertDrained
<1> QED
  BY <1>4, <1>5, <1>6, <1>7, <1>9, <1>10, <1>11, <1>12, <1>13, <1>14, <1>15, <1>17, <1>18 DEF Next

\* What is queued once and published never, or published once and not queued, is
\* announced at most once.
LEMMA OutboxAnnounces == ASSUME TypeOK, OutboxInv PROVE AnnouncedOnce
<1> SUFFICES ASSUME NEW n \in Node, NEW t \in Tx
             PROVE  LET queued == {i \in DOMAIN outbox[n] : outbox[n][i] = t}
                    IN  /\ published[n][t] + Cardinality(queued) <= 1
                        /\ published[n][t] + Cardinality(queued) > 0 => t \in Dag(n)
  BY DEF AnnouncedOnce
<1> DEFINE queued == {i \in DOMAIN outbox[n] : outbox[n][i] = t}
<1>1. published[n][t] \in Nat /\ published[n][t] <= 1 /\ (published[n][t] > 0 => t \in Dag(n))
  BY DEF TypeOK, OutboxInv, OutboxInvAt
<1>2. CASE queued = {}
  <2>1. Cardinality(queued) = 0
    BY <1>2, FS_EmptySet
  <2> HIDE DEF queued
  <2>2. published[n][t] + Cardinality(queued) <= 1 /\ (published[n][t] + Cardinality(queued) > 0 => t \in Dag(n))
    BY <1>1, <2>1
  <2> QED
    BY <2>2 DEF queued
<1>3. ASSUME NEW i \in queued PROVE queued = {i} /\ published[n][t] = 0 /\ t \in Dag(n)
  BY DEF OutboxInv, OutboxInvAt
<1>4. ASSUME NEW i \in queued PROVE Cardinality(queued) = 1 /\ published[n][t] = 0 /\ t \in Dag(n)
  <2> HIDE DEF queued
  <2> QED
    BY <1>3, <1>4, FS_Singleton
<1> HIDE DEF queued
<1>5. CASE queued # {}
  <2>1. published[n][t] + Cardinality(queued) <= 1 /\ t \in Dag(n)
    BY <1>4, <1>5
  <2> QED
    BY <2>1 DEF queued
<1> QED
  BY <1>2, <1>5 DEF queued

-----------------------------------------------------------------------------
(***************************************************************************)
(* Bans.                                                                   *)
(***************************************************************************)
\* A banned peer that is connected is new, or has slipped in.
BanHolds(n, m) == m \in banned[n] /\ {n, m} \in links => <<n, m>> \in fresh \/ m \in slipped[n]

\* No step lets a banned peer stay: a ban comes with a disconnection, a connection with
\* an event, and the handling of the event with a look at the database.
LEMMA NextBans == ASSUME TypeOK, BanIsEnforced, [Next]_vars PROVE BanIsEnforced'
<1> SUFFICES ASSUME NEW k \in Node, NEW p \in Node PROVE BanHolds(k, p)'
  <2>1. banned' \in [Node -> SUBSET Node]
    BY NextTypeOK DEF TypeOK
  <2> QED
    BY <2>1 DEF BanIsEnforced, BanHolds
<1>1. BanHolds(k, p)
  BY DEF BanIsEnforced, BanHolds
<1>2. ASSUME UNCHANGED <<connections, banned>> PROVE BanHolds(k, p)'
  BY <1>1, <1>2 DEF BanHolds, connections
<1>3. ASSUME NEW n \in Node, NEW m \in Node, Disconnect(n, m), UNCHANGED slipped,
             banned' = banned \/ banned' = [banned EXCEPT ![n] = @ \cup {m}]
      PROVE  BanHolds(k, p)'
  <2>1. CASE {k, p} = {n, m}
    BY <1>3, <2>1 DEF Disconnect, BanHolds
  <2>2. CASE {k, p} # {n, m}
    <3>1. <<k, p>> # <<n, m>> /\ <<k, p>> # <<m, n>>
      BY <2>2
    <3>2. p \in banned'[k] => p \in banned[k]
      <4>1. ~(k = n /\ p = m)
        BY <2>2
      <4>2. ASSUME banned' = [banned EXCEPT ![n] = @ \cup {m}], p \in banned'[k] PROVE p \in banned[k]
        BY <4>1, <4>2 DEF TypeOK
      <4> QED
        BY <1>3, <4>2
    <3> QED
      BY <1>1, <1>3, <3>1, <3>2 DEF Disconnect, BanHolds
  <2> QED
    BY <2>1, <2>2
<1>4. ASSUME NEW n \in Node, Publish(n) \/ PublishFails(n) \/ MempoolTick(n) \/ InsertDrained(n) \/ Start(n)
      PROVE  BanHolds(k, p)'
  BY <1>2, <1>4 DEF Publish, PublishFails, MempoolTick, InsertDrained, Start
<1>5. ASSUME NEW n \in Node, Stop(n) PROVE BanHolds(k, p)'
  <2>1. CASE n \in {k, p}
    BY <1>5, <2>1 DEF Stop, BanHolds
  <2>2. CASE n \notin {k, p}
    <3>1. slipped'[k] = slipped[k] /\ banned' = banned
      BY <1>5, <2>2 DEF Stop, TypeOK
    <3>2. <<k, p>> \in fresh => <<k, p>> \in fresh'
      BY <1>5, <2>2 DEF Stop
    <3>3. {k, p} \in links' => {k, p} \in links
      BY <1>5 DEF Stop
    <3> QED
      BY <1>1, <3>1, <3>2, <3>3 DEF BanHolds
  <2> QED
    BY <2>1, <2>2
<1>6. ASSUME NEW n \in Node, NEW t \in Tx, RpcSubmit(n, t) \/ PoolInsert(n, t) PROVE BanHolds(k, p)'
  BY <1>2, <1>6 DEF RpcSubmit, PoolInsert
<1>7. ASSUME NEW n \in Node, NEW m \in Node, ConnectionEstablished(n, m) PROVE BanHolds(k, p)'
  <2>1. UNCHANGED banned
    BY <1>7 DEF ConnectionEstablished
  <2>2. CASE Disconnect(n, m) /\ UNCHANGED slipped
    BY <1>3, <2>1, <2>2
  <2>3. CASE ~IsBanned(n, m) /\ fresh' = fresh \ {<<n, m>>} /\ UNCHANGED <<links, slipped>>
    <3>1. CASE <<k, p>> = <<n, m>>
      BY <2>1, <2>3, <3>1 DEF IsBanned, BanHolds
    <3>2. CASE <<k, p>> # <<n, m>>
      BY <1>1, <2>1, <2>3, <3>2 DEF BanHolds
    <3> QED
      BY <3>1, <3>2
  <2>4. CASE fresh' = fresh \ {<<n, m>>} /\ slipped' = [slipped EXCEPT ![n] = @ \cup {m}] /\ UNCHANGED links
    <3>1. slipped[k] \subseteq slipped'[k] /\ m \in slipped'[n]
      BY <2>4 DEF TypeOK
    <3>2. CASE <<k, p>> = <<n, m>>
      BY <3>1, <3>2 DEF BanHolds
    <3>3. CASE <<k, p>> # <<n, m>>
      BY <1>1, <2>1, <2>4, <3>1, <3>3 DEF BanHolds
    <3> QED
      BY <3>2, <3>3
  <2> QED
    BY <1>7, <2>2, <2>3, <2>4 DEF ConnectionEstablished
<1>8. ASSUME NEW n \in Node, NEW m \in Node, Dial(n, m) PROVE BanHolds(k, p)'
  <2>1. CASE {k, p} = {n, m}
    <3>1. <<k, p>> = <<n, m>> \/ <<k, p>> = <<m, n>>
      BY <1>8, <2>1 DEF Dial
    <3> QED
      BY <1>8, <3>1 DEF Dial, BanHolds
  <2>2. CASE {k, p} # {n, m}
    BY <1>1, <1>8, <2>2 DEF Dial, BanHolds
  <2> QED
    BY <2>1, <2>2
<1>9. ASSUME NEW n \in Node, NEW m \in Node, HangUp(n, m) PROVE BanHolds(k, p)'
  BY <1>3, <1>9 DEF HangUp
<1>10. ASSUME NEW m \in wire, OnOverCap(m) PROVE BanHolds(k, p)'
  <2>1. m.to \in Node /\ m.from \in Node
    BY DEF TypeOK, Message
  <2> QED
    BY <1>3, <1>10, <2>1 DEF OnOverCap, Ban
<1>11. ASSUME NEW m \in wire, OnBroadcast(m) \/ OnVoteRequest(m) \/ OnVoteResponse(m) \/ Lose(m)
       PROVE  BanHolds(k, p)'
  BY <1>2, <1>11 DEF OnBroadcast, OnVoteRequest, OnVoteResponse, Lose
<1>12. ASSUME UNCHANGED vars PROVE BanHolds(k, p)'
  BY <1>2, <1>12 DEF vars
<1> QED
  BY <1>4, <1>5, <1>6, <1>7, <1>8, <1>9, <1>10, <1>11, <1>12 DEF Next

-----------------------------------------------------------------------------
(***************************************************************************)
(* Votes: a node's tally holds votes of its own name only, one per         *)
(* transaction, so that no quorum above one is reached.                    *)
(***************************************************************************)
TallyInv ==
    /\ \A n \in Node : \A u \in tally[n] : u.voter = Name[n]
    /\ \A n \in Node : \A u, v \in tally[n] : u.tx = v.tx => u = v

\* One vote is below a quorum above one.
LEMMA OneVoteDecidesNothing ==
    ASSUME NEW cast, NEW v, cast \subseteq {v}, Quorum > 1 PROVE evaluate(cast) = "Voting"
<1>1. IsFiniteSet(cast) /\ Cardinality(cast) <= 1 /\ Cardinality(cast) \in Nat
  <2>1. IsFiniteSet({v}) /\ Cardinality({v}) = 1 /\ cast \in SUBSET {v}
    BY FS_Singleton
  <2>2. IsFiniteSet(cast) /\ Cardinality(cast) <= Cardinality({v})
    BY <2>1, FS_Subset
  <2> QED
    BY <2>1, <2>2, FS_CardinalityType
<1> QED
  BY <1>1, ConstantTypes DEF evaluate

\* Recording a vote keeps the tally one vote per transaction.
LEMMA RecordedFacts ==
    ASSUME TypeOK, TallyInv, NEW n \in Node, NEW x \in Tx, NEW b
    PROVE  LET v     == [tx |-> x, voter |-> Name[n], accept |-> b]
               votes == Recorded(tally[n], v)
           IN  /\ \A u \in votes : u.voter = Name[n]
               /\ \A u, w \in votes : u.tx = w.tx => u = w
               /\ \E w : {u \in votes : u.tx = x} \subseteq {w}
<1> DEFINE v     == [tx |-> x, voter |-> Name[n], accept |-> b]
           votes == Recorded(tally[n], v)
<1>1. \A u \in tally[n] : u.voter = Name[n]
  BY DEF TallyInv
<1>2. \A u, w \in tally[n] : u.tx = w.tx => u = w
  BY DEF TallyInv
<1>3. v.tx = x /\ v.voter = Name[n]
  OBVIOUS
<1> HIDE DEF v
<1>4. (\A u \in votes : u.voter = Name[n]) /\ (\A u, w \in votes : u.tx = w.tx => u = w)
  <2>1. CASE \E u \in tally[n] : u.tx = v.tx /\ u.voter = v.voter
    <3>1. votes = tally[n]
      BY <2>1 DEF Recorded
    <3> QED
      BY <1>1, <1>2, <3>1
  <2>2. CASE ~\E u \in tally[n] : u.tx = v.tx /\ u.voter = v.voter
    <3>1. votes = tally[n] \cup {v}
      BY <2>2 DEF Recorded
    <3>2. \A u \in tally[n] : u.tx # v.tx
      BY <1>1, <1>3, <2>2
    <3> HIDE DEF votes
    <3>3. \A u \in votes : u.voter = Name[n]
      BY <1>1, <1>3, <3>1
    <3>4. \A u, w \in votes : u.tx = w.tx => u = w
      BY <1>2, <3>1, <3>2
    <3> QED
      BY <3>3, <3>4
  <2> QED
    BY <2>1, <2>2
<1> HIDE DEF votes
<1>5. \E w : {u \in votes : u.tx = x} \subseteq {w}
  BY <1>4
<1> QED
  BY <1>4, <1>5 DEF votes, v

\* What a vote response does to the tallies and the statuses.
LEMMA VoteEffect ==
    ASSUME TypeOK, TallyInv, NothingIsDecided, NEW m \in wire, OnVoteResponse(m)
    PROVE  TallyInv' /\ NothingIsDecided'
<1> DEFINE n     == m.to
           votes == Recorded(tally[n], [tx |-> m.tx, voter |-> Name[n], accept |-> m.accept])
           cast  == {v \in votes : v.tx = m.tx}
           new   == evaluate(cast)
<1>1. m.to \in Node /\ m.tx \in Tx
  BY DEF TypeOK, Message
<1>2. /\ \A u \in votes : u.voter = Name[n]
      /\ \A u, w \in votes : u.tx = w.tx => u = w
      /\ \E w : cast \subseteq {w}
  BY <1>1, RecordedFacts
<1>3. Quorum > 1 => new = "Voting"
  <2> HIDE DEF votes, cast
  <2> QED
    BY <1>2, OneVoteDecidesNothing
<1>4. \/ UNCHANGED <<tally, status>>
      \/ /\ tally' = [tally EXCEPT ![n] = IF new = "Voting" THEN votes ELSE votes \ cast]
         /\ status' = [status EXCEPT ![n][m.tx] = IF @ = "Absent" THEN @ ELSE new]
  BY DEF OnVoteResponse
<1> HIDE DEF votes, cast, new
<1>5. CASE UNCHANGED <<tally, status>>
  BY <1>5 DEF TallyInv, NothingIsDecided
<1>6. CASE /\ tally' = [tally EXCEPT ![n] = IF new = "Voting" THEN votes ELSE votes \ cast]
           /\ status' = [status EXCEPT ![n][m.tx] = IF @ = "Absent" THEN @ ELSE new]
  <2>1. tally'[n] \subseteq votes /\ \A k \in Node \ {n} : tally'[k] = tally[k]
    BY <1>1, <1>6 DEF TypeOK
  <2>2. TallyInv'
    BY <1>2, <2>1 DEF TallyInv
  <2>3. ASSUME Quorum > 1, NEW k \in Node, NEW t \in Tx PROVE status'[k][t] \in {"Absent", "Pending", "Voting"}
    <3>1. status[k][t] \in {"Absent", "Pending", "Voting"}
      BY <2>3 DEF NothingIsDecided
    <3>2. CASE k = n /\ t = m.tx
      BY <1>1, <1>3, <1>6, <2>3, <3>1, <3>2 DEF TypeOK
    <3>3. CASE k # n \/ t # m.tx
      BY <1>1, <1>6, <3>1, <3>3 DEF TypeOK
    <3> QED
      BY <3>2, <3>3
  <2> QED
    BY <2>2, <2>3 DEF NothingIsDecided
<1> QED
  BY <1>4, <1>5, <1>6

\* No step records a second vote or decides a transaction.
LEMMA NextVotes ==
    ASSUME TypeOK, TallyInv, NothingIsDecided, [Next]_vars PROVE TallyInv' /\ NothingIsDecided'
<1>1. ASSUME UNCHANGED tally PROVE TallyInv'
  BY <1>1 DEF TallyInv
<1>2. ASSUME \A k \in Node : \A t \in Tx : status'[k][t] = status[k][t] \/ status'[k][t] \in {"Absent", "Pending"}
      PROVE  NothingIsDecided'
  BY <1>2 DEF NothingIsDecided
<1>3. ASSUME UNCHANGED <<tally, status>> PROVE TallyInv' /\ NothingIsDecided'
  BY <1>1, <1>2, <1>3
<1>4. ASSUME NEW n \in Node, NEW t \in Tx, Accept(n, t), UNCHANGED tally PROVE TallyInv' /\ NothingIsDecided'
  BY <1>1, <1>2, <1>4 DEF Accept, TypeOK
<1>5. ASSUME NEW n \in Node, NEW x, Crossed(n, x), UNCHANGED tally PROVE TallyInv' /\ NothingIsDecided'
  BY <1>4, <1>5 DEF Crossed
<1>6. ASSUME NEW n \in Node, Stop(n) PROVE TallyInv' /\ NothingIsDecided'
  <2>1. \A k \in Node : tally'[k] \subseteq tally[k]
    BY <1>6 DEF Stop, TypeOK
  <2>2. \A k \in Node : \A t \in Tx : status'[k][t] = status[k][t] \/ status'[k][t] = "Absent"
    BY <1>6 DEF Stop, TypeOK
  <2> QED
    BY <1>2, <2>1, <2>2 DEF TallyInv
<1>7. ASSUME NEW n \in Node, Publish(n) \/ PublishFails(n) \/ MempoolTick(n) \/ Start(n)
      PROVE  TallyInv' /\ NothingIsDecided'
  BY <1>3, <1>7 DEF Publish, PublishFails, MempoolTick, Start, memory
<1>8. ASSUME NEW n \in Node, NEW t \in Tx, RpcSubmit(n, t) \/ PoolInsert(n, t) PROVE TallyInv' /\ NothingIsDecided'
  BY <1>3, <1>4, <1>8 DEF RpcSubmit, PoolInsert
<1>9. ASSUME NEW n \in Node, NEW m \in Node, ConnectionEstablished(n, m) \/ Dial(n, m) \/ HangUp(n, m)
      PROVE  TallyInv' /\ NothingIsDecided'
  BY <1>3, <1>9 DEF ConnectionEstablished, Dial, HangUp, memory
<1>10. ASSUME NEW m \in wire, OnBroadcast(m) PROVE TallyInv' /\ NothingIsDecided'
  <2>1. m.to \in Node /\ m.tx \in Tx
    BY DEF TypeOK, Message
  <2> QED
    BY <1>3, <1>4, <1>10, <2>1 DEF OnBroadcast
<1>11. ASSUME NEW m \in wire, OnVoteRequest(m) \/ Lose(m) PROVE TallyInv' /\ NothingIsDecided'
  BY <1>3, <1>11 DEF OnVoteRequest, Lose, memory
<1>12. ASSUME NEW m \in wire, OnVoteResponse(m) PROVE TallyInv' /\ NothingIsDecided'
  BY <1>12, VoteEffect
<1>13. ASSUME UNCHANGED vars PROVE TallyInv' /\ NothingIsDecided'
  BY <1>3, <1>13 DEF vars, memory
<1>14. ASSUME NEW m \in wire, OnOverCap(m) PROVE TallyInv' /\ NothingIsDecided'
  <2>1. m.to \in Node
    BY DEF TypeOK, Message
  <2> QED
    BY <1>3, <1>5, <1>14, <2>1 DEF OnOverCap
<1>15. ASSUME NEW n \in Node, InsertDrained(n) PROVE TallyInv' /\ NothingIsDecided'
  <2> DEFINE t == Head(batch[n])
  <2>1. UNCHANGED tally /\ t \in Tx
    BY <1>15 DEF InsertDrained, TypeOK
  <2> HIDE DEF t
  <2>2. CASE status' = [status EXCEPT ![n][t] = "Pending"]
    BY <1>1, <1>2, <2>1, <2>2 DEF TypeOK
  <2> QED
    BY <1>3, <1>5, <1>15, <2>1, <2>2 DEF InsertDrained, t
<1> QED
  BY <1>6, <1>7, <1>8, <1>9, <1>10, <1>11, <1>12, <1>13, <1>14, <1>15 DEF Next

-----------------------------------------------------------------------------
(***************************************************************************)
(* The inductive invariant and the theorems.                               *)
(***************************************************************************)
NetworkInv ==
    /\ TypeOK
    /\ FiniteInv
    /\ AncestorsAreKnown
    /\ NonceInv
    /\ OutboxInv
    /\ BanIsEnforced
    /\ TallyInv
    /\ NothingIsDecided

\* The nodes start with empty DAGs and no bans.
LEMMA InitNetworkInv == Init => NetworkInv
<1> SUFFICES ASSUME Init PROVE NetworkInv
  OBVIOUS
<1>1. \A n \in Node : Dag(n) = {} /\ outbox[n] = <<>> /\ banned[n] = {} /\ tally[n] = {}
  BY DEF Init, Dag
<1>2. FiniteInv
  BY <1>1, FS_EmptySet DEF FiniteInv
<1>3. AncestorsAreKnown /\ BanIsEnforced /\ TallyInv
  BY <1>1 DEF AncestorsAreKnown, BanIsEnforced, TallyInv
<1>4. NonceInv
  BY <1>1 DEF NonceInv, NoncesFit, Sent
<1>5. OutboxInv
  BY <1>1 DEF Init, OutboxInv, OutboxInvAt
<1>6. NothingIsDecided
  BY DEF Init, NothingIsDecided
<1> QED
  BY <1>2, <1>3, <1>4, <1>5, <1>6, InitTypeOK DEF NetworkInv

\* The invariant holds in every state of every behaviour.
LEMMA Invariance == Spec => []NetworkInv
<1>1. NetworkInv /\ [Next]_vars => NetworkInv'
  BY NextTypeOK, NextFinite, NextAncestors, NextNonces, NextOutbox, NextBans, NextVotes DEF NetworkInv
<1> QED
  BY <1>1, InitNetworkInv, PTL DEF Spec

\* Every variable keeps its type, whatever the sets of nodes, links and transactions.
THEOREM TypeCorrect == Spec => []TypeOK
<1>1. NetworkInv => TypeOK
  BY DEF NetworkInv
<1> QED
  BY <1>1, Invariance, PTL

(***************************************************************************)
(* A sender's accepted nonces are 1, 2, ... at every node, whatever is     *)
(* lost, repeated or reordered, and whatever clients submit between two    *)
(* insertions of a batch (graph.rs:136-150, node.rs:101-110): different nonces no larger than their number are all   *)
(* of the first ones.                                                      *)
(***************************************************************************)
THEOREM NoncesGapless == Spec => []NoncesHaveNoGap
<1>1. ASSUME NetworkInv PROVE NoncesHaveNoGap
  <2>1. ASSUME NEW n \in Node, NEW a \in Addr
        PROVE  {Nonce[t] : t \in Sent(Dag(n), a)} = 1 .. Cardinality(Sent(Dag(n), a))
    <3>1. IsFiniteSet(Dag(n)) /\ Dag(n) \subseteq Tx /\ NoncesFit(Dag(n))
      BY <1>1 DEF NetworkInv, FiniteInv, NonceInv, Dag
    <3> QED
      BY <3>1, FitHasNoGap
  <2> QED
    BY <2>1 DEF NoncesHaveNoGap, Sent
<1> QED
  BY <1>1, Invariance, PTL

\* A DAG holds the ancestors of what it holds, for gossip in any order (graph.rs:111-119).
THEOREM AncestorsKnown == Spec => []AncestorsAreKnown
<1>1. NetworkInv => AncestorsAreKnown
  BY DEF NetworkInv
<1> QED
  BY <1>1, Invariance, PTL

\* A node publishes a transaction at most once between two starts, and only one it has
\* accepted, however often gossip delivers it (node.rs:90, main.rs:277).
THEOREM AnnouncesOnce == Spec => []AnnouncedOnce
<1>1. NetworkInv => AnnouncedOnce
  BY OutboxAnnounces DEF NetworkInv
<1> QED
  BY <1>1, Invariance, PTL

\* No order of redials, bans, failures and restarts leaves a banned peer connected
\* beyond the event of its connection (main.rs:248-256, 286-291).
THEOREM BansEnforced == Spec => []BanIsEnforced
<1>1. NetworkInv => BanIsEnforced
  BY DEF NetworkInv
<1> QED
  BY <1>1, Invariance, PTL

\* With a quorum above one the running node decides nothing, whatever votes arrive and
\* whatever names the nodes have (main.rs:347-356, engine.rs:95, 141-147, vote.rs:90).
THEOREM NothingDecided == Spec => []NothingIsDecided
<1>1. NetworkInv => NothingIsDecided
  BY DEF NetworkInv
<1> QED
  BY <1>1, Invariance, PTL
=============================================================================
