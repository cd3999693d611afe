-------------------------- MODULE CheckpointsProofs -------------------------
(***************************************************************************)
(* The checkpoints of module Checkpoints are complete and saved once, for  *)
(* any number of threads, transactions and runs of the program.            *)
(***************************************************************************)
EXTENDS Checkpoints, FiniteSetTheorems, TLAPS

Pc == {"idle", "notify", "epoch", "reset", "state", "merkle", "len", "save", "commit"}
Record == [run : Nat, epoch : Nat, covers : Nat, state : Nat, merkle : Nat, len : Nat]

\* The counters are numbers, and a thread has a place in the code and a record.
TypeOK ==
    /\ count \in Nat /\ last_epoch \in Nat /\ txs \in Nat /\ counted \in Nat /\ runs \in Nat
    /\ calls \in [Thread -> [pc : Pc, record : Record]]

\* A write transaction is opened by a thread that waits for its commit, or by another caller.
WriterInv == writer.by \subseteq Thread /\ \A t \in writer.by : calls[t].pc = "commit"

\* What is inserted is counted, or about to be.
Notifying == {t \in Thread : calls[t].pc = "notify"}
CountInv == IsFiniteSet(Notifying) /\ counted + Cardinality(Notifying) = txs

\* A due checkpoint has a thread before its reset.
DueInv == count >= tx_interval => \E t \in Thread : calls[t].pc \in {"epoch", "reset"}

\* Each field of the record is read after the reset that fixes what it must cover.
Covers(c) ==
    /\ c.pc \in {"state", "merkle", "len", "save", "commit"} => c.record.covers <= counted
    /\ c.pc \in {"merkle", "len", "save", "commit"} => c.record.covers <= c.record.state
    /\ c.pc \in {"len", "save", "commit"} => c.record.covers <= c.record.merkle
    /\ c.pc \in {"save", "commit"} => c.record.covers <= c.record.len

CoverInv == \A t \in Thread : Covers(calls[t])

CompleteInv == TypeOK /\ WriterInv /\ CountInv /\ DueInv /\ CoverInv

-----------------------------------------------------------------------------
\* The reset comes second.
LEMMA ResetIsSecond ==
    /\ (CHOOSE i \in DOMAIN Order : Order[i] = "reset") = 2
    /\ Order[1] = "epoch" /\ Order[2] = "reset"
<1>1. DOMAIN Order = 1 .. 6
  BY DEF Order
<1>2. /\ Order[1] = "epoch" /\ Order[2] = "reset" /\ Order[3] = "state"
      /\ Order[4] = "merkle" /\ Order[5] = "len" /\ Order[6] = "save"
  BY DEF Order
<1>3. \A i \in 1 .. 6 : i = 1 \/ i = 2 \/ i = 3 \/ i = 4 \/ i = 5 \/ i = 6
  OBVIOUS
<1> QED
  BY <1>1, <1>2, <1>3

\* The order of create_checkpoint and save_checkpoint.
LEMMA AfterFacts ==
    /\ After("epoch") = "reset" /\ After("reset") = "state" /\ After("state") = "merkle"
    /\ After("merkle") = "len" /\ After("len") = "save"
<1>1. DOMAIN Order = 1 .. 6
  BY DEF Order
<1>2. /\ Order[1] = "epoch" /\ Order[2] = "reset" /\ Order[3] = "state"
      /\ Order[4] = "merkle" /\ Order[5] = "len" /\ Order[6] = "save"
  BY DEF Order
<1>3. \A i \in 1 .. 6 : i = 1 \/ i = 2 \/ i = 3 \/ i = 4 \/ i = 5 \/ i = 6
  OBVIOUS
<1>4. (CHOOSE i \in DOMAIN Order : Order[i] = "epoch") = 1
  BY <1>1, <1>2, <1>3
<1>5. (CHOOSE i \in DOMAIN Order : Order[i] = "reset") = 2
  BY <1>1, <1>2, <1>3
<1>6. (CHOOSE i \in DOMAIN Order : Order[i] = "state") = 3
  BY <1>1, <1>2, <1>3
<1>7. (CHOOSE i \in DOMAIN Order : Order[i] = "merkle") = 4
  BY <1>1, <1>2, <1>3
<1>8. (CHOOSE i \in DOMAIN Order : Order[i] = "len") = 5
  BY <1>1, <1>2, <1>3
<1>9. /\ After("epoch") = Order[1 + 1] /\ After("reset") = Order[1 + 2] /\ After("state") = Order[1 + 3]
      /\ After("merkle") = Order[1 + 4] /\ After("len") = Order[1 + 5]
  BY <1>4, <1>5, <1>6, <1>7, <1>8 DEF After
<1>10. 1 + 1 = 2 /\ 1 + 2 = 3 /\ 1 + 3 = 4 /\ 1 + 4 = 5 /\ 1 + 5 = 6
  OBVIOUS
<1> QED
  BY <1>2, <1>9, <1>10, Zenon

\* The record a checkpoint starts with.
LEMMA StartedRecord ==
    ASSUME NEW n \in Nat, NEW e \in Nat, NEW r, r = [NoRecord EXCEPT !.run = n, !.epoch = e]
    PROVE  r \in Record /\ r.run = n /\ r.epoch = e
<1>1. NoRecord \in Record
  BY DEF NoRecord, Record
<1> DEFINE a == [NoRecord EXCEPT !.run = n]
           b == [a EXCEPT !.epoch = e]
<1>2. a \in Record /\ a.run = n
  BY <1>1 DEF Record
<1> HIDE DEF a
<1>3. b \in Record /\ b.epoch = e /\ b.run = n
  BY <1>2 DEF Record
<1>4. b = [NoRecord EXCEPT !.run = n, !.epoch = e]
  BY DEF a
<1> QED
  BY <1>3, <1>4

\* What a thread does at its place leaves the other threads alone.
LEMMA GotoEffect ==
    ASSUME TypeOK, NEW t \in Thread, NEW pc \in Pc, Goto(t, pc)
    PROVE  /\ calls' \in [Thread -> [pc : Pc, record : Record]]
           /\ calls'[t].pc = pc /\ calls'[t].record = calls[t].record
           /\ \A u \in Thread \ {t} : calls'[u] = calls[u]
BY DEF Goto, TypeOK

\* Filling a field of the record moves the thread on and changes that field only.
LEMMA FillEffect ==
    ASSUME TypeOK, NEW t \in Thread, NEW pc \in {"reset", "state", "merkle", "len"},
           NEW field \in {"covers", "state", "merkle", "len"}, NEW v \in Nat, Fill(t, pc, field, v)
    PROVE  /\ calls' \in [Thread -> [pc : Pc, record : Record]]
           /\ calls[t].pc = pc /\ calls'[t].pc = After(pc)
           /\ calls'[t].record = [calls[t].record EXCEPT ![field] = v]
           /\ \A u \in Thread \ {t} : calls'[u] = calls[u]
<1>1. After(pc) \in Pc
  BY AfterFacts DEF Pc
<1>2. calls[t] \in [pc : Pc, record : Record] /\ calls[t].record \in Record
  BY DEF TypeOK
<1> DEFINE r == [calls[t].record EXCEPT ![field] = v]
<1>3. r \in Record
  <2>1. CASE field = "covers"
    BY <1>2, <2>1 DEF Record
  <2>2. CASE field = "state"
    BY <1>2, <2>2 DEF Record
  <2>3. CASE field = "merkle"
    BY <1>2, <2>3 DEF Record
  <2>4. CASE field = "len"
    BY <1>2, <2>4 DEF Record
  <2> QED
    BY <2>1, <2>2, <2>3, <2>4
<1> DEFINE c == [calls[t] EXCEPT !.pc = After(pc), !.record[field] = v]
<1>4. calls[t].pc = pc /\ calls' = [calls EXCEPT ![t] = c]
  <2>1. calls' = [calls EXCEPT ![t].pc = After(pc), ![t].record[field] = v]
    BY DEF Fill
  <2> QED
    BY <2>1 DEF Fill, TypeOK
<1>5. c.pc = After(pc) /\ c.record = r
  BY <1>2
<1>6. c \in [pc : Pc, record : Record]
  <2>1. DOMAIN c = {"pc", "record"}
    BY <1>2
  <2> HIDE DEF r
  <2> QED
    BY <1>1, <1>2, <1>3, <1>5, <2>1
<1> HIDE DEF c, r
<1>7. calls'[t] = c /\ \A u \in Thread \ {t} : calls'[u] = calls[u]
  BY <1>4 DEF TypeOK
<1>8. calls' \in [Thread -> [pc : Pc, record : Record]]
  BY <1>4, <1>6 DEF TypeOK
<1> QED
  BY <1>4, <1>5, <1>7, <1>8 DEF r

\* The end of a write transaction returns the call of the thread that saves.
LEMMA ReturnEffect ==
    ASSUME TypeOK, WriterInv, Return
    PROVE  /\ calls' \in [Thread -> [pc : Pc, record : Record]]
           /\ \A t \in Thread : calls'[t] = calls[t] \/ (calls[t].pc = "commit" /\ calls'[t] = Idle)
<1>1. Idle \in [pc : Pc, record : Record]
  BY DEF Idle, Pc, Record, NoRecord
<1> QED
  BY <1>1 DEF Return, TypeOK, WriterInv

-----------------------------------------------------------------------------
(***************************************************************************)
(* Completeness: what a step of one thread, of the database or of a        *)
(* restart must keep.                                                      *)
(***************************************************************************)
\* Threads that neither start nor stop notifying do not change what is counted.
LEMMA CountFrame ==
    ASSUME CountInv, UNCHANGED <<counted, txs>>,
           \A t \in Thread : calls'[t].pc = "notify" <=> calls[t].pc = "notify"
    PROVE  CountInv'
<1>1. Notifying' = Notifying
  BY DEF Notifying
<1> QED
  BY <1>1 DEF CountInv

\* A due checkpoint stays pending while no thread before its reset is disturbed.
LEMMA DueFrame ==
    ASSUME DueInv, UNCHANGED count,
           \A t \in Thread : calls[t].pc \in {"epoch", "reset"} => calls'[t].pc \in {"epoch", "reset"}
    PROVE  DueInv'
BY DEF DueInv

\* A call that stays as it is covers what it did, as the count only grows.
LEMMA CoverFrame ==
    ASSUME TypeOK, counted' \in Nat, counted <= counted', NEW t \in Thread, Covers(calls[t]), calls'[t] = calls[t]
    PROVE  Covers(calls[t])'
<1>1. calls[t].record.covers \in Nat /\ counted \in Nat
  BY DEF TypeOK, Record
<1> QED
  BY <1>1 DEF Covers

\* A transaction that is inserted is one that is to be counted.
LEMMA InsertKeeps == ASSUME CompleteInv, NEW t \in Thread, Insert(t) PROVE CompleteInv'
<1> USE DEF CompleteInv
<1>1. /\ calls[t].pc = "idle" /\ txs' = txs + 1 /\ Goto(t, "notify")
      /\ UNCHANGED <<count, last_epoch, counted, writer, runs>>
  BY DEF Insert
<1>2. /\ calls' \in [Thread -> [pc : Pc, record : Record]] /\ calls'[t].pc = "notify"
      /\ \A u \in Thread \ {t} : calls'[u] = calls[u]
  BY <1>1, GotoEffect DEF Pc
<1>3. TypeOK'
  BY <1>1, <1>2 DEF TypeOK
<1>4. WriterInv'
  BY <1>1, <1>2 DEF WriterInv
<1>5. CountInv'
  <2>1. Notifying' = Notifying \cup {t} /\ t \notin Notifying
    BY <1>1, <1>2 DEF Notifying
  <2>2. IsFiniteSet(Notifying) /\ Cardinality(Notifying) \in Nat
    BY FS_CardinalityType DEF CountInv
  <2>3. IsFiniteSet(Notifying \cup {t}) /\ Cardinality(Notifying \cup {t}) = Cardinality(Notifying) + 1
    BY <2>1, <2>2, FS_AddElement
  <2>4. Cardinality(Notifying)' = Cardinality(Notifying) + 1 /\ IsFiniteSet(Notifying)'
    BY <2>1, <2>3
  <2> QED
    BY <1>1, <2>2, <2>4 DEF CountInv, TypeOK
<1>6. DueInv'
  BY <1>1, <1>2, DueFrame
<1>7. CoverInv'
  <2>1. Covers(calls[t])'
    BY <1>2 DEF Covers
  <2>2. counted' \in Nat /\ counted <= counted'
    BY <1>1 DEF TypeOK
  <2> QED
    BY <1>2, <2>1, <2>2, CoverFrame DEF CoverInv
<1> QED
  BY <1>3, <1>4, <1>5, <1>6, <1>7

\* Counting a transaction that makes a checkpoint due sends the thread to make it.
LEMMA OnTransactionKeeps == ASSUME CompleteInv, NEW t \in Thread, on_transaction(t) PROVE CompleteInv'
<1> USE DEF CompleteInv
<1> DEFINE pc == IF IsDue(count + 1) THEN "epoch" ELSE "idle"
<1>1. /\ calls[t].pc = "notify" /\ count' = count + 1 /\ counted' = counted + 1 /\ Goto(t, pc)
      /\ UNCHANGED <<last_epoch, txs, writer, runs>>
  BY DEF on_transaction
<1>2. /\ calls' \in [Thread -> [pc : Pc, record : Record]] /\ calls'[t].pc = pc
      /\ \A u \in Thread \ {t} : calls'[u] = calls[u]
  BY <1>1, GotoEffect DEF Pc
<1>3. TypeOK'
  BY <1>1, <1>2 DEF TypeOK
<1>4. WriterInv'
  BY <1>1, <1>2 DEF WriterInv
<1>5. CountInv'
  <2>1. Notifying' = Notifying \ {t} /\ t \in Notifying
    BY <1>1, <1>2 DEF Notifying
  <2>2. IsFiniteSet(Notifying) /\ Cardinality(Notifying) \in Nat
    BY FS_CardinalityType DEF CountInv
  <2>3. IsFiniteSet(Notifying \ {t}) /\ Cardinality(Notifying \ {t}) = Cardinality(Notifying) - 1
    BY <2>1, <2>2, FS_RemoveElement
  <2>4. Cardinality(Notifying)' = Cardinality(Notifying) - 1 /\ IsFiniteSet(Notifying)'
    BY <2>1, <2>3
  <2> QED
    BY <1>1, <2>2, <2>4 DEF CountInv, TypeOK
<1>6. DueInv'
  BY <1>1, <1>2 DEF DueInv, IsDue
<1>7. CoverInv'
  <2>1. Covers(calls[t])'
    BY <1>2 DEF Covers
  <2>2. counted' \in Nat /\ counted <= counted'
    BY <1>1 DEF TypeOK
  <2> QED
    BY <1>2, <2>1, <2>2, CoverFrame DEF CoverInv
<1> QED
  BY <1>3, <1>4, <1>5, <1>6, <1>7

\* Taking the epoch leaves the checkpoint pending.
LEMMA TakeEpochKeeps == ASSUME CompleteInv, NEW t \in Thread, TakeEpoch(t) PROVE CompleteInv'
<1> USE DEF CompleteInv
<1> DEFINE r == [NoRecord EXCEPT !.run = runs, !.epoch = last_epoch + 1]
<1>1. /\ calls[t].pc = "epoch" /\ last_epoch' = last_epoch + 1
      /\ calls' = [calls EXCEPT ![t].pc = "reset", ![t].record = r]
      /\ UNCHANGED <<count, txs, counted, writer, runs>>
  BY AfterFacts DEF TakeEpoch
<1>2. r \in Record
  <2>1. runs \in Nat /\ last_epoch + 1 \in Nat
    BY DEF TypeOK
  <2> QED
    BY <2>1, StartedRecord
<1> HIDE DEF r
<1>3. /\ calls' \in [Thread -> [pc : Pc, record : Record]] /\ calls'[t].pc = "reset"
      /\ \A u \in Thread \ {t} : calls'[u] = calls[u]
  BY <1>1, <1>2 DEF TypeOK, Pc
<1>4. TypeOK'
  BY <1>1, <1>3 DEF TypeOK
<1>5. WriterInv'
  BY <1>1, <1>3 DEF WriterInv
<1>6. CountInv'
  BY <1>1, <1>3, CountFrame
<1>7. DueInv'
  BY <1>1, <1>3, DueFrame
<1>8. CoverInv'
  <2>1. Covers(calls[t])'
    BY <1>3 DEF Covers
  <2>2. counted' \in Nat /\ counted <= counted'
    BY <1>1 DEF TypeOK
  <2> QED
    BY <1>3, <2>1, <2>2, CoverFrame DEF CoverInv
<1> QED
  BY <1>4, <1>5, <1>6, <1>7, <1>8

\* The reset fixes what the checkpoint must cover: what is counted by then.
LEMMA ResetCountKeeps ==
    ASSUME tx_interval \in Nat \ {0}, CompleteInv, NEW t \in Thread, ResetCount(t) PROVE CompleteInv'
<1> USE DEF CompleteInv
<1>1. Fill(t, "reset", "covers", counted) /\ count' = 0 /\ UNCHANGED <<last_epoch, txs, counted, writer, runs>>
  BY DEF ResetCount
<1>2. counted \in Nat
  BY DEF TypeOK
<1>3. /\ calls' \in [Thread -> [pc : Pc, record : Record]]
      /\ calls[t].pc = "reset" /\ calls'[t].pc = "state"
      /\ calls'[t].record = [calls[t].record EXCEPT !["covers"] = counted]
      /\ \A u \in Thread \ {t} : calls'[u] = calls[u]
  BY <1>1, <1>2, FillEffect, AfterFacts
<1>4. TypeOK'
  BY <1>1, <1>3 DEF TypeOK
<1>5. WriterInv'
  BY <1>1, <1>3 DEF WriterInv
<1>6. CountInv'
  BY <1>1, <1>3, CountFrame
<1>7. DueInv'
  BY <1>1 DEF DueInv
<1>8. CoverInv'
  <2>1. Covers(calls[t])'
    <3>1. calls[t].record \in Record
      BY DEF TypeOK
    <3>2. calls'[t].record.covers = counted
      BY <1>3, <3>1 DEF Record
    <3> QED
      BY <1>1, <1>2, <1>3, <3>2 DEF Covers
  <2>2. counted' \in Nat /\ counted <= counted'
    BY <1>1 DEF TypeOK
  <2> QED
    BY <1>3, <2>1, <2>2, CoverFrame DEF CoverInv
<1> QED
  BY <1>4, <1>5, <1>6, <1>7, <1>8

\* What is read of the DAG after the reset covers what was counted before it.
LEMMA ReadDagKeeps == ASSUME CompleteInv, NEW t \in Thread, ReadDag(t) PROVE CompleteInv'
<1> USE DEF CompleteInv
<1>1. UNCHANGED <<count, last_epoch, txs, counted, writer, runs>>
  BY DEF ReadDag, manager
<1>2. txs \in Nat /\ counted \in Nat /\ counted <= txs
  BY FS_CardinalityType DEF TypeOK, CountInv
<1>3. calls[t].record \in Record /\ Covers(calls[t])
  BY DEF TypeOK, CoverInv
<1>4. /\ calls' \in [Thread -> [pc : Pc, record : Record]]
      /\ calls[t].pc \in {"state", "merkle", "len"} /\ calls'[t].pc \in {"merkle", "len", "save"}
      /\ \A u \in Thread \ {t} : calls'[u] = calls[u]
      /\ Covers(calls[t])'
  <2>1. CASE Fill(t, "state", "state", txs)
    <3>1. /\ calls' \in [Thread -> [pc : Pc, record : Record]] /\ calls[t].pc = "state" /\ calls'[t].pc = "merkle"
          /\ calls'[t].record = [calls[t].record EXCEPT !["state"] = txs]
          /\ \A u \in Thread \ {t} : calls'[u] = calls[u]
      BY <1>2, <2>1, FillEffect, AfterFacts
    <3>2. calls'[t].record.state = txs /\ calls'[t].record.covers = calls[t].record.covers
      BY <1>3, <3>1 DEF Record
    <3>3. calls[t].record.covers \in Nat /\ calls[t].record.covers <= counted
      BY <1>3, <3>1 DEF Record, Covers
    <3> QED
      BY <1>1, <1>2, <3>1, <3>2, <3>3 DEF Covers
  <2>2. CASE Fill(t, "merkle", "merkle", txs)
    <3>1. /\ calls' \in [Thread -> [pc : Pc, record : Record]] /\ calls[t].pc = "merkle" /\ calls'[t].pc = "len"
          /\ calls'[t].record = [calls[t].record EXCEPT !["merkle"] = txs]
          /\ \A u \in Thread \ {t} : calls'[u] = calls[u]
      BY <1>2, <2>2, FillEffect, AfterFacts
    <3>2. /\ calls'[t].record.merkle = txs /\ calls'[t].record.covers = calls[t].record.covers
          /\ calls'[t].record.state = calls[t].record.state
      BY <1>3, <3>1 DEF Record
    <3>3. /\ calls[t].record.covers \in Nat /\ calls[t].record.covers <= counted
          /\ calls[t].record.covers <= calls[t].record.state
      BY <1>3, <3>1 DEF Record, Covers
    <3> QED
      BY <1>1, <1>2, <3>1, <3>2, <3>3 DEF Covers
  <2>3. CASE Fill(t, "len", "len", txs)
    <3>1. /\ calls' \in [Thread -> [pc : Pc, record : Record]] /\ calls[t].pc = "len" /\ calls'[t].pc = "save"
          /\ calls'[t].record = [calls[t].record EXCEPT !["len"] = txs]
          /\ \A u \in Thread \ {t} : calls'[u] = calls[u]
      BY <1>2, <2>3, FillEffect, AfterFacts
    <3>2. /\ calls'[t].record.len = txs /\ calls'[t].record.covers = calls[t].record.covers
          /\ calls'[t].record.state = calls[t].record.state /\ calls'[t].record.merkle = calls[t].record.merkle
      BY <1>3, <3>1 DEF Record
    <3>3. /\ calls[t].record.covers \in Nat /\ calls[t].record.covers <= counted
          /\ calls[t].record.covers <= calls[t].record.state /\ calls[t].record.covers <= calls[t].record.merkle
      BY <1>3, <3>1 DEF Record, Covers
    <3> QED
      BY <1>1, <1>2, <3>1, <3>2, <3>3 DEF Covers
  <2> QED
    BY <2>1, <2>2, <2>3 DEF ReadDag
<1>5. TypeOK'
  BY <1>1, <1>4 DEF TypeOK
<1>6. WriterInv'
  BY <1>1, <1>4 DEF WriterInv
<1>7. CountInv'
  BY <1>1, <1>4, CountFrame
<1>8. DueInv'
  BY <1>1, <1>4, DueFrame
<1>9. CoverInv'
  <2>1. counted' \in Nat /\ counted <= counted'
    BY <1>1 DEF TypeOK
  <2> QED
    BY <1>4, <2>1, CoverFrame DEF CoverInv
<1> QED
  BY <1>5, <1>6, <1>7, <1>8, <1>9

\* Saving moves the thread to the end of its call.
LEMMA SaveKeeps == ASSUME CompleteInv, NEW t \in Thread, save_checkpoint(t) PROVE CompleteInv'
<1> USE DEF CompleteInv
<1>1. calls[t].pc = "save" /\ UNCHANGED <<count, last_epoch, txs, counted, runs>>
  BY DEF save_checkpoint, manager
<1>2. \/ Goto(t, "commit") /\ writer = NoWriter /\ writer'.by = {t}
      \/ Goto(t, "idle") /\ UNCHANGED writer
  BY DEF save_checkpoint, BeginWrite
<1>3. /\ calls' \in [Thread -> [pc : Pc, record : Record]]
      /\ calls'[t].pc \in {"commit", "idle"} /\ calls'[t].record = calls[t].record
      /\ \A u \in Thread \ {t} : calls'[u] = calls[u]
  BY <1>2, GotoEffect DEF Pc
<1>4. TypeOK'
  BY <1>1, <1>3 DEF TypeOK
<1>5. WriterInv'
  <2>1. CASE Goto(t, "commit") /\ writer'.by = {t}
    BY <2>1, GotoEffect DEF WriterInv, Pc
  <2>2. CASE Goto(t, "idle") /\ UNCHANGED writer
    BY <1>1, <1>3, <2>2 DEF WriterInv
  <2> QED
    BY <1>2, <2>1, <2>2
<1>6. CountInv'
  BY <1>1, <1>3, CountFrame
<1>7. DueInv'
  BY <1>1, <1>3, DueFrame
<1>8. CoverInv'
  <2>1. Covers(calls[t])'
    BY <1>1, <1>3 DEF Covers, CoverInv
  <2>2. counted' \in Nat /\ counted <= counted'
    BY <1>1 DEF TypeOK
  <2> QED
    BY <1>3, <2>1, <2>2, CoverFrame DEF CoverInv
<1> QED
  BY <1>4, <1>5, <1>6, <1>7, <1>8

\* The database leaves the manager alone, but for the call that returns.
LEMMA DatabaseKeeps ==
    ASSUME CompleteInv, (\E W \in Writes : put(W)) \/ InsertEntry \/ Commit \/ Abort
    PROVE  CompleteInv'
<1> USE DEF CompleteInv
<1>1. UNCHANGED <<count, last_epoch, txs, counted, runs>>
  BY DEF put, InsertEntry, Commit, Abort, manager
<1>2. \/ UNCHANGED calls /\ writer'.by = {}
      \/ UNCHANGED calls /\ writer'.by = writer.by
      \/ Return /\ writer'.by = {}
  <2>1. ASSUME NEW W \in Writes, put(W) PROVE UNCHANGED calls /\ writer'.by = {}
    BY <2>1 DEF put, BeginWrite
  <2>2. ASSUME InsertEntry PROVE UNCHANGED calls /\ writer'.by = writer.by
    BY <2>2 DEF InsertEntry
  <2>3. ASSUME Commit \/ Abort PROVE Return /\ writer'.by = {}
    BY <2>3 DEF Commit, Abort, NoWriter
  <2> QED
    BY <2>1, <2>2, <2>3
<1>3. /\ calls' \in [Thread -> [pc : Pc, record : Record]]
      /\ \A t \in Thread : calls'[t] = calls[t] \/ (calls[t].pc = "commit" /\ calls'[t] = Idle)
  BY <1>2, ReturnEffect DEF TypeOK
<1>4. Idle.pc = "idle"
  BY DEF Idle
<1>5. TypeOK'
  BY <1>1, <1>3 DEF TypeOK
<1>6. WriterInv'
  BY <1>2 DEF WriterInv
<1>7. CountInv'
  BY <1>1, <1>3, <1>4, CountFrame
<1>8. DueInv'
  BY <1>1, <1>3, <1>4, DueFrame
<1>9. CoverInv'
  <2>1. counted' \in Nat /\ counted <= counted'
    BY <1>1 DEF TypeOK
  <2>2. ASSUME NEW t \in Thread, calls'[t] = Idle PROVE Covers(calls[t])'
    BY <1>4, <2>2 DEF Covers
  <2> QED
    BY <1>3, <2>1, <2>2, CoverFrame DEF CoverInv
<1> QED
  BY <1>5, <1>6, <1>7, <1>8, <1>9

\* The state the program starts with, after a crash too.
LEMMA StartComplete ==
    ASSUME tx_interval \in Nat \ {0}, calls' = [t \in Thread |-> Idle], writer' = NoWriter,
           count' = 0, last_epoch' = 0, txs' = 0, counted' = 0, runs' \in Nat
    PROVE  CompleteInv'
<1>1. Idle \in [pc : Pc, record : Record] /\ Idle.pc = "idle"
  BY DEF Idle, Pc, Record, NoRecord
<1>2. TypeOK'
  BY <1>1 DEF TypeOK
<1>3. WriterInv'
  BY DEF WriterInv, NoWriter
<1>4. Notifying' = {}
  BY <1>1 DEF Notifying
<1>5. CountInv'
  BY <1>4, FS_EmptySet DEF CountInv
<1>6. DueInv' /\ CoverInv'
  BY <1>1 DEF DueInv, CoverInv, Covers
<1> QED
  BY <1>2, <1>3, <1>5, <1>6 DEF CompleteInv

\* The same for the first state.
LEMMA InitComplete == ASSUME tx_interval \in Nat \ {0}, Init PROVE CompleteInv
<1>1. Idle \in [pc : Pc, record : Record] /\ Idle.pc = "idle"
  BY DEF Idle, Pc, Record, NoRecord
<1>2. TypeOK
  BY <1>1 DEF Init, TypeOK
<1>3. WriterInv
  BY DEF Init, WriterInv, NoWriter
<1>4. Notifying = {}
  BY <1>1 DEF Init, Notifying
<1>5. CountInv
  BY <1>4, FS_EmptySet DEF Init, CountInv
<1>6. DueInv /\ CoverInv
  BY <1>1 DEF Init, DueInv, CoverInv, Covers
<1> QED
  BY <1>2, <1>3, <1>5, <1>6 DEF CompleteInv

\* Every step keeps the invariant.
LEMMA NextComplete == ASSUME tx_interval \in Nat \ {0}, CompleteInv, [Next]_vars PROVE CompleteInv'
<1>1. CASE Restart
  <2>1. runs' \in Nat
    BY <1>1 DEF Restart, CompleteInv, TypeOK
  <2> QED
    BY <1>1, <2>1, StartComplete DEF Restart
<1>2. CASE UNCHANGED vars
  BY <1>2 DEF vars, CompleteInv, TypeOK, WriterInv, CountInv, Notifying, DueInv, CoverInv, Covers
<1> QED
  BY <1>1, <1>2, InsertKeeps, OnTransactionKeeps, TakeEpochKeeps, ResetCountKeeps, ReadDagKeeps, SaveKeeps,
     DatabaseKeeps DEF Next

(***************************************************************************)
(* With a positive interval a due checkpoint is always being made, and a   *)
(* checkpoint covers every transaction whose count its reset discarded,    *)
(* whatever threads count, reset and read meanwhile (checkpoint.rs:38-67). *)
(***************************************************************************)
THEOREM CheckpointsComplete == tx_interval \in Nat \ {0} => (Spec => []CheckpointsAreComplete)
<1> SUFFICES ASSUME tx_interval \in Nat \ {0} PROVE Spec => []CheckpointsAreComplete
  OBVIOUS
<1>1. Init => CompleteInv
  BY InitComplete
<1>2. CompleteInv /\ [Next]_vars => CompleteInv'
  BY NextComplete
<1>3. CompleteInv => CheckpointsAreComplete
  <2> SUFFICES ASSUME CompleteInv PROVE CheckpointsAreComplete
    OBVIOUS
  <2>1. (CHOOSE i \in DOMAIN Order : Order[i] = "reset") = 2 /\ Order[1] = "epoch" /\ Order[2] = "reset"
    BY ResetIsSecond
  <2>2. DueCheckpointIsPending
    <3>1. ASSUME NEW t \in Thread, calls[t].pc \in {"epoch", "reset"} PROVE \E i \in 1 .. 2 : calls[t].pc = Order[i]
      BY <2>1, <3>1
    <3>2. count >= tx_interval => \E t \in Thread, i \in 1 .. 2 : calls[t].pc = Order[i]
      BY <3>1 DEF CompleteInv, DueInv
    <3> QED
      BY <2>1, <3>2 DEF DueCheckpointIsPending
  <2>3. CheckpointCoversCounted
    BY DEF CompleteInv, CoverInv, Covers, CheckpointCoversCounted
  <2> QED
    BY <2>2, <2>3 DEF CheckpointsAreComplete
<1> QED
  BY <1>1, <1>2, <1>3, PTL DEF Spec

-----------------------------------------------------------------------------
(***************************************************************************)
(* One save per epoch.  What other callers write is not a checkpoint       *)
(* (storage.rs: each put_ names its own table).                            *)
(***************************************************************************)
Elsewhere == UNION {Range(W) : W \in Writes}
WritesElsewhere == Writes \subseteq Seq(Elsewhere) /\ \A p \in Elsewhere : p.table # "checkpoints"

\* A thread that has its epoch, and what it saves.
Making(t) == calls[t].pc \in {"reset", "state", "merkle", "len", "save", "commit"}
EpochOf(t) == calls[t].record.epoch
Saving(t) == [table |-> "checkpoints", key |-> EpochOf(t), value |-> calls[t].record]
Stored(tables) == tables["checkpoints"]

\* The checkpoints being made are of this run and have an epoch each.
RecordInv ==
    /\ \A t \in Thread : Making(t) => calls[t].record.run = runs /\ EpochOf(t) <= last_epoch
    /\ \A t, u \in Thread : Making(t) /\ Making(u) /\ t # u => EpochOf(t) # EpochOf(u)

\* A stored checkpoint is of an earlier run, or of an epoch no thread has any more.
DiskInv ==
    /\ "checkpoints" \in DOMAIN disk
    /\ \A e \in DOMAIN Stored(disk) :
        /\ e \in Nat /\ Stored(disk)[e].run \in Nat /\ Stored(disk)[e].run <= runs
        /\ Stored(disk)[e].run = runs =>
               e <= last_epoch /\ \A t \in Thread : Making(t) => EpochOf(t) # e

\* An open write transaction holds the stored checkpoints, and may hold the one it saves.
StagedInv ==
    writer # NoWriter =>
        /\ DOMAIN writer = {"by", "left", "staged"} /\ "checkpoints" \in DOMAIN writer.staged
        /\ writer.left \in Seq(Elsewhere) \/ \E t \in writer.by : writer.left \in Seq({Saving(t)})
        /\ DOMAIN Stored(disk) \subseteq DOMAIN Stored(writer.staged)
        /\ \A e \in DOMAIN Stored(writer.staged) :
               \/ e \in DOMAIN Stored(disk) /\ Stored(writer.staged)[e] = Stored(disk)[e]
               \/ \E t \in writer.by : e = EpochOf(t) /\ Stored(writer.staged)[e] = calls[t].record

EpochInv == RecordInv /\ DiskInv /\ StagedInv

\* What the manager's steps keep of the records and of the stored checkpoints.
LEMMA RecordFrame ==
    ASSUME CompleteInv, RecordInv, DiskInv, UNCHANGED <<disk, runs>>,
           last_epoch' \in Nat, last_epoch <= last_epoch',
           \A t \in Thread : Making(t)' => Making(t) /\ EpochOf(t)' = EpochOf(t) /\ calls'[t].record.run = calls[t].record.run
    PROVE  RecordInv' /\ DiskInv'
<1>1. \A t \in Thread : EpochOf(t) \in Nat
  BY DEF CompleteInv, TypeOK, Record, EpochOf
<1>2. last_epoch \in Nat /\ runs' = runs /\ disk' = disk
  BY DEF CompleteInv, TypeOK
<1>3. RecordInv'
  <2>1. ASSUME NEW t \in Thread, Making(t)' PROVE calls'[t].record.run = runs' /\ EpochOf(t)' <= last_epoch'
    BY <1>1, <1>2, <2>1 DEF RecordInv
  <2>2. ASSUME NEW t \in Thread, NEW u \in Thread, Making(t)', Making(u)', t # u PROVE EpochOf(t)' # EpochOf(u)'
    BY <2>2 DEF RecordInv
  <2> QED
    BY <2>1, <2>2 DEF RecordInv
<1>4. DiskInv'
  <2>1. ASSUME NEW e \in DOMAIN Stored(disk), Stored(disk)[e].run = runs
        PROVE  e <= last_epoch' /\ \A t \in Thread : Making(t)' => EpochOf(t)' # e
    BY <1>2, <2>1 DEF DiskInv
  <2> QED
    BY <1>2, <2>1 DEF DiskInv, Stored
<1> QED
  BY <1>3, <1>4

\* What they keep of the open write transaction: its thread waits.
LEMMA StagedFrame ==
    ASSUME CompleteInv, StagedInv, UNCHANGED <<disk, writer>>,
           \A t \in Thread : calls[t].pc = "commit" => calls'[t] = calls[t]
    PROVE  StagedInv'
<1>1. \A t \in writer.by : calls'[t] = calls[t]
  BY DEF CompleteInv, WriterInv
<1>2. \A t \in writer.by : EpochOf(t)' = EpochOf(t) /\ Saving(t)' = Saving(t)
  BY <1>1 DEF EpochOf, Saving
<1>3. writer' = writer /\ disk' = disk
  OBVIOUS
<1> QED
  BY <1>1, <1>2, <1>3 DEF StagedInv, Stored

\* A step of a thread that takes no epoch and opens no write transaction.
LEMMA ThreadFrame ==
    ASSUME CompleteInv, EpochInv, UNCHANGED <<disk, runs, writer, last_epoch>>, NEW t \in Thread,
           calls[t].pc # "commit", \A u \in Thread \ {t} : calls'[u] = calls[u],
           Making(t)' => Making(t) /\ EpochOf(t)' = EpochOf(t) /\ calls'[t].record.run = calls[t].record.run
    PROVE  EpochInv'
<1>1. \A u \in Thread : Making(u)' => Making(u) /\ EpochOf(u)' = EpochOf(u) /\ calls'[u].record.run = calls[u].record.run
  BY DEF Making, EpochOf
<1>2. last_epoch' \in Nat /\ last_epoch <= last_epoch'
  BY DEF CompleteInv, TypeOK
<1>3. RecordInv' /\ DiskInv'
  BY <1>1, <1>2, RecordFrame DEF EpochInv
<1>4. StagedInv'
  BY StagedFrame DEF EpochInv
<1> QED
  BY <1>3, <1>4 DEF EpochInv

\* The steps of create_checkpoint after the epoch, and those before a checkpoint is due.
LEMMA PlainStepKeepsEpochs ==
    ASSUME CompleteInv, EpochInv, NEW t \in Thread,
           Insert(t) \/ on_transaction(t) \/ ResetCount(t) \/ ReadDag(t)
    PROVE  EpochInv'
<1>1. TypeOK /\ calls[t].record \in Record /\ counted \in Nat /\ txs \in Nat
  BY DEF CompleteInv, TypeOK
<1>2. UNCHANGED <<disk, runs, writer, last_epoch>>
  BY DEF Insert, on_transaction, ResetCount, ReadDag, manager
<1>3. CASE Insert(t) \/ on_transaction(t)
  <2>1. calls[t].pc \in {"idle", "notify"} /\ \E pc \in {"idle", "notify", "epoch"} : Goto(t, pc)
    BY <1>3 DEF Insert, on_transaction
  <2>2. PICK pc \in {"idle", "notify", "epoch"} : Goto(t, pc)
    BY <2>1
  <2>3. calls'[t].pc = pc /\ \A u \in Thread \ {t} : calls'[u] = calls[u]
    BY <1>1, <2>2, GotoEffect DEF Pc
  <2>4. ~ Making(t)'
    BY <2>3 DEF Making
  <2> QED
    BY <1>2, <2>1, <2>3, <2>4, ThreadFrame
<1>4. CASE ResetCount(t) \/ ReadDag(t)
  <2>1. \E pc \in {"reset", "state", "merkle", "len"}, field \in {"covers", "state", "merkle", "len"}, v \in Nat :
            Fill(t, pc, field, v)
    BY <1>1, <1>4 DEF ResetCount, ReadDag
  <2>2. PICK pc \in {"reset", "state", "merkle", "len"}, field \in {"covers", "state", "merkle", "len"}, v \in Nat :
            Fill(t, pc, field, v)
    BY <2>1
  <2>3. /\ calls[t].pc = pc /\ calls'[t].record = [calls[t].record EXCEPT ![field] = v]
        /\ \A u \in Thread \ {t} : calls'[u] = calls[u]
    BY <1>1, <2>2, FillEffect
  <2>4. calls'[t].record.epoch = calls[t].record.epoch /\ calls'[t].record.run = calls[t].record.run
    BY <1>1, <2>3 DEF Record
  <2>5. Making(t) /\ calls[t].pc # "commit" /\ EpochOf(t)' = EpochOf(t)
    BY <2>3, <2>4 DEF Making, EpochOf
  <2> QED
    BY <1>2, <2>3, <2>4, <2>5, ThreadFrame
<1> QED
  BY <1>3, <1>4

\* The epoch a thread takes is one that no checkpoint of this run has.
LEMMA TakeEpochKeepsEpochs == ASSUME CompleteInv, EpochInv, NEW t \in Thread, TakeEpoch(t) PROVE EpochInv'
<1> DEFINE r == [NoRecord EXCEPT !.run = runs, !.epoch = last_epoch + 1]
<1>1. /\ calls[t].pc = "epoch" /\ last_epoch' = last_epoch + 1
      /\ calls' = [calls EXCEPT ![t].pc = "reset", ![t].record = r]
      /\ UNCHANGED <<writer, disk, runs>>
  BY AfterFacts DEF TakeEpoch
<1>2. runs \in Nat /\ last_epoch \in Nat /\ last_epoch + 1 \in Nat
  BY DEF CompleteInv, TypeOK
<1>3. r.run = runs /\ r.epoch = last_epoch + 1
  <2>1. NoRecord \in Record
    BY DEF NoRecord, Record
  <2> QED
    BY <1>2, <2>1 DEF Record
<1> HIDE DEF r
<1>4. calls'[t].record = r /\ \A u \in Thread \ {t} : calls'[u] = calls[u]
  BY <1>1 DEF CompleteInv, TypeOK
<1>5. EpochOf(t)' = last_epoch + 1 /\ calls'[t].record.run = runs
  BY <1>3, <1>4 DEF EpochOf
<1>6. \A u \in Thread \ {t} : (Making(u)' <=> Making(u)) /\ EpochOf(u)' = EpochOf(u) /\ EpochOf(u) \in Nat
  BY <1>4 DEF Making, EpochOf, CompleteInv, TypeOK, Record
<1>7. RecordInv'
  <2>1. ASSUME NEW u \in Thread, Making(u)' PROVE calls'[u].record.run = runs' /\ EpochOf(u)' <= last_epoch'
    <3>1. CASE u = t
      BY <1>1, <1>2, <1>5, <3>1
    <3>2. CASE u # t
      <4>1. Making(u) /\ EpochOf(u)' = EpochOf(u) /\ EpochOf(u) \in Nat /\ calls'[u] = calls[u]
        BY <1>4, <1>6, <2>1, <3>2
      <4>2. calls[u].record.run = runs /\ EpochOf(u) <= last_epoch
        BY <4>1 DEF EpochInv, RecordInv
      <4>3. EpochOf(u) <= last_epoch + 1
        BY <1>2, <4>1, <4>2
      <4> QED
        BY <1>1, <4>1, <4>2, <4>3
    <3> QED
      BY <3>1, <3>2
  <2>2. ASSUME NEW u \in Thread, u # t, Making(u) PROVE EpochOf(u) # last_epoch + 1
    BY <1>2, <1>6, <2>2 DEF EpochInv, RecordInv
  <2>3. ASSUME NEW u \in Thread, NEW w \in Thread, Making(u)', Making(w)', u # w PROVE EpochOf(u)' # EpochOf(w)'
    <3>1. CASE u = t
      BY <1>5, <1>6, <2>2, <2>3, <3>1
    <3>2. CASE w = t
      BY <1>5, <1>6, <2>2, <2>3, <3>2
    <3>3. CASE u # t /\ w # t
      BY <1>6, <2>3, <3>3 DEF EpochInv, RecordInv
    <3> QED
      BY <3>1, <3>2, <3>3
  <2> QED
    BY <2>1, <2>3 DEF RecordInv
<1>8. DiskInv'
  <2>1. ASSUME NEW e \in DOMAIN Stored(disk), Stored(disk)[e].run = runs
        PROVE  e <= last_epoch + 1 /\ \A u \in Thread : Making(u)' => EpochOf(u)' # e
    <3>1. e \in Nat /\ e <= last_epoch /\ \A u \in Thread : Making(u) => EpochOf(u) # e
      BY <2>1 DEF EpochInv, DiskInv
    <3>2. e # last_epoch + 1 /\ e <= last_epoch + 1
      BY <1>2, <3>1
    <3> QED
      BY <1>5, <1>6, <3>1, <3>2
  <2>2. disk' = disk /\ runs' = runs
    BY <1>1
  <2> QED
    BY <1>1, <2>1, <2>2 DEF EpochInv, DiskInv, Stored
<1>9. StagedInv'
  BY <1>1, <1>4, StagedFrame DEF EpochInv
<1> QED
  BY <1>7, <1>8, <1>9 DEF EpochInv

\* A write transaction starts with what is stored.
LEMMA BeginWriteKeepsEpochs ==
    ASSUME CompleteInv, EpochInv, NEW by, NEW puts, BeginWrite(by, puts), UNCHANGED disk,
           puts \in Seq(Elsewhere) \/ \E t \in by : puts \in Seq({Saving(t)'})
    PROVE  StagedInv'
<1>1. writer' = [by |-> by, left |-> puts, staged |-> disk]
  BY DEF BeginWrite
<1>2. DOMAIN writer' = {"by", "left", "staged"} /\ writer'.by = by /\ writer'.left = puts /\ writer'.staged = disk /\ disk' = disk
  BY <1>1
<1>3. "checkpoints" \in DOMAIN disk
  BY DEF EpochInv, DiskInv
<1> QED
  BY <1>2, <1>3 DEF StagedInv, Stored

\* save_checkpoint opens a write transaction for the thread's own record, or fails.
LEMMA SaveKeepsEpochs == ASSUME CompleteInv, EpochInv, NEW t \in Thread, save_checkpoint(t) PROVE EpochInv'
<1>1. calls[t].pc = "save" /\ UNCHANGED <<last_epoch, disk, runs>>
  BY DEF save_checkpoint, manager
<1>2. TypeOK
  BY DEF CompleteInv
<1>3. CASE BeginWrite({t}, <<Saving(t)>>) /\ Goto(t, "commit")
  <2>1. calls'[t].record = calls[t].record /\ \A u \in Thread \ {t} : calls'[u] = calls[u]
    BY <1>2, <1>3, GotoEffect DEF Pc
  <2>2. EpochOf(t)' = EpochOf(t) /\ Saving(t)' = Saving(t)
    BY <2>1 DEF EpochOf, Saving
  <2>3. \A u \in Thread : Making(u)' => Making(u) /\ EpochOf(u)' = EpochOf(u) /\ calls'[u].record.run = calls[u].record.run
    BY <1>1, <2>1 DEF Making, EpochOf
  <2>4. last_epoch' \in Nat /\ last_epoch <= last_epoch'
    BY <1>1, <1>2 DEF TypeOK
  <2>5. RecordInv' /\ DiskInv'
    BY <1>1, <2>3, <2>4, RecordFrame DEF EpochInv
  <2>6. <<Saving(t)>> \in Seq({Saving(t)'})
    BY <2>2
  <2>7. StagedInv'
    BY <1>1, <1>3, <2>6, BeginWriteKeepsEpochs
  <2> QED
    BY <2>5, <2>7 DEF EpochInv
<1>4. CASE UNCHANGED writer /\ Goto(t, "idle")
  <2>1. calls'[t].pc = "idle" /\ \A u \in Thread \ {t} : calls'[u] = calls[u]
    BY <1>2, <1>4, GotoEffect DEF Pc
  <2>2. ~ Making(t)'
    BY <2>1 DEF Making
  <2> QED
    BY <1>1, <1>4, <2>1, <2>2, ThreadFrame
<1> QED
  BY <1>3, <1>4 DEF save_checkpoint, Saving, EpochOf

\* The other callers' writes.
LEMMA PutKeepsEpochs == ASSUME WritesElsewhere, CompleteInv, EpochInv, NEW W \in Writes, put(W) PROVE EpochInv'
<1>1. BeginWrite({}, W) /\ UNCHANGED <<last_epoch, calls, disk, runs>>
  BY DEF put, manager
<1>2. last_epoch' \in Nat /\ last_epoch <= last_epoch'
  BY <1>1 DEF CompleteInv, TypeOK
<1>3. RecordInv' /\ DiskInv'
  BY <1>1, <1>2, RecordFrame DEF EpochInv, Making, EpochOf
<1>4. W \in Seq(Elsewhere)
  BY DEF WritesElsewhere
<1>5. StagedInv'
  BY <1>1, <1>4, BeginWriteKeepsEpochs
<1> QED
  BY <1>3, <1>5 DEF EpochInv

\* An insertion changes the staged checkpoints by the one being saved at most.
LEMMA InsertEntryKeepsEpochs == ASSUME WritesElsewhere, CompleteInv, EpochInv, InsertEntry PROVE EpochInv'
<1> DEFINE p == Head(writer.left)
           cp == Stored(writer.staged)
<1>1. /\ writer # NoWriter /\ writer.left # <<>>
      /\ writer' = [writer EXCEPT !.left = Tail(@), !.staged = Apply(@, p)]
      /\ UNCHANGED <<last_epoch, calls, disk, runs>>
  BY DEF InsertEntry, manager
<1>2. last_epoch' \in Nat /\ last_epoch <= last_epoch'
  BY <1>1 DEF CompleteInv, TypeOK
<1>3. RecordInv' /\ DiskInv'
  BY <1>1, <1>2, RecordFrame DEF EpochInv, Making, EpochOf
<1>4. /\ DOMAIN writer = {"by", "left", "staged"} /\ "checkpoints" \in DOMAIN writer.staged
      /\ writer.left \in Seq(Elsewhere) \/ \E t \in writer.by : writer.left \in Seq({Saving(t)})
      /\ DOMAIN Stored(disk) \subseteq DOMAIN cp
      /\ \A e \in DOMAIN cp :
               \/ e \in DOMAIN Stored(disk) /\ cp[e] = Stored(disk)[e]
               \/ \E t \in writer.by : e = EpochOf(t) /\ cp[e] = calls[t].record
  BY <1>1 DEF EpochInv, StagedInv
<1>5. /\ DOMAIN writer' = {"by", "left", "staged"} /\ writer'.by = writer.by
      /\ writer'.left = Tail(writer.left) /\ writer'.staged = Apply(writer.staged, p)
  BY <1>1, <1>4
<1>6. /\ \A t \in writer.by : EpochOf(t)' = EpochOf(t) /\ Saving(t)' = Saving(t) /\ calls'[t] = calls[t]
      /\ disk' = disk
  BY <1>1 DEF EpochOf, Saving
<1>7. DOMAIN writer'.staged = DOMAIN writer.staged
  BY <1>5 DEF Apply
<1>8. CASE writer.left \in Seq(Elsewhere)
  <2>1. p \in Elsewhere /\ Tail(writer.left) \in Seq(Elsewhere)
    BY <1>1, <1>8
  <2>2. p.table # "checkpoints"
    BY <2>1 DEF WritesElsewhere
  <2>3. Stored(writer.staged)' = cp
    BY <1>4, <1>5, <2>2 DEF Apply, Stored
  <2>4. StagedInv'
    BY <1>4, <1>5, <1>6, <1>7, <2>1, <2>3 DEF StagedInv
  <2> QED
    BY <1>3, <2>4 DEF EpochInv
<1>9. ASSUME NEW t \in writer.by, writer.left \in Seq({Saving(t)}) PROVE EpochInv'
  <2>1. p = Saving(t) /\ Tail(writer.left) \in Seq({Saving(t)})
    BY <1>1, <1>9
  <2>2. p.table = "checkpoints" /\ p.key = EpochOf(t) /\ p.value = calls[t].record
    BY <2>1 DEF Saving
  <2> HIDE DEF p
  <2>3. Stored(writer.staged)' =
            [k \in DOMAIN cp \cup {EpochOf(t)} |-> IF k = EpochOf(t) THEN calls[t].record ELSE cp[k]]
    BY <1>4, <1>5, <2>2 DEF Apply, Stored
  <2> DEFINE new == Stored(writer.staged)'
  <2>4. /\ DOMAIN new = DOMAIN cp \cup {EpochOf(t)}
        /\ \A k \in DOMAIN new : new[k] = IF k = EpochOf(t) THEN calls[t].record ELSE cp[k]
    BY <2>3
  <2> HIDE DEF new, cp
  <2>5. \A e \in DOMAIN new :
               \/ e \in DOMAIN Stored(disk) /\ new[e] = Stored(disk)[e]
               \/ \E u \in writer.by : e = EpochOf(u) /\ new[e] = calls[u].record
    BY <1>4, <1>9, <2>4
  <2>6. DOMAIN Stored(disk) \subseteq DOMAIN new
    BY <1>4, <2>4
  <2>7. Stored(disk)' = Stored(disk)
    BY <1>6 DEF Stored
  <2>8. Stored(writer.staged)' = new
    BY DEF new
  <2>9. \A e \in DOMAIN new :
               \/ e \in DOMAIN Stored(disk)' /\ new[e] = Stored(disk)'[e]
               \/ \E u \in writer'.by : e = EpochOf(u)' /\ new[e] = calls'[u].record
    BY <1>5, <1>6, <2>5, <2>7
  <2>10. \E u \in writer'.by : writer'.left \in Seq({Saving(u)'})
    BY <1>5, <1>6, <1>9, <2>1
  <2>11. "checkpoints" \in DOMAIN writer'.staged /\ DOMAIN Stored(disk)' \subseteq DOMAIN new
    BY <1>4, <1>7, <2>6, <2>7
  <2>12. StagedInv'
    BY <1>5, <2>8, <2>9, <2>10, <2>11 DEF StagedInv
  <2> QED
    BY <1>3, <2>12 DEF EpochInv
<1> QED
  BY <1>4, <1>8, <1>9

\* The calls that return when a write transaction ends, with their epochs.
LEMMA ReturnKeepsRecords ==
    ASSUME CompleteInv, RecordInv, Return, UNCHANGED <<last_epoch, runs>>
    PROVE  /\ \A t \in writer.by : ~ Making(t)'
           /\ \A t \in Thread : Making(t)' => Making(t) /\ EpochOf(t)' = EpochOf(t) /\ calls'[t].record.run = calls[t].record.run
<1>1. Idle.pc = "idle"
  BY DEF Idle
<1>2. \A t \in Thread : calls'[t] = IF t \in writer.by THEN Idle ELSE calls[t]
  BY DEF Return
<1>3. writer.by \subseteq Thread
  BY DEF CompleteInv, WriterInv
<1> QED
  BY <1>1, <1>2, <1>3 DEF Making, EpochOf

\* A commit stores the checkpoint of the thread whose call returns, and no other.
LEMMA CommitKeepsEpochs == ASSUME CompleteInv, EpochInv, Commit PROVE EpochInv' /\ ReplacesEarlierRun
<1>1. /\ writer # NoWriter /\ disk' = writer.staged /\ writer' = NoWriter /\ Return
      /\ UNCHANGED <<last_epoch, runs>>
  BY DEF Commit, manager
<1>2. last_epoch \in Nat /\ runs \in Nat /\ \A t \in Thread : calls[t].record \in Record
  BY DEF CompleteInv, TypeOK
<1>3. /\ \A t \in writer.by : ~ Making(t)'
      /\ \A t \in Thread : Making(t)' => Making(t) /\ EpochOf(t)' = EpochOf(t) /\ calls'[t].record.run = calls[t].record.run
  BY <1>1, ReturnKeepsRecords DEF EpochInv
<1>4. RecordInv'
  BY <1>1, <1>3 DEF EpochInv, RecordInv
<1>5. ASSUME NEW t \in writer.by
      PROVE  /\ t \in Thread /\ Making(t) /\ calls[t].record.run = runs
             /\ EpochOf(t) \in Nat /\ EpochOf(t) <= last_epoch
  <2>1. t \in Thread /\ Making(t)
    BY <1>5 DEF CompleteInv, WriterInv, Making
  <2> QED
    BY <1>2, <2>1 DEF EpochInv, RecordInv, EpochOf, Record
<1> DEFINE cp == Stored(writer.staged)
<1>6. /\ "checkpoints" \in DOMAIN writer.staged /\ DOMAIN Stored(disk) \subseteq DOMAIN cp
      /\ \A e \in DOMAIN cp :
               \/ e \in DOMAIN Stored(disk) /\ cp[e] = Stored(disk)[e]
               \/ \E t \in writer.by : e = EpochOf(t) /\ cp[e] = calls[t].record
  BY <1>1 DEF EpochInv, StagedInv
<1>7. Stored(disk)' = cp
  BY <1>1 DEF Stored
<1> HIDE DEF cp
<1>8. ASSUME NEW e \in DOMAIN cp
      PROVE  /\ e \in Nat /\ cp[e].run \in Nat /\ cp[e].run <= runs
             /\ cp[e].run = runs => e <= last_epoch /\ \A t \in Thread : Making(t)' => EpochOf(t)' # e
  <2>1. CASE e \in DOMAIN Stored(disk) /\ cp[e] = Stored(disk)[e]
    BY <1>3, <2>1 DEF EpochInv, DiskInv
  <2>2. ASSUME NEW t \in writer.by, e = EpochOf(t), cp[e] = calls[t].record
        PROVE  /\ e \in Nat /\ cp[e].run \in Nat /\ cp[e].run <= runs
               /\ e <= last_epoch /\ \A u \in Thread : Making(u)' => EpochOf(u)' # e
    <3>1. \A u \in Thread : Making(u)' => EpochOf(u)' # e
      BY <1>3, <1>5, <2>2 DEF EpochInv, RecordInv
    <3> QED
      BY <1>2, <1>5, <2>2, <3>1
  <2> QED
    BY <1>6, <1>8, <2>1, <2>2
<1>9. DiskInv'
  BY <1>1, <1>6, <1>7, <1>8 DEF DiskInv
<1>10. StagedInv'
  BY <1>1 DEF StagedInv
<1>11. ASSUME NEW e \in DOMAIN Stored(disk) PROVE cp[e] = Stored(disk)[e] \/ Stored(disk)[e].run < cp[e].run
  <2>1. ASSUME NEW t \in writer.by, e = EpochOf(t), cp[e] = calls[t].record PROVE Stored(disk)[e].run < cp[e].run
    <3>1. Stored(disk)[e].run # runs /\ Stored(disk)[e].run \in Nat /\ Stored(disk)[e].run <= runs
      BY <1>5, <2>1 DEF EpochInv, DiskInv
    <3> QED
      BY <1>2, <1>5, <2>1, <3>1
  <2> QED
    BY <1>6, <1>11, <2>1
<1>12. ReplacesEarlierRun
  BY <1>7, <1>11 DEF ReplacesEarlierRun, Stored
<1> QED
  BY <1>4, <1>9, <1>10, <1>12 DEF EpochInv

\* A write transaction that fails leaves the stored checkpoints.
LEMMA AbortKeepsEpochs == ASSUME CompleteInv, EpochInv, Abort PROVE EpochInv'
<1>1. writer' = NoWriter /\ Return /\ UNCHANGED <<last_epoch, runs, disk>>
  BY DEF Abort, manager
<1>2. last_epoch' \in Nat /\ last_epoch <= last_epoch'
  BY <1>1 DEF CompleteInv, TypeOK
<1>3. RecordInv' /\ DiskInv'
  BY <1>1, <1>2, ReturnKeepsRecords, RecordFrame DEF EpochInv
<1> QED
  BY <1>1, <1>3 DEF EpochInv, StagedInv

\* A new run starts its epochs again: everything stored is of an earlier one.
LEMMA RestartKeepsEpochs == ASSUME CompleteInv, EpochInv, Restart PROVE EpochInv'
<1>1. /\ runs' = runs + 1 /\ calls' = [t \in Thread |-> Idle] /\ writer' = NoWriter /\ UNCHANGED disk
  BY DEF Restart
<1>2. \A t \in Thread : ~ Making(t)'
  BY <1>1 DEF Making, Idle
<1>3. runs \in Nat
  BY DEF CompleteInv, TypeOK
<1>4. RecordInv' /\ StagedInv'
  BY <1>1, <1>2 DEF RecordInv, StagedInv
<1>5. ASSUME NEW e \in DOMAIN Stored(disk)
      PROVE  e \in Nat /\ Stored(disk)[e].run \in Nat /\ Stored(disk)[e].run <= runs + 1 /\ Stored(disk)[e].run # runs + 1
  BY <1>3 DEF EpochInv, DiskInv
<1>6. "checkpoints" \in DOMAIN disk /\ disk' = disk
  BY <1>1 DEF EpochInv, DiskInv
<1>7. DiskInv'
  BY <1>1, <1>5, <1>6 DEF DiskInv, Stored
<1> QED
  BY <1>4, <1>7 DEF EpochInv

\* Nothing is stored in the first state.
LEMMA InitEpochs == ASSUME Init PROVE EpochInv
<1>1. \A t \in Thread : ~ Making(t)
  BY DEF Init, Making, Idle
<1>2. "checkpoints" \in DOMAIN disk /\ DOMAIN Stored(disk) = {}
  BY DEF Init, Table, Stored
<1> QED
  BY <1>1, <1>2 DEF Init, EpochInv, RecordInv, DiskInv, StagedInv

\* Every step keeps the invariant, and only a commit changes what is stored.
LEMMA NextEpochs ==
    ASSUME WritesElsewhere, CompleteInv, EpochInv, [Next]_vars PROVE EpochInv' /\ ReplacesEarlierRun
<1>1. ASSUME UNCHANGED disk PROVE ReplacesEarlierRun
  BY <1>1 DEF ReplacesEarlierRun
<1>2. CASE UNCHANGED vars
  <2>1. UNCHANGED <<disk, runs, writer, last_epoch, calls>>
    BY <1>2 DEF vars
  <2>2. last_epoch' \in Nat /\ last_epoch <= last_epoch'
    BY <2>1 DEF CompleteInv, TypeOK
  <2>3. RecordInv' /\ DiskInv'
    BY <2>1, <2>2, RecordFrame DEF EpochInv, Making, EpochOf
  <2>4. StagedInv'
    BY <2>1, StagedFrame DEF EpochInv
  <2> QED
    BY <1>1, <2>1, <2>3, <2>4 DEF EpochInv
<1>3. ASSUME NEW t \in Thread, Insert(t) \/ on_transaction(t) \/ ResetCount(t) \/ ReadDag(t)
      PROVE  EpochInv' /\ UNCHANGED disk
  BY <1>3, PlainStepKeepsEpochs DEF Insert, on_transaction, ResetCount, ReadDag
<1>4. ASSUME NEW t \in Thread, TakeEpoch(t) \/ save_checkpoint(t) PROVE EpochInv' /\ UNCHANGED disk
  BY <1>4, TakeEpochKeepsEpochs, SaveKeepsEpochs DEF TakeEpoch, save_checkpoint
<1>5. ASSUME NEW W \in Writes, put(W) PROVE EpochInv' /\ UNCHANGED disk
  BY <1>5, PutKeepsEpochs DEF put
<1>6. ASSUME InsertEntry \/ Abort \/ Restart PROVE EpochInv' /\ UNCHANGED disk
  BY <1>6, InsertEntryKeepsEpochs, AbortKeepsEpochs, RestartKeepsEpochs DEF InsertEntry, Abort, Restart
<1> QED
  BY <1>1, <1>2, <1>3, <1>4, <1>5, <1>6, CommitKeepsEpochs DEF Next

(***************************************************************************)
(* Two threads never save under one epoch: what is stored under an epoch   *)
(* is replaced only by a checkpoint of a later run of the program, for any *)
(* threads, any crashes and any writes of other callers to the other       *)
(* tables (checkpoint.rs:28-34, 49; storage.rs:145-153).                   *)
(***************************************************************************)
THEOREM EpochSavedOnce == tx_interval \in Nat \ {0} /\ WritesElsewhere => (Spec => EpochIsSavedOnce)
<1> SUFFICES ASSUME tx_interval \in Nat \ {0}, WritesElsewhere PROVE Spec => EpochIsSavedOnce
  OBVIOUS
<1>1. Init => CompleteInv /\ EpochInv
  BY InitComplete, InitEpochs
<1>2. CompleteInv /\ EpochInv /\ [Next]_vars => CompleteInv' /\ EpochInv'
  BY NextComplete, NextEpochs
<1>3. CompleteInv /\ EpochInv /\ [Next]_vars => [ReplacesEarlierRun]_vars
  BY NextEpochs
<1> QED
  BY <1>1, <1>2, <1>3, PTL DEF Spec, EpochIsSavedOnce

-----------------------------------------------------------------------------
(***************************************************************************)
(* All of a batch or nothing.  An entry of a batch belongs to that batch   *)
(* alone (put_transaction_batch writes each transaction under its hash),   *)
(* and is not what Get answers for an entry that is missing.               *)
(***************************************************************************)
Missing(table) == IF table \in {"balances", "nonces"} THEN 0 ELSE "None"

BatchesAreDistinct ==
    /\ \A p \in Elsewhere : p.table \in Table /\ p.value # Missing(p.table)
    /\ \A V, W \in Writes : \A i \in DOMAIN V, j \in DOMAIN W :
           V[i].table = W[j].table /\ V[i].key = W[j].key => V = W /\ i = j

Holds(tables, p) == p.key \in DOMAIN tables[p.table] /\ tables[p.table][p.key] = p.value
Lacks(tables, p) == p.key \notin DOMAIN tables[p.table]

Whole(tables, W) == (\A i \in DOMAIN W : Holds(tables, W[i])) \/ (\A i \in DOMAIN W : Lacks(tables, W[i]))

\* The open write transaction has inserted the first n entries of W, and no other batch is in it in part.
HalfWay(W, n) ==
    /\ Len(writer.left) = Len(W) - n /\ \A i \in 1 .. Len(writer.left) : writer.left[i] = W[n + i]
    /\ \A i \in 1 .. n : Holds(writer.staged, W[i])
    /\ \A i \in n + 1 .. Len(W) : Lacks(writer.staged, W[i])
    /\ \A V \in Writes \ {W} : Whole(writer.staged, V)

\* It saves a checkpoint, which is in no batch.
SavesOnly ==
    /\ \A i \in 1 .. Len(writer.left) : writer.left[i].table = "checkpoints"
    /\ \A V \in Writes : Whole(writer.staged, V)

BatchInv ==
    /\ DOMAIN disk = Table /\ \A W \in Writes : Whole(disk, W)
    /\ writer # NoWriter =>
           /\ DOMAIN writer = {"by", "left", "staged"} /\ DOMAIN writer.staged = Table
           /\ \E S : writer.left \in Seq(S)
           /\ SavesOnly \/ \E W \in Writes : \E n \in 0 .. Len(W) : HalfWay(W, n)

\* The entries of a batch are entries that other callers write.
LEMMA BatchEntry ==
    ASSUME WritesElsewhere, BatchesAreDistinct, NEW W \in Writes
    PROVE  /\ W \in Seq(Elsewhere) /\ Len(W) \in Nat /\ DOMAIN W = 1 .. Len(W)
           /\ \A i \in 1 .. Len(W) : /\ W[i].table \in Table \ {"checkpoints"}
                                     /\ W[i].value # Missing(W[i].table)
<1>1. W \in Seq(Elsewhere)
  BY DEF WritesElsewhere
<1>2. Len(W) \in Nat /\ DOMAIN W = 1 .. Len(W) /\ \A i \in 1 .. Len(W) : W[i] \in Elsewhere
  BY <1>1
<1> QED
  BY <1>1, <1>2 DEF WritesElsewhere, BatchesAreDistinct

\* An insertion stores its entry and leaves every other one alone.
LEMMA ApplyFacts ==
    ASSUME NEW tables, NEW p, p.table \in DOMAIN tables
    PROVE  /\ DOMAIN Apply(tables, p) = DOMAIN tables
           /\ Holds(Apply(tables, p), p)
           /\ \A q : q.table \in DOMAIN tables /\ (q.table # p.table \/ q.key # p.key) =>
                  /\ Holds(Apply(tables, p), q) <=> Holds(tables, q)
                  /\ Lacks(Apply(tables, p), q) <=> Lacks(tables, q)
<1> DEFINE old == tables[p.table]
           new == [k \in DOMAIN old \cup {p.key} |-> IF k = p.key THEN p.value ELSE old[k]]
<1>1. /\ DOMAIN Apply(tables, p) = DOMAIN tables /\ Apply(tables, p)[p.table] = new
      /\ \A t \in DOMAIN tables : t # p.table => Apply(tables, p)[t] = tables[t]
  BY DEF Apply
<1>2. DOMAIN new = DOMAIN old \cup {p.key} /\ new[p.key] = p.value
      /\ \A k \in DOMAIN old : k # p.key => new[k] = old[k]
  OBVIOUS
<1> HIDE DEF new
<1>3. Holds(Apply(tables, p), p)
  BY <1>1, <1>2 DEF Holds
<1>4. ASSUME NEW q, q.table \in DOMAIN tables, q.table # p.table \/ q.key # p.key
      PROVE  /\ Holds(Apply(tables, p), q) <=> Holds(tables, q)
             /\ Lacks(Apply(tables, p), q) <=> Lacks(tables, q)
  <2>1. CASE q.table # p.table
    BY <1>1, <1>4, <2>1 DEF Holds, Lacks
  <2>2. CASE q.table = p.table /\ q.key # p.key
    BY <1>1, <1>2, <2>2 DEF Holds, Lacks
  <2> QED
    BY <1>4, <2>1, <2>2
<1> QED
  BY <1>1, <1>3, <1>4

\* So it leaves a batch alone that the entry is not in.
LEMMA ApplyKeepsWhole ==
    ASSUME NEW tables, NEW p, NEW V, p.table \in DOMAIN tables, Whole(tables, V),
           \A i \in DOMAIN V : V[i].table \in DOMAIN tables /\ (V[i].table # p.table \/ V[i].key # p.key)
    PROVE  Whole(Apply(tables, p), V)
<1>1. \A i \in DOMAIN V : /\ Holds(Apply(tables, p), V[i]) <=> Holds(tables, V[i])
                          /\ Lacks(Apply(tables, p), V[i]) <=> Lacks(tables, V[i])
  BY ApplyFacts
<1> QED
  BY <1>1 DEF Whole

\* A batch begins with all its entries to come.
LEMMA PutKeepsBatches ==
    ASSUME WritesElsewhere, BatchesAreDistinct, BatchInv, NEW W \in Writes, put(W) PROVE BatchInv'
<1>1. /\ writer' = [by |-> {}, left |-> W, staged |-> disk] /\ disk' = disk
      /\ \A i \in DOMAIN W : Lacks(disk, W[i])
  BY DEF put, BeginWrite, Lacks
<1>2. DOMAIN writer' = {"by", "left", "staged"} /\ writer'.left = W /\ writer'.staged = disk
      /\ W \in Seq(Elsewhere)
  BY <1>1, BatchEntry
<1>3. Len(W) \in Nat /\ DOMAIN W = 1 .. Len(W)
  BY BatchEntry
<1>4. HalfWay(W, 0)'
  BY <1>1, <1>2, <1>3 DEF HalfWay, BatchInv
<1>5. 0 \in 0 .. Len(W)
  BY <1>3
<1> QED
  BY <1>1, <1>2, <1>4, <1>5 DEF BatchInv

\* A checkpoint is saved in a write transaction of its own.
LEMMA SaveKeepsBatches ==
    ASSUME BatchInv, NEW t \in Thread, save_checkpoint(t) PROVE BatchInv'
<1> DEFINE p == [table |-> "checkpoints", key |-> calls[t].record.epoch, value |-> calls[t].record]
<1>1. disk' = disk /\ (writer' = [by |-> {t}, left |-> <<p>>, staged |-> disk] \/ writer' = writer)
  BY DEF save_checkpoint, BeginWrite
<1>2. CASE writer' = writer
  BY <1>1, <1>2 DEF BatchInv, SavesOnly, HalfWay
<1>3. CASE writer' = [by |-> {t}, left |-> <<p>>, staged |-> disk]
  <2>1. p.table = "checkpoints"
    OBVIOUS
  <2> HIDE DEF p
  <2>2. DOMAIN writer' = {"by", "left", "staged"} /\ writer'.left = <<p>> /\ writer'.staged = disk
    BY <1>3
  <2>3. SavesOnly'
    BY <1>1, <2>1, <2>2 DEF SavesOnly, BatchInv
  <2>4. <<p>> \in Seq({p})
    OBVIOUS
  <2> QED
    BY <1>1, <2>2, <2>3, <2>4 DEF BatchInv
<1> QED
  BY <1>1, <1>2, <1>3

\* An insertion brings the batch it belongs to one entry further.
LEMMA InsertEntryKeepsBatches ==
    ASSUME WritesElsewhere, BatchesAreDistinct, BatchInv, InsertEntry PROVE BatchInv'
<1> DEFINE p == Head(writer.left)
           old == writer.staged
           new == Apply(old, p)
<1>1. /\ writer # NoWriter /\ writer.left # <<>> /\ disk' = disk
      /\ writer' = [writer EXCEPT !.left = Tail(@), !.staged = Apply(@, p)]
  BY DEF InsertEntry
<1>2. /\ DOMAIN disk = Table /\ \A W \in Writes : Whole(disk, W)
      /\ DOMAIN writer = {"by", "left", "staged"} /\ DOMAIN writer.staged = Table
      /\ \E S : writer.left \in Seq(S)
      /\ SavesOnly \/ \E W \in Writes : \E n \in 0 .. Len(W) : HalfWay(W, n)
  BY <1>1 DEF BatchInv
<1>3. DOMAIN writer' = {"by", "left", "staged"} /\ writer'.left = Tail(writer.left) /\ writer'.staged = new
  BY <1>1, <1>2
<1>4. PICK S : writer.left \in Seq(S)
  BY <1>2
<1>5. /\ Len(writer.left) \in Nat \ {0} /\ p = writer.left[1] /\ Tail(writer.left) \in Seq(S)
      /\ Len(Tail(writer.left)) = Len(writer.left) - 1
      /\ \A i \in 1 .. Len(writer.left) - 1 : Tail(writer.left)[i] = writer.left[i + 1]
  BY <1>1, <1>4
<1>6. CASE SavesOnly
  <2>1. p.table = "checkpoints" /\ "checkpoints" \in Table
    BY <1>5, <1>6 DEF SavesOnly, Table
  <2>2. ASSUME NEW V \in Writes PROVE Whole(new, V)
    <3>1. \A i \in DOMAIN V : V[i].table \in DOMAIN old /\ (V[i].table # p.table \/ V[i].key # p.key)
      BY <1>2, <2>1, BatchEntry
    <3>2. Whole(old, V) /\ p.table \in DOMAIN old
      BY <1>2, <1>6, <2>1 DEF SavesOnly
    <3> HIDE DEF p, old
    <3> QED
      BY <3>1, <3>2, ApplyKeepsWhole
  <2>3. DOMAIN new = Table
    BY <1>2, <2>1, ApplyFacts
  <2> HIDE DEF p, old, new
  <2>4. SavesOnly'
    BY <1>3, <1>5, <1>6, <2>2 DEF SavesOnly
  <2> QED
    BY <1>1, <1>2, <1>3, <1>5, <2>3, <2>4 DEF BatchInv
<1>7. ASSUME NEW W \in Writes, NEW n \in 0 .. Len(W), HalfWay(W, n) PROVE BatchInv'
  <2>1. Len(W) \in Nat /\ DOMAIN W = 1 .. Len(W) /\ n \in Nat /\ n <= Len(W)
    BY BatchEntry
  <2>2. Len(writer.left) = Len(W) - n /\ \A i \in 1 .. Len(writer.left) : writer.left[i] = W[n + i]
    BY <1>7 DEF HalfWay
  <2>3. n + 1 \in 1 .. Len(W) /\ n + 1 \in 0 .. Len(W) /\ p = W[n + 1]
    <3>1. Len(W) - n \in Nat \ {0} /\ 1 \in 1 .. Len(writer.left)
      BY <1>5, <2>2
    <3>2. PICK L \in Nat : L = Len(W)
      BY <2>1
    <3>3. n \in Nat /\ L - n \in Nat \ {0}
      BY <2>1, <3>1, <3>2
    <3>4. n + 1 \in 1 .. L /\ n + 1 \in 0 .. L
      BY ONLY L \in Nat, <3>3
    <3>5. n + 1 \in 1 .. Len(W) /\ n + 1 \in 0 .. Len(W)
      BY ONLY <3>2, <3>4
    <3> QED
      BY <1>5, <2>2, <3>1, <3>5
  <2>4. p.table \in DOMAIN old
    BY <1>2, <2>1, <2>3, BatchEntry
  <2>5. DOMAIN new = Table /\ Holds(new, p)
    BY <1>2, <2>4, ApplyFacts
  <2>6. ASSUME NEW V \in Writes \ {W} PROVE Whole(new, V)
    <3>1. \A i \in DOMAIN V : V[i].table \in DOMAIN old /\ (V[i].table # p.table \/ V[i].key # p.key)
      <4>1. \A i \in DOMAIN V : V[i].table \in Table
        BY BatchEntry
      <4>2. ASSUME NEW i \in DOMAIN V, V[i].table = p.table /\ V[i].key = p.key PROVE FALSE
        BY <2>1, <2>3, <4>2 DEF BatchesAreDistinct
      <4> QED
        BY <1>2, <4>1, <4>2
    <3>2. Whole(old, V)
      BY <1>7 DEF HalfWay
    <3> HIDE DEF p, old
    <3> QED
      BY <2>4, <3>1, <3>2, ApplyKeepsWhole
  <2>7. ASSUME NEW i \in 1 .. Len(W), i # n + 1
        PROVE  (Holds(old, W[i]) => Holds(new, W[i])) /\ (Lacks(old, W[i]) => Lacks(new, W[i]))
    <3>1. W[i].table # p.table \/ W[i].key # p.key
      BY <2>1, <2>3, <2>7 DEF BatchesAreDistinct
    <3>2. W[i].table \in DOMAIN old
      BY <1>2, BatchEntry
    <3> HIDE DEF p, old
    <3> QED
      BY <2>4, <3>1, <3>2, ApplyFacts
  <2>8. \A i \in 1 .. n + 1 : Holds(new, W[i])
    <3>1. ASSUME NEW i \in 1 .. n + 1 PROVE Holds(new, W[i])
      <4>1. CASE i = n + 1
        BY <2>3, <2>5, <4>1
      <4>2. CASE i # n + 1
        <5>1. i \in 1 .. n /\ i \in 1 .. Len(W)
          BY <2>1, <4>2
        <5>2. Holds(old, W[i])
          BY <1>7, <5>1 DEF HalfWay
        <5> QED
          BY <2>7, <4>2, <5>1, <5>2
      <4> QED
        BY <4>1, <4>2
    <3> QED
      BY <3>1
  <2>9. \A i \in (n + 1) + 1 .. Len(W) : Lacks(new, W[i])
    <3>1. ASSUME NEW i \in (n + 1) + 1 .. Len(W) PROVE Lacks(new, W[i])
      <4>1. i \in n + 1 .. Len(W) /\ i \in 1 .. Len(W) /\ i # n + 1
        BY <2>1
      <4>2. Lacks(old, W[i])
        BY <1>7, <4>1 DEF HalfWay
      <4> QED
        BY <2>7, <4>1, <4>2
    <3> QED
      BY <3>1
  <2> HIDE DEF p, old, new
  <2>10. /\ Len(Tail(writer.left)) = Len(W) - (n + 1)
         /\ \A i \in 1 .. Len(Tail(writer.left)) : Tail(writer.left)[i] = W[(n + 1) + i]
    <3>1. Len(Tail(writer.left)) = Len(W) - (n + 1)
      <4>1. PICK L \in Nat : L = Len(W)
        BY <2>1
      <4>2. n \in Nat /\ Len(Tail(writer.left)) = (L - n) - 1
        BY <1>5, <2>1, <2>2, <4>1
      <4>3. (L - n) - 1 = L - (n + 1)
        BY <4>2
      <4> QED
        BY ONLY <4>1, <4>2, <4>3
    <3>2. ASSUME NEW i \in 1 .. Len(Tail(writer.left)) PROVE Tail(writer.left)[i] = W[(n + 1) + i]
      <4>1. i \in 1 .. Len(writer.left) - 1 /\ i + 1 \in 1 .. Len(writer.left) /\ n + (i + 1) = (n + 1) + i
        BY <1>5, <2>1
      <4>2. Tail(writer.left)[i] = writer.left[i + 1] /\ writer.left[i + 1] = W[n + (i + 1)]
        BY <1>5, <2>2, <4>1
      <4> QED
        BY <4>1, <4>2
    <3> QED
      BY <3>1, <3>2
  <2>11. HalfWay(W, n + 1)'
    BY <1>3, <2>6, <2>8, <2>9, <2>10 DEF HalfWay
  <2> QED
    BY <1>1, <1>2, <1>3, <1>5, <2>3, <2>5, <2>11 DEF BatchInv
<1> QED
  BY <1>2, <1>6, <1>7

\* A commit stores a batch with all its entries.
LEMMA CommitKeepsBatches ==
    ASSUME WritesElsewhere, BatchesAreDistinct, BatchInv, Commit PROVE BatchInv'
<1>1. writer # NoWriter /\ writer.left = <<>> /\ disk' = writer.staged /\ writer' = NoWriter
  BY DEF Commit
<1>2. /\ DOMAIN writer.staged = Table
      /\ SavesOnly \/ \E W \in Writes : \E n \in 0 .. Len(W) : HalfWay(W, n)
  BY <1>1 DEF BatchInv
<1>3. ASSUME NEW W \in Writes, NEW n \in 0 .. Len(W), HalfWay(W, n) PROVE \A V \in Writes : Whole(disk', V)
  <2>1. DOMAIN W = 1 .. Len(W) /\ Len(W) \in Nat
    BY BatchEntry
  <2>2. n = Len(W)
    BY <1>1, <1>3, <2>1 DEF HalfWay
  <2>3. Whole(writer.staged, W)
    BY <1>3, <2>1, <2>2 DEF HalfWay, Whole
  <2> QED
    BY <1>1, <1>3, <2>3 DEF HalfWay
<1>4. \A V \in Writes : Whole(disk', V)
  BY <1>1, <1>2, <1>3 DEF SavesOnly
<1> QED
  BY <1>1, <1>2, <1>4 DEF BatchInv

\* Every step keeps batches whole.
LEMMA NextBatches ==
    ASSUME WritesElsewhere, BatchesAreDistinct, BatchInv, [Next]_vars PROVE BatchInv'
<1>1. ASSUME UNCHANGED <<writer, disk>> PROVE BatchInv'
  BY <1>1 DEF BatchInv, SavesOnly, HalfWay
<1>2. ASSUME writer' = NoWriter, UNCHANGED disk PROVE BatchInv'
  BY <1>2 DEF BatchInv
<1>3. CASE UNCHANGED vars
  BY <1>1, <1>3 DEF vars
<1>4. ASSUME NEW t \in Thread, Insert(t) \/ on_transaction(t) \/ TakeEpoch(t) \/ ResetCount(t) \/ ReadDag(t)
      PROVE  BatchInv'
  BY <1>1, <1>4 DEF Insert, on_transaction, TakeEpoch, ResetCount, ReadDag
<1>5. CASE Abort \/ Restart
  BY <1>2, <1>5 DEF Abort, Restart
<1> QED
  BY <1>3, <1>4, <1>5, SaveKeepsBatches, PutKeepsBatches, InsertEntryKeepsBatches, CommitKeepsBatches DEF Next

(***************************************************************************)
(* put_transaction_batch stores all its entries or none, for batches of    *)
(* any length and whatever insertions fail, crashes and checkpoints come   *)
(* in between (storage.rs:174-185).                                        *)
(***************************************************************************)
THEOREM BatchAtomic == WritesElsewhere /\ BatchesAreDistinct => (Spec => []BatchIsAtomic)
<1> SUFFICES ASSUME WritesElsewhere, BatchesAreDistinct PROVE Spec => []BatchIsAtomic
  OBVIOUS
<1>1. Init => BatchInv
  <2> SUFFICES ASSUME Init PROVE BatchInv
    OBVIOUS
  <2>1. DOMAIN disk = Table /\ writer = NoWriter /\ \A t \in Table : DOMAIN disk[t] = {}
    BY DEF Init
  <2>2. \A W \in Writes : \A i \in DOMAIN W : Lacks(disk, W[i])
    BY <2>1, BatchEntry DEF Lacks
  <2> QED
    BY <2>1, <2>2 DEF BatchInv, Whole
<1>2. BatchInv /\ [Next]_vars => BatchInv'
  BY NextBatches
<1>3. BatchInv => BatchIsAtomic
  <2> SUFFICES ASSUME BatchInv, NEW W \in Writes, NEW i \in DOMAIN W, NEW j \in DOMAIN W
               PROVE  Get(W[i].table, W[i].key) = W[i].value <=> Get(W[j].table, W[j].key) = W[j].value
    BY DEF BatchIsAtomic
  <2>1. \A k \in DOMAIN W : Get(W[k].table, W[k].key) = W[k].value <=> Holds(disk, W[k])
    BY BatchEntry DEF Get, Holds, Missing
  <2>2. \A k \in DOMAIN W : Lacks(disk, W[k]) => ~Holds(disk, W[k])
    BY DEF Holds, Lacks
  <2> QED
    BY <2>1, <2>2 DEF BatchInv, Whole
<1> QED
  BY <1>1, <1>2, <1>3, PTL DEF Spec
=============================================================================
