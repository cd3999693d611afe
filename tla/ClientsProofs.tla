--------------------------- MODULE ClientsProofs ----------------------------
(***************************************************************************)
(* Proofs about what a node's clients meet: the wallet's key file, the     *)
(* event stream and the send command, for any number of runs, subscribers  *)
(* and transactions.                                                       *)
(***************************************************************************)
EXTENDS Keystore, RpcEvents, WalletRpc, SequenceTheorems, TotalsProofs

(***************************************************************************)
(* The key file.  A key is never taken for the error that load returns.    *)
(***************************************************************************)
KeysAreKeys == OldKey # "error" /\ \A p \in Process : Key[p] # "error"

Written == {Complete(1, OldKey)} \cup {Complete(2, Key[p]) : p \in Process}

KeyTypeOK ==
    /\ file \in {Absent, Partial} \cup Written
    /\ pc \in [Process -> {"start", "checked", "opened", "saved", "done", "refused", "dead"}]
    /\ overlapped \in BOOLEAN

\* Only one run is between the test and the end of the write, the file is as this run has left it ...
OneWriter ==
    /\ \A p, q \in Running : p = q
    /\ \A p \in Process : pc[p] = "checked" => file = Absent
    /\ \A p \in Process : pc[p] = "opened" => file = Partial

\* ... and every key that was printed, or will be, is in the file.
KeysInFile ==
    /\ \A k \in announced : file \in Written /\ file.key = k
    /\ \A p \in Process : pc[p] = "saved" => file = Complete(2, Key[p])

KeyInv == KeyTypeOK /\ (~overlapped => OneWriter /\ KeysInFile)

\* A file that was written opens with the user's passphrase and gives its key.
LEMMA WrittenOpens ==
    ASSUME file \in Written
    PROVE  file # Absent /\ file # Partial /\ load(Passphrase) = file.key
  <1>1. CASE file = Complete(1, OldKey)
    BY <1>1 DEF Complete, Absent, Partial, load, Opens
  <1>2. ASSUME NEW p \in Process, file = Complete(2, Key[p])
        PROVE  file # Absent /\ file # Partial /\ load(Passphrase) = file.key
    BY <1>2 DEF Complete, Absent, Partial, load, Opens
  <1>3. QED
    BY <1>1, <1>2 DEF Written

\* The key in a file that was written is no error.
LEMMA WrittenKey ==
    ASSUME KeysAreKeys, file \in Written PROVE file.key # "error"
  BY DEF Written, Complete, KeysAreKeys

\* At first there is no file, or that of an earlier version.
LEMMA InitKey == ASSUME KeyInit PROVE KeyInv
  <1>1. KeyTypeOK /\ Running = {} /\ \A p \in Process : pc[p] = "start"
    BY DEF KeyInit, KeyTypeOK, Written, Running
  <1>2. \A k \in announced : file \in Written /\ file.key = k
    <2>1. CASE file = Absent /\ announced = {}
      BY <2>1
    <2>2. CASE file = Complete(1, OldKey) /\ announced = {OldKey}
      BY <2>2 DEF Written, Complete
    <2> QED
      BY <2>1, <2>2 DEF KeyInit
  <1>3. QED
    BY <1>1, <1>2 DEF KeyInv, OneWriter, KeysInFile

\* A run that finds no file is the only one, or the runs overlap.
LEMMA CheckKeepsKeys ==
    ASSUME KeyInv, NEW p \in Process, Check(p) PROVE KeyInv'
  <1>1. KeyTypeOK /\ KeyTypeOK' /\ file' = file /\ announced' = announced /\ pc[p] = "start"
    BY DEF Check, KeyInv, KeyTypeOK
  <1>2. CASE exists /\ pc' = [pc EXCEPT ![p] = "refused"] /\ UNCHANGED overlapped
    <2>1. Running' = Running /\ \A q \in Process : pc'[q] \in {"checked", "opened", "saved"} => pc'[q] = pc[q]
      BY <1>1, <1>2 DEF Running, KeyTypeOK
    <2> QED
      BY <1>1, <1>2, <2>1 DEF KeyInv, OneWriter, KeysInFile
  <1>3. CASE ~exists /\ pc' = [pc EXCEPT ![p] = "checked"] /\ overlapped' = (overlapped \/ Running # {})
    <2>1. SUFFICES ASSUME ~overlapped' PROVE OneWriter' /\ KeysInFile'
      BY <1>1 DEF KeyInv
    <2>2. ~overlapped /\ Running = {} /\ OneWriter /\ KeysInFile /\ file = Absent
      BY <1>3, <2>1 DEF KeyInv, exists
    <2>3. Running' = {p} /\ \A q \in Process : q # p => pc'[q] = pc[q]
      BY <1>1, <1>3, <2>2 DEF Running, KeyTypeOK
    <2>4. pc'[p] = "checked"
      BY <1>1, <1>3 DEF KeyTypeOK
    <2> QED
      BY <1>1, <2>2, <2>3, <2>4 DEF OneWriter, KeysInFile
  <1>4. QED
    BY <1>2, <1>3 DEF Check

\* Nothing was printed or saved while a run is about to write.
LEMMA WritersAlone ==
    ASSUME KeyInv, ~overlapped, NEW p \in Process, pc[p] \in {"checked", "opened"}
    PROVE  /\ Running = {p} /\ announced = {}
           /\ \A q \in Process : pc[q] # "saved" /\ (q # p => pc[q] \notin {"checked", "opened"})
  <1>1. OneWriter /\ KeysInFile /\ KeyTypeOK /\ file \in {Absent, Partial}
    BY DEF KeyInv, OneWriter
  <1>2. file \notin Written
    BY <1>1, WrittenOpens
  <1>3. \A q \in Process : Complete(2, Key[q]) \in Written
    BY DEF Written
  <1>4. Running = {p}
    BY <1>1 DEF Running, OneWriter
  <1>5. QED
    BY <1>1, <1>2, <1>3, <1>4 DEF KeysInFile, Running

\* The file that a run opens was not there.
LEMMA OpenKeepsKeys ==
    ASSUME KeyInv, NEW p \in Process, OpenFile(p) PROVE KeyInv'
  <1>1. /\ KeyTypeOK /\ KeyTypeOK' /\ pc[p] = "checked" /\ file' = Partial /\ pc' = [pc EXCEPT ![p] = "opened"]
        /\ announced' = announced /\ overlapped' = overlapped
    BY DEF OpenFile, KeyInv, KeyTypeOK
  <1>2. SUFFICES ASSUME ~overlapped PROVE OneWriter' /\ KeysInFile'
    BY <1>1 DEF KeyInv
  <1>3. /\ Running = {p} /\ announced = {}
        /\ \A q \in Process : pc[q] # "saved" /\ (q # p => pc[q] \notin {"checked", "opened"})
    BY <1>1, <1>2, WritersAlone
  <1>4. pc'[p] = "opened" /\ \A q \in Process : q # p => pc'[q] = pc[q]
    BY <1>1 DEF KeyTypeOK
  <1>5. Running' = {p}
    BY <1>3, <1>4 DEF Running
  <1>6. QED
    BY <1>1, <1>3, <1>4, <1>5 DEF OneWriter, KeysInFile

\* A run replaces nothing but the file it has opened.
LEMMA WriteKeepsKeys ==
    ASSUME KeyInv, NEW p \in Process, WriteFile(p) PROVE KeyInv'
  <1>1. /\ KeyTypeOK /\ pc[p] = "opened" /\ file' = Complete(2, Key[p]) /\ pc' = [pc EXCEPT ![p] = "saved"]
        /\ announced' = announced /\ overlapped' = overlapped
    BY DEF WriteFile, KeyInv
  <1>2. KeyTypeOK'
    <2>1. file' \in Written
      BY <1>1 DEF Written
    <2> QED
      BY <1>1, <2>1 DEF KeyTypeOK, Written
  <1>3. SUFFICES ASSUME ~overlapped PROVE OneWriter' /\ KeysInFile'
    BY <1>1, <1>2 DEF KeyInv
  <1>4. /\ Running = {p} /\ announced = {}
        /\ \A q \in Process : pc[q] # "saved" /\ (q # p => pc[q] \notin {"checked", "opened"})
    BY <1>1, <1>3, WritersAlone
  <1>5. pc'[p] = "saved" /\ \A q \in Process : q # p => pc'[q] = pc[q]
    BY <1>1 DEF KeyTypeOK
  <1>6. Running' = {}
    BY <1>4, <1>5 DEF Running
  <1>7. QED
    BY <1>1, <1>4, <1>5, <1>6 DEF OneWriter, KeysInFile

\* The key that is printed is the one in the file.
LEMMA AnnounceKeepsKeys ==
    ASSUME KeyInv, NEW p \in Process, Announce(p) PROVE KeyInv'
  <1>1. /\ KeyTypeOK /\ KeyTypeOK' /\ pc[p] = "saved" /\ announced' = announced \cup {Key[p]}
        /\ pc' = [pc EXCEPT ![p] = "done"] /\ file' = file /\ overlapped' = overlapped
    BY DEF Announce, KeyInv, KeyTypeOK
  <1>2. SUFFICES ASSUME ~overlapped PROVE OneWriter' /\ KeysInFile'
    BY <1>1 DEF KeyInv
  <1>3. OneWriter /\ KeysInFile
    BY <1>2 DEF KeyInv
  <1>4. Running' = Running /\ \A q \in Process : pc'[q] \in {"checked", "opened", "saved"} => pc'[q] = pc[q]
    BY <1>1 DEF Running, KeyTypeOK
  <1>5. file = Complete(2, Key[p]) /\ file \in Written /\ file.key = Key[p]
    BY <1>1, <1>3 DEF KeysInFile, Written, Complete
  <1>6. QED
    BY <1>1, <1>3, <1>4, <1>5 DEF OneWriter, KeysInFile

\* A run that dies leaves the file as it is.
LEMMA DieKeepsKeys ==
    ASSUME KeyInv, NEW p \in Process, Die(p) PROVE KeyInv'
  <1>1. /\ KeyTypeOK /\ KeyTypeOK' /\ pc' = [pc EXCEPT ![p] = "dead"]
        /\ announced' = announced /\ file' = file /\ overlapped' = overlapped
    BY DEF Die, KeyInv, KeyTypeOK
  <1>2. Running' \subseteq Running /\ \A q \in Process : pc'[q] \in {"checked", "opened", "saved"} => pc'[q] = pc[q]
    BY <1>1 DEF Running, KeyTypeOK
  <1>3. QED
    BY <1>1, <1>2 DEF KeyInv, OneWriter, KeysInFile

\* Only a file that nobody has written to its end is deleted.
LEMMA DeleteKeepsKeys == ASSUME KeysAreKeys, KeyInv, Delete PROVE KeyInv'
  <1>1. /\ KeyTypeOK /\ KeyTypeOK' /\ file' = Absent /\ pc' = pc /\ announced' = announced
        /\ overlapped' = overlapped /\ Running = {} /\ load(Passphrase) = "error"
    BY DEF Delete, KeyInv, KeyTypeOK
  <1>2. SUFFICES ASSUME ~overlapped PROVE OneWriter' /\ KeysInFile'
    BY <1>1 DEF KeyInv
  <1>3. file \notin Written
    BY <1>1, WrittenOpens, WrittenKey
  <1>4. OneWriter /\ KeysInFile
    BY <1>2 DEF KeyInv
  <1>5. announced = {} /\ \A q \in Process : pc[q] # "saved"
    <2>1. \A q \in Process : Complete(2, Key[q]) \in Written
      BY DEF Written
    <2> QED
      BY <1>3, <1>4, <2>1 DEF KeysInFile
  <1>6. Running' = {} /\ \A q \in Process : pc[q] \notin {"checked", "opened"}
    BY <1>1 DEF Running
  <1>7. QED
    BY <1>1, <1>5, <1>6 DEF OneWriter, KeysInFile

(***************************************************************************)
(* As long as no two runs of create overlap, a key whose address was       *)
(* printed can be opened from the file, whichever runs die at which step   *)
(* and however often a damaged file is deleted (main.rs:94-100,            *)
(* keystore.rs:76).                                                        *)
(***************************************************************************)
THEOREM KeysOpen == KeysAreKeys => (KeySpec => []AnnouncedKeyOpens)
<1> SUFFICES ASSUME KeysAreKeys PROVE KeySpec => []AnnouncedKeyOpens
  OBVIOUS
<1>1. KeyInit => KeyInv
  BY InitKey
<1>2. KeyInv /\ [KeyNext]_keyVars => KeyInv'
  <2> SUFFICES ASSUME KeyInv, [KeyNext]_keyVars PROVE KeyInv'
    OBVIOUS
  <2>1. CASE UNCHANGED keyVars
    BY <2>1 DEF keyVars, KeyInv, KeyTypeOK, OneWriter, KeysInFile, Running
  <2>2. ASSUME NEW p \in Process, Check(p) \/ OpenFile(p) \/ WriteFile(p) \/ Announce(p) \/ Die(p) PROVE KeyInv'
    BY <2>2, CheckKeepsKeys, OpenKeepsKeys, WriteKeepsKeys, AnnounceKeepsKeys, DieKeepsKeys
  <2>3. CASE Delete
    BY <2>3, DeleteKeepsKeys
  <2> QED
    BY <2>1, <2>2, <2>3 DEF KeyNext
<1>3. KeyInv => AnnouncedKeyOpens
  <2> SUFFICES ASSUME KeyInv, ~overlapped, NEW k \in announced PROVE load(Passphrase) = k
    BY DEF AnnouncedKeyOpens
  <2>1. file \in Written /\ file.key = k
    BY DEF KeyInv, KeysInFile
  <2> QED
    BY <2>1, WrittenOpens
<1> QED
  BY <1>1, <1>2, <1>3, PTL DEF KeySpec
-----------------------------------------------------------------------------
(***************************************************************************)
(* The event stream, for any number of subscribers and any capacity of the *)
(* channel.                                                                *)
(***************************************************************************)
Event == [tx_hash : Tx, accepted : BOOLEAN]
Message == {NetworkStats} \cup {TransactionFinalized(x) : x \in Tx}

Task == [pc : {"off", "recv", "write", "ended"}, from : Nat, next : Nat, got : Seq(Message)]

StreamTypeOK ==
    /\ dag \in SUBSET Tx /\ queue \in Seq(Event) /\ sent \in Seq(Message)
    /\ sub \in [Subscriber -> Task]

(***************************************************************************)
(* A subscriber has got what lies between the place where it began and its *)
(* place in the channel, and writes only what has been sent.               *)
(***************************************************************************)
PlaceOK(task) ==
    /\ task.next = task.from + Len(task.got)
    /\ task.from = 0 => task.got = <<>> /\ task.pc = "off"
    /\ task.from > 0 => task.next <= Len(sent) + 1
    /\ task.pc = "write" => task.from > 0 /\ task.next <= Len(sent)
    /\ \A i \in 1 .. Len(task.got) : task.got[i] = sent[task.from + i - 1]

StreamInv == StreamTypeOK /\ \A s \in Subscriber : PlaceOK(sub[s])

\* Nobody is subscribed at first.
LEMMA InitStream == ASSUME StreamInit PROVE StreamInv
  <1>1. StreamTypeOK
    BY EmptySeq DEF StreamInit, StreamTypeOK, Off, Task
  <1>2. ASSUME NEW s \in Subscriber PROVE PlaceOK(sub[s])
    <2>1. sub[s] = Off /\ Len(<<>>) = 0
      BY DEF StreamInit
    <2> QED
      BY <2>1 DEF PlaceOK, Off
  <1>3. QED
    BY <1>1, <1>2 DEF StreamInv

\* What is sent comes after all that was sent before.
LEMMA SentGrows ==
    ASSUME StreamInv, NEW m \in Message, sent' = Append(sent, m), sub' = sub
    PROVE  sent' \in Seq(Message) /\ \A s \in Subscriber : PlaceOK(sub[s])'
  <1>1. /\ sent' \in Seq(Message) /\ Len(sent') = Len(sent) + 1 /\ Len(sent) \in Nat
        /\ \A i \in 1 .. Len(sent) : sent'[i] = sent[i]
    BY AppendProperties, LenProperties DEF StreamInv, StreamTypeOK
  <1>2. ASSUME NEW s \in Subscriber PROVE PlaceOK(sub[s])'
    <2>1. PICK task : task = sub[s] /\ task = sub'[s]
      OBVIOUS
    <2>2. /\ task \in Task
          /\ PlaceOK(task)
      BY <2>1 DEF StreamInv, StreamTypeOK
    <2>3. PICK n \in Nat : n = Len(task.got)
      BY <2>2, LenProperties DEF Task
    <2>4. \A i \in 1 .. n : task.got[i] = sent'[task.from + i - 1]
      <3>1. CASE task.from = 0
        BY <2>2, <2>3, <3>1 DEF PlaceOK
      <3>2. CASE task.from > 0
        BY <1>1, <2>2, <2>3, <3>2 DEF PlaceOK, Task
      <3>3. task.from = 0 \/ task.from > 0
        BY <2>2 DEF Task
      <3> QED
        BY <3>1, <3>2, <3>3
    <2> QED
      BY <1>1, <2>1, <2>2, <2>3, <2>4 DEF PlaceOK, Task
  <1>3. QED
    BY <1>1, <1>2

\* The listener sends at most one event.
LEMMA ListenKeepsPlaces == ASSUME StreamInv, Listen PROVE StreamInv'
  <1>1. queue # <<>> /\ queue' = Tail(queue) /\ dag' = dag /\ sub' = sub
    BY DEF Listen
  <1>2. queue' \in Seq(Event) /\ Head(queue).tx_hash \in Tx
    <2>1. queue \in Seq(Event)
      BY DEF StreamInv, StreamTypeOK
    <2>2. Head(queue) \in Event /\ Tail(queue) \in Seq(Event)
      BY ONLY <1>1, <2>1, HeadTailProperties
    <2> QED
      BY <1>1, <2>2 DEF Event
  <1>3. CASE sent' = Append(sent, TransactionFinalized(Head(queue).tx_hash))
    <2>1. TransactionFinalized(Head(queue).tx_hash) \in Message
      BY <1>2 DEF Message
    <2>2. sent' \in Seq(Message) /\ \A s \in Subscriber : PlaceOK(sub[s])'
      BY <1>1, <1>3, <2>1, SentGrows
    <2> QED
      BY <1>1, <1>2, <2>2 DEF StreamInv, StreamTypeOK
  <1>4. CASE UNCHANGED sent
    BY <1>1, <1>2, <1>4 DEF StreamInv, StreamTypeOK, PlaceOK
  <1>5. QED
    BY <1>3, <1>4 DEF Listen

\* A new subscriber begins after the last event.
LEMMA SubscribeKeepsPlaces ==
    ASSUME StreamInv, NEW s \in Subscriber, handle_web_socket(s) PROVE StreamInv'
  <1>1. PICK n \in Nat : n = Len(sent)
    BY LenProperties DEF StreamInv, StreamTypeOK
  <1>2. PICK task : task = [pc |-> "recv", from |-> n + 1, next |-> n + 1, got |-> <<>>]
    OBVIOUS
  <1>3. /\ sub' = [sub EXCEPT ![s] = task]
        /\ dag' = dag /\ queue' = queue /\ sent' = sent
    BY <1>1, <1>2 DEF handle_web_socket
  <1>4. task \in Task
    BY <1>2, EmptySeq DEF Task
  <1>5. PlaceOK(task)' /\ Len(<<>>) = 0
    BY <1>1, <1>2, <1>3 DEF PlaceOK
  <1>6. ASSUME NEW q \in Subscriber PROVE PlaceOK(sub[q])'
    <2>1. sub'[q] = IF q = s THEN task ELSE sub[q]
      BY <1>3 DEF StreamInv, StreamTypeOK
    <2>2. PlaceOK(sub[q])
      BY DEF StreamInv
    <2> QED
      BY <1>3, <1>5, <2>1, <2>2 DEF PlaceOK
  <1>7. QED
    BY <1>3, <1>4, <1>6 DEF StreamInv, StreamTypeOK

\* A subscriber's task that only waits, ends, or takes an event to write stays where it is.
LEMMA TurnKeepsPlaces ==
    ASSUME StreamInv, NEW s \in Subscriber, NEW c \in {"recv", "write", "ended"}, sub[s].pc # "off",
           c = "write" => sub[s].next <= Len(sent),
           sub' = [sub EXCEPT ![s].pc = c], UNCHANGED <<dag, queue, sent>>
    PROVE  StreamInv'
  <1>1. ASSUME NEW q \in Subscriber PROVE PlaceOK(sub[q])'
    <2>1. PlaceOK(sub[q]) /\ sub[q] \in Task
      BY DEF StreamInv, StreamTypeOK
    <2>2. sub'[q] = IF q = s THEN [sub[q] EXCEPT !.pc = c] ELSE sub[q]
      BY DEF StreamInv, StreamTypeOK
    <2>3. CASE q # s
      BY <2>1, <2>2, <2>3 DEF PlaceOK
    <2>4. CASE q = s
      <3>1. /\ sub'[q].pc = c /\ sub'[q].from = sub[q].from /\ sub'[q].next = sub[q].next /\ sub'[q].got = sub[q].got
            /\ sub[q].from # 0
        BY <2>1, <2>2, <2>4 DEF PlaceOK, Task
      <3> QED
        BY <2>1, <2>4, <3>1 DEF PlaceOK, Task
    <2> QED
      BY <2>3, <2>4
  <1>2. StreamTypeOK'
    BY DEF StreamInv, StreamTypeOK, Task
  <1>3. QED
    BY <1>1, <1>2 DEF StreamInv

\* What is written is the event at the subscriber's place.
LEMMA WriteKeepsPlaces ==
    ASSUME StreamInv, NEW s \in Subscriber, Write(s) PROVE StreamInv'
  <1>1. PICK task : task = sub[s]
    OBVIOUS
  <1>2. /\ task \in Task
        /\ PlaceOK(task) /\ task.pc = "write"
    BY <1>1 DEF StreamInv, StreamTypeOK, Write
  <1>3. PICK n \in Nat : n = Len(task.got)
    BY <1>2, LenProperties DEF Task
  <1>4. PICK l \in Nat : l = Len(sent)
    BY LenProperties DEF StreamInv, StreamTypeOK
  <1>5. task.next = task.from + n /\ task.from > 0 /\ task.next \in 1 .. l
    BY <1>2, <1>3, <1>4 DEF PlaceOK, Task
  <1>6. sent[task.next] \in Message
    BY <1>4, <1>5, ElementOfSeq DEF StreamInv, StreamTypeOK
  <1>7. PICK got : got = Append(task.got, sent[task.next])
    OBVIOUS
  <1>8. /\ got \in Seq(Message) /\ Len(got) = n + 1
        /\ \A i \in 1 .. n : got[i] = task.got[i]
        /\ got[n + 1] = sent[task.next]
    BY <1>2, <1>3, <1>6, <1>7, AppendProperties DEF Task
  <1>9. PICK new : new = [task EXCEPT !.pc = "recv", !.next = task.next + 1, !.got = got]
    OBVIOUS
  <1>10. new.pc = "recv" /\ new.from = task.from /\ new.next = task.next + 1 /\ new.got = got /\ new \in Task
    <2>1. task.next + 1 \in Nat
      BY <1>2 DEF Task
    <2>2. new \in Task
      BY <1>2, <1>8, <1>9, <2>1 DEF Task
    <2> QED
      BY <1>2, <1>9, <2>2 DEF Task
  <1>11. sub' = [sub EXCEPT ![s] = new] /\ dag' = dag /\ queue' = queue /\ sent' = sent
    <2>1. sub' = [sub EXCEPT ![s] = [task EXCEPT !.pc = "recv", !.next = task.next + 1,
                                                 !.got = Append(task.got, sent[task.next])]]
      BY <1>1 DEF Write, StreamInv, StreamTypeOK
    <2> QED
      BY <1>7, <1>9, <2>1 DEF Write
  <1>12. \A i \in 1 .. n + 1 : got[i] = sent[task.from + i - 1]
    <2>1. \A i \in 1 .. n : got[i] = sent[task.from + i - 1]
      BY <1>2, <1>3, <1>8 DEF PlaceOK
    <2>2. task.from + (n + 1) - 1 = task.next
      BY <1>2, <1>5
    <2>3. \A i \in 1 .. n + 1 : i \in 1 .. n \/ i = n + 1
      OBVIOUS
    <2> QED
      BY <1>8, <2>1, <2>2, <2>3
  <1>13. PlaceOK(new)'
    BY <1>2, <1>4, <1>5, <1>8, <1>10, <1>11, <1>12 DEF PlaceOK, Task
  <1>14. ASSUME NEW q \in Subscriber PROVE PlaceOK(sub[q])'
    <2>1. sub'[q] = IF q = s THEN new ELSE sub[q]
      BY <1>11 DEF StreamInv, StreamTypeOK
    <2>2. PlaceOK(sub[q])
      BY DEF StreamInv
    <2> QED
      BY <1>11, <1>13, <2>1, <2>2 DEF PlaceOK
  <1>15. QED
    BY <1>10, <1>11, <1>14 DEF StreamInv, StreamTypeOK

\* A place that is right means that nothing is missing.
LEMMA PlaceHasNoGap ==
    ASSUME StreamInv, NEW s \in Subscriber
    PROVE  sub[s].got = SubSeq(sent, sub[s].from, sub[s].from + Len(sub[s].got) - 1)
  <1>1. PICK task : task = sub[s]
    OBVIOUS
  <1>2. /\ task \in Task
        /\ PlaceOK(task)
    BY <1>1 DEF StreamInv, StreamTypeOK
  <1>3. PICK n \in Nat : n = Len(task.got)
    BY <1>2, LenProperties DEF Task
  <1>4. PICK l \in Nat : l = Len(sent)
    BY LenProperties DEF StreamInv, StreamTypeOK
  <1>5. PICK to \in Int : to = task.from + n - 1
    BY <1>2 DEF Task
  <1>6. CASE n = 0
    <2>1. SubSeq(sent, task.from, to) = <<>>
      BY <1>2, <1>5, <1>6, SubSeqEmpty DEF Task
    <2>2. task.got = <<>>
      BY <1>2, <1>3, <1>6, EmptySeq DEF Task
    <2> QED
      BY <1>1, <1>3, <1>5, <2>1, <2>2
  <1>7. CASE n > 0
    <2>1. task.from > 0 /\ to <= l /\ task.from <= to /\ to - task.from + 1 = n
      BY <1>2, <1>3, <1>4, <1>5, <1>7 DEF PlaceOK, Task
    <2>2. \A i \in task.from .. to : sent[i] \in Message
      BY <1>2, <1>4, <1>5, <2>1, ElementOfSeq DEF StreamInv, StreamTypeOK, Task
    <2>3. /\ SubSeq(sent, task.from, to) \in Seq(Message) /\ Len(SubSeq(sent, task.from, to)) = n
          /\ \A i \in 1 .. n : SubSeq(sent, task.from, to)[i] = sent[task.from + i - 1]
      <3>1. task.from \in Int
        BY <1>2 DEF Task
      <3>2. /\ SubSeq(sent, task.from, to) \in Seq(Message)
            /\ Len(SubSeq(sent, task.from, to)) = IF task.from <= to THEN to - task.from + 1 ELSE 0
            /\ \A i \in 1 .. to - task.from + 1 : SubSeq(sent, task.from, to)[i] = sent[task.from + i - 1]
        BY ONLY <2>2, <3>1, to \in Int, SubSeqProperties
      <3> QED
        BY <2>1, <3>2
    <2>4. \A i \in 1 .. n : task.got[i] = SubSeq(sent, task.from, to)[i]
      BY <1>2, <1>3, <2>3 DEF PlaceOK
    <2>5. task.got \in Seq(Message)
      BY <1>2 DEF Task
    <2>6. task.got = SubSeq(sent, task.from, to)
      BY ONLY <1>3, <2>3, <2>4, <2>5, SeqEqual
    <2> QED
      BY <1>1, <1>3, <1>5, <2>6
  <1>8. QED
    BY <1>3, <1>6, <1>7

(***************************************************************************)
(* A subscriber receives an unbroken run of the events since it            *)
(* subscribed, however fast events come and however slowly it reads: one   *)
(* that lags behind loses its connection (rpc.rs:132-138).                 *)
(***************************************************************************)
THEOREM StreamHasNoGap == StreamSpec => []ReceivedHasNoGap
<1>1. StreamInit => StreamInv
  BY InitStream
<1>2. StreamInv /\ [StreamNext]_streamVars => StreamInv'
  <2> SUFFICES ASSUME StreamInv, [StreamNext]_streamVars PROVE StreamInv'
    OBVIOUS
  <2>1. CASE UNCHANGED streamVars
    BY <2>1 DEF streamVars, StreamInv, StreamTypeOK, PlaceOK
  <2>2. ASSUME NEW x \in Tx, PruneDecided(x) PROVE StreamInv'
    BY <2>2 DEF PruneDecided, StreamInv, StreamTypeOK, PlaceOK
  <2>3. ASSUME NEW x \in Tx, NEW a \in BOOLEAN, Emit(x, a) PROVE StreamInv'
    <3>1. [tx_hash |-> x, accepted |-> a] \in Event
      BY DEF Event
    <3>2. queue' \in Seq(Event)
      BY <2>3, <3>1, AppendProperties DEF Emit, StreamInv, StreamTypeOK
    <3> QED
      BY <2>3, <3>2 DEF Emit, StreamInv, StreamTypeOK, PlaceOK
  <2>4. CASE Listen
    BY <2>4, ListenKeepsPlaces
  <2>5. CASE SendStats
    <3>1. sent' \in Seq(Message) /\ \A s \in Subscriber : PlaceOK(sub[s])'
      BY <2>5, SentGrows DEF SendStats, Message
    <3> QED
      BY <2>5, <3>1 DEF SendStats, StreamInv, StreamTypeOK
  <2>6. ASSUME NEW s \in Subscriber, handle_web_socket(s) PROVE StreamInv'
    BY <2>6, SubscribeKeepsPlaces
  <2>7. ASSUME NEW s \in Subscriber, Recv(s) PROVE StreamInv'
    <3>1. CASE Lagged(s)
      BY <2>7, <3>1, TurnKeepsPlaces DEF Recv
    <3>2. CASE ~Lagged(s)
      BY <2>7, <3>2, TurnKeepsPlaces DEF Recv
    <3> QED
      BY <3>1, <3>2
  <2>8. ASSUME NEW s \in Subscriber, Write(s) PROVE StreamInv'
    BY <2>8, WriteKeepsPlaces
  <2>9. ASSUME NEW s \in Subscriber, WriteFails(s) PROVE StreamInv'
    BY <2>9, TurnKeepsPlaces DEF WriteFails
  <2> QED
    BY <2>1, <2>2, <2>3, <2>4, <2>5, <2>6, <2>7, <2>8, <2>9 DEF StreamNext
<1>3. StreamInv => ReceivedHasNoGap
  BY PlaceHasNoGap DEF ReceivedHasNoGap
<1> QED
  BY <1>1, <1>2, <1>3, PTL DEF StreamSpec
-----------------------------------------------------------------------------
(***************************************************************************)
(* The send command, for any number of runs with any amounts.              *)
(***************************************************************************)
Payable == IsFiniteSet(Run) /\ Amount \in [Run -> Nat] /\ Fee \in Nat /\ Funds \in Nat

WalletTypeOK ==
    /\ applied \in SUBSET Run
    /\ DOMAIN run = Run /\ DOMAIN request = Run /\ DOMAIN reply = Run
    /\ \A r \in Run : DOMAIN run[r] = {"pc", "nonce", "parents"} /\ run[r].nonce \in Nat

\* A request on its way is one of the three, and a transaction that is not applied yet.
RequestOK(r) ==
    request[r] # NoMessage =>
        /\ request[r] \in {Request("rly_getNonce", r), Request("rly_getTips", r), Request("rly_submitTransaction", r)}
        /\ r \notin applied

(***************************************************************************)
(* What a run's step says about its messages and its transaction; for one  *)
(* whose call has failed the request and the transaction are all that      *)
(* matters.                                                                *)
(***************************************************************************)
StepOK(r) ==
    \/ run[r].pc = "start" /\ request[r] = NoMessage /\ reply[r] = NoMessage /\ r \notin applied
    \/ /\ run[r].pc = "nonce" /\ r \notin applied
       /\ \/ request[r] = Request("rly_getNonce", r) /\ reply[r] = NoMessage
          \/ request[r] = NoMessage /\ reply[r] # NoMessage /\ reply[r].result \in Nat
    \/ /\ run[r].pc = "tips" /\ r \notin applied
       /\ \/ request[r] = Request("rly_getTips", r) /\ reply[r] = NoMessage
          \/ request[r] = NoMessage
    \/ /\ run[r].pc = "submit"
       /\ \/ request[r] = Request("rly_submitTransaction", r) /\ reply[r] = NoMessage /\ r \notin applied
          \/ request[r] = NoMessage /\ reply[r] = success(r) /\ r \in applied
          \/ request[r] = NoMessage /\ reply[r] = error(TX_REJECTED) /\ r \notin applied
    \/ run[r].pc = "accepted" /\ request[r] = NoMessage /\ r \in applied
    \/ run[r].pc = "refused" /\ request[r] = NoMessage /\ r \notin applied
    \/ run[r].pc = "failed"

\* The applied transactions have the nonces up to the account's, each its own.
NoncesOK ==
    /\ \A r \in applied : run[r].nonce <= nonce
    /\ NonceIsPaidOnce

WalletInv == WalletTypeOK /\ (\A r \in Run : RequestOK(r) /\ StepOK(r)) /\ NoncesOK

\* The requests differ from each other and from none, and so do the replies.
LEMMA MessagesDiffer ==
    ASSUME NEW r
    PROVE  /\ Request("rly_getNonce", r).method = "rly_getNonce" /\ Request("rly_getTips", r).method = "rly_getTips"
           /\ Request("rly_submitTransaction", r).method = "rly_submitTransaction" /\ NoMessage.method = "none"
           /\ \A m : success(m) # NoMessage /\ success(m).result = m /\ ~IsError(success(m))
           /\ \A c : error(c) # NoMessage /\ IsError(error(c))
  <1>1. /\ Request("rly_getNonce", r).method = "rly_getNonce" /\ Request("rly_getTips", r).method = "rly_getTips"
        /\ Request("rly_submitTransaction", r).method = "rly_submitTransaction" /\ NoMessage.method = "none"
    BY DEF Request, NoMessage
  <1>2. ASSUME NEW m PROVE success(m) # NoMessage /\ success(m).result = m /\ ~IsError(success(m))
    BY DEF success, NoMessage, IsError
  <1>3. ASSUME NEW c PROVE error(c) # NoMessage /\ IsError(error(c))
    BY DEF error, NoMessage, IsError
  <1>4. QED
    BY <1>1, <1>2, <1>3

\* Numbers of the ledger.
LEMMA LedgerNumbers ==
    ASSUME Payable, NEW A \in SUBSET Run
    PROVE  /\ IsFiniteSet(A) /\ Cardinality(A) \in Nat /\ Total(Cost, A) \in Nat
           /\ \A r \in A : Cost[r] = Amount[r] + Fee /\ Cost[r] \in Nat /\ Cost[r] <= Total(Cost, A)
  <1>1. IsFiniteSet(A) /\ Cardinality(A) \in Nat
    BY FS_Subset, FS_CardinalityType DEF Payable
  <1>2. \A r \in A : Cost[r] = Amount[r] + Fee /\ Cost[r] \in Nat
    BY DEF Payable, Cost
  <1>3. Total(Cost, A) \in Nat
    BY <1>1, <1>2, UnitsFinite
  <1>4. ASSUME NEW r \in A PROVE Cost[r] <= Total(Cost, A)
    <2>1. Total(Cost, A \ {r}) \in Nat /\ Total(Cost, A) = Total(Cost, A \ {r}) + Cost[r]
      BY <1>1, <1>2, TotalRemove
    <2> QED
      BY <1>2, <1>3, <2>1
  <1>5. QED
    BY <1>1, <1>2, <1>3, <1>4

\* Nothing has been sent at first.
LEMMA InitWallet == ASSUME Payable, WalletInit PROVE WalletInv
  <1>1. WalletTypeOK
    BY DEF WalletInit, WalletTypeOK
  <1>2. \A r \in Run : RequestOK(r) /\ StepOK(r)
    BY DEF WalletInit, RequestOK, StepOK
  <1>3. NoncesOK
    BY DEF WalletInit, NoncesOK, NonceIsPaidOnce
  <1>4. QED
    BY <1>1, <1>2, <1>3 DEF WalletInv

(***************************************************************************)
(* A step of one run that applies nothing and keeps the nonce of a         *)
(* transaction that is applied keeps the invariant, if it keeps what it    *)
(* says about this run.                                                    *)
(***************************************************************************)
LEMMA OneRunKeepsWallet ==
    ASSUME WalletInv, NEW r \in Run, applied' = applied, WalletTypeOK',
           \A q \in Run \ {r} : run'[q] = run[q] /\ request'[q] = request[q] /\ reply'[q] = reply[q],
           r \in applied => run'[r].nonce = run[r].nonce, RequestOK(r)', StepOK(r)'
    PROVE  WalletInv'
  <1>1. ASSUME NEW q \in Run PROVE RequestOK(q)' /\ StepOK(q)'
    <2>1. CASE q = r
      BY <2>1
    <2>2. CASE q # r
      <3>1. run'[q] = run[q] /\ request'[q] = request[q] /\ reply'[q] = reply[q] /\ RequestOK(q) /\ StepOK(q)
        BY <2>2 DEF WalletInv
      <3> QED
        BY <3>1 DEF RequestOK, StepOK
    <2> QED
      BY <2>1, <2>2
  <1>2. \A q \in applied : run'[q].nonce = run[q].nonce
    BY DEF WalletInv, WalletTypeOK
  <1>3. NoncesOK'
    BY <1>2 DEF WalletInv, NoncesOK, NonceIsPaidOnce, nonce
  <1>4. QED
    BY <1>1, <1>3 DEF WalletInv

\* A submission is applied once, with the nonce after the last.
LEMMA SubmittedKeepsWallet ==
    ASSUME Payable, WalletInv, NEW r \in Run, Submitted(r) PROVE WalletInv'
  <1>1. WalletTypeOK /\ RequestOK(r) /\ StepOK(r) /\ request[r].method = "rly_submitTransaction" /\ run' = run
    BY DEF WalletInv, Submitted
  <1>2. request[r] = Request("rly_submitTransaction", r) /\ r \notin applied
    BY <1>1, MessagesDiffer DEF RequestOK
  <1>3. ASSUME NEW m, Answer(r, m)
        PROVE  /\ DOMAIN request' = Run /\ DOMAIN reply' = Run /\ request'[r] = NoMessage /\ reply'[r] = m
               /\ \A q \in Run \ {r} : request'[q] = request[q] /\ reply'[q] = reply[q]
    BY <1>1, <1>3 DEF Answer, WalletTypeOK
  <1>4. run[r].pc \in {"submit", "failed"}
    BY <1>1, <1>2, MessagesDiffer DEF StepOK
  <1>5. CASE applied' = applied /\ Answer(r, error(TX_REJECTED))
    <2>1. /\ DOMAIN request' = Run /\ DOMAIN reply' = Run /\ request'[r] = NoMessage /\ reply'[r] = error(TX_REJECTED)
          /\ \A q \in Run \ {r} : request'[q] = request[q] /\ reply'[q] = reply[q]
      BY <1>3, <1>5
    <2>2. WalletTypeOK'
      BY <1>1, <1>5, <2>1 DEF WalletTypeOK
    <2>3. RequestOK(r)' /\ StepOK(r)'
      BY <1>1, <1>2, <1>4, <1>5, <2>1 DEF RequestOK, StepOK
    <2> QED
      BY <1>1, <1>5, <2>1, <2>2, <2>3, OneRunKeepsWallet
  <1>6. CASE Inserts(r) /\ applied' = applied \cup {r} /\ Answer(r, success(r))
    <2>1. /\ DOMAIN request' = Run /\ DOMAIN reply' = Run /\ request'[r] = NoMessage /\ reply'[r] = success(r)
          /\ \A q \in Run \ {r} : request'[q] = request[q] /\ reply'[q] = reply[q]
      BY <1>3, <1>6
    <2>2. WalletTypeOK'
      BY <1>1, <1>6, <2>1 DEF WalletTypeOK
    <2>3. ASSUME NEW q \in Run PROVE RequestOK(q)' /\ StepOK(q)'
      <3>1. CASE q = r
        BY <1>1, <1>4, <1>6, <2>1, <3>1 DEF RequestOK, StepOK
      <3>2. CASE q # r
        <4>1. request'[q] = request[q] /\ reply'[q] = reply[q] /\ (q \in applied' <=> q \in applied)
              /\ RequestOK(q) /\ StepOK(q)
          BY <1>6, <2>1, <3>2 DEF WalletInv
        <4> QED
          BY <1>1, <4>1 DEF RequestOK, StepOK
      <3> QED
        BY <3>1, <3>2
    <2>4. NoncesOK'
      <3>1. IsFiniteSet(applied) /\ Cardinality(applied) \in Nat
        BY <1>1, LedgerNumbers DEF WalletTypeOK
      <3>2. Cardinality(applied') = Cardinality(applied) + 1
        BY <1>2, <1>6, <3>1, FS_AddElement
      <3>3. run[r].nonce = Cardinality(applied) + 1
        BY <1>6 DEF Inserts, nonce
      <3>4. \A q \in applied : run[q].nonce \in Nat /\ run[q].nonce <= Cardinality(applied)
        BY <1>1 DEF WalletInv, NoncesOK, nonce, WalletTypeOK
      <3>5. \A q \in applied' : run'[q].nonce <= nonce'
        BY <1>1, <1>6, <3>1, <3>2, <3>3, <3>4 DEF nonce
      <3>6. \A q \in applied : run[q].nonce # run[r].nonce
        BY <3>1, <3>3, <3>4
      <3>7. NonceIsPaidOnce'
        BY <1>1, <1>6, <3>6 DEF NonceIsPaidOnce, WalletInv, NoncesOK
      <3> QED
        BY <3>5, <3>7 DEF NoncesOK
    <2> QED
      BY <2>2, <2>3, <2>4 DEF WalletInv
  <1>7. QED
    BY <1>5, <1>6 DEF Submitted

\* A query is answered, and its run may have ended by then.
LEMMA HandleKeepsWallet ==
    ASSUME Payable, WalletInv, NEW r \in Run, Handle(r) PROVE WalletInv'
  <1>1. WalletTypeOK /\ RequestOK(r) /\ StepOK(r) /\ applied' = applied /\ run' = run
        /\ request[r].method \in {"rly_getNonce", "rly_getTips"}
    BY DEF WalletInv, Handle
  <1>2. request[r] \in {Request("rly_getNonce", r), Request("rly_getTips", r)} /\ r \notin applied
    BY <1>1, MessagesDiffer DEF RequestOK
  <1>3. PICK m \in handle_rpc(request[r]) : Answer(r, m)
    BY DEF Handle
  <1>4. /\ DOMAIN request' = Run /\ DOMAIN reply' = Run /\ request'[r] = NoMessage /\ reply'[r] = m
        /\ \A q \in Run \ {r} : request'[q] = request[q] /\ reply'[q] = reply[q]
    BY <1>1, <1>3 DEF Answer, WalletTypeOK
  <1>5. WalletTypeOK'
    BY <1>1, <1>4 DEF WalletTypeOK
  <1>6. request[r] = Request("rly_getNonce", r) => m # NoMessage /\ m.result \in Nat
    <2> SUFFICES ASSUME request[r] = Request("rly_getNonce", r) PROVE m # NoMessage /\ m.result \in Nat
      OBVIOUS
    <2>1. m = success(nonce)
      BY <1>3 DEF handle_rpc, Request, TakesParams, handle_get_nonce
    <2>2. nonce \in Nat
      BY <1>1, LedgerNumbers DEF nonce, WalletTypeOK
    <2> QED
      BY <2>1, <2>2, MessagesDiffer
  <1>7. RequestOK(r)' /\ StepOK(r)'
    <2>1. RequestOK(r)'
      BY <1>4 DEF RequestOK
    <2>2. CASE run[r].pc = "nonce"
      <3>1. request[r] = Request("rly_getNonce", r)
        BY <1>1, <1>2, <2>2, MessagesDiffer DEF StepOK
      <3> QED
        BY <1>1, <1>2, <1>4, <1>6, <2>1, <2>2, <3>1 DEF StepOK
    <2>3. CASE run[r].pc # "nonce"
      <3>1. run[r].pc \in {"tips", "failed"}
        BY <1>1, <1>2, <2>3, MessagesDiffer DEF StepOK
      <3> QED
        BY <1>1, <1>2, <1>4, <2>1, <3>1 DEF StepOK
    <2> QED
      BY <2>2, <2>3
  <1>8. QED
    BY <1>1, <1>4, <1>5, <1>7, OneRunKeepsWallet

\* A run asks for the nonce, the tips and the submission in this order, once each.
LEMMA RunKeepsWallet ==
    ASSUME WalletInv, NEW r \in Run, Begin(r) \/ GotNonce(r) \/ GotTips(r) \/ GotReply(r) \/ CallFails(r)
    PROVE  WalletInv'
  <1>1. WalletTypeOK /\ RequestOK(r) /\ StepOK(r) /\ applied' = applied
    BY DEF WalletInv, Begin, GotNonce, GotTips, GotReply, CallFails, Arrived
  <1>2. CASE Begin(r)
    <2>1. /\ run[r].pc = "start" /\ run' = [run EXCEPT ![r].pc = "nonce"]
          /\ request' = [request EXCEPT ![r] = Request("rly_getNonce", r)] /\ reply' = reply
      BY <1>2 DEF Begin, Call
    <2>2. WalletTypeOK' /\ run'[r].pc = "nonce" /\ run'[r].nonce = run[r].nonce
      BY <1>1, <2>1 DEF WalletTypeOK
    <2>3. /\ request'[r] = Request("rly_getNonce", r)
          /\ \A q \in Run \ {r} : run'[q] = run[q] /\ request'[q] = request[q] /\ reply'[q] = reply[q]
      BY <1>1, <2>1 DEF WalletTypeOK
    <2>4. r \notin applied /\ reply[r] = NoMessage
      BY <1>1, <2>1 DEF StepOK
    <2>5. RequestOK(r)' /\ StepOK(r)'
      BY <1>1, <2>1, <2>2, <2>3, <2>4 DEF RequestOK, StepOK
    <2> QED
      BY <1>1, <2>2, <2>3, <2>5, OneRunKeepsWallet
  <1>3. CASE GotNonce(r)
    <2>1. /\ run[r].pc = "nonce" /\ reply[r] # NoMessage
          /\ run' = [run EXCEPT ![r].pc = "tips", ![r].nonce = reply[r].result + 1]
          /\ request' = [request EXCEPT ![r] = Request("rly_getTips", r)]
          /\ reply' = [reply EXCEPT ![r] = NoMessage]
      BY <1>3 DEF GotNonce, Arrived
    <2>2. r \notin applied /\ reply[r].result + 1 \in Nat
      BY <1>1, <2>1 DEF StepOK
    <2>3. WalletTypeOK' /\ run'[r].pc = "tips"
      BY <1>1, <2>1, <2>2 DEF WalletTypeOK
    <2>4. /\ request'[r] = Request("rly_getTips", r) /\ reply'[r] = NoMessage
          /\ \A q \in Run \ {r} : run'[q] = run[q] /\ request'[q] = request[q] /\ reply'[q] = reply[q]
      BY <1>1, <2>1 DEF WalletTypeOK
    <2>5. RequestOK(r)' /\ StepOK(r)'
      BY <1>1, <2>2, <2>3, <2>4 DEF RequestOK, StepOK
    <2> QED
      BY <1>1, <2>2, <2>3, <2>4, <2>5, OneRunKeepsWallet
  <1>4. CASE GotTips(r)
    <2>1. PICK parents : parents = ParentsOf(reply[r].result)
      OBVIOUS
    <2>2. /\ run[r].pc = "tips" /\ run' = [run EXCEPT ![r].pc = "submit", ![r].parents = parents]
          /\ request' = [request EXCEPT ![r] = Request("rly_submitTransaction", r)]
          /\ reply' = [reply EXCEPT ![r] = NoMessage]
      BY <1>4, <2>1 DEF GotTips, Arrived
    <2>3. r \notin applied
      BY <1>1, <2>2 DEF StepOK
    <2>4. WalletTypeOK' /\ run'[r].pc = "submit"
      BY <1>1, <2>2 DEF WalletTypeOK
    <2>5. /\ request'[r] = Request("rly_submitTransaction", r) /\ reply'[r] = NoMessage
          /\ \A q \in Run \ {r} : run'[q] = run[q] /\ request'[q] = request[q] /\ reply'[q] = reply[q]
      BY <1>1, <2>2 DEF WalletTypeOK
    <2>6. RequestOK(r)' /\ StepOK(r)'
      BY <1>1, <2>3, <2>4, <2>5 DEF RequestOK, StepOK
    <2> QED
      BY <1>1, <2>3, <2>4, <2>5, <2>6, OneRunKeepsWallet
  <1>5. CASE GotReply(r)
    <2>1. PICK c \in {"refused", "accepted"} : c = IF IsError(reply[r]) THEN "refused" ELSE "accepted"
      OBVIOUS
    <2>2. /\ run[r].pc = "submit" /\ reply[r] # NoMessage /\ run' = [run EXCEPT ![r].pc = c]
          /\ request' = request /\ reply' = [reply EXCEPT ![r] = NoMessage]
      BY <1>5, <2>1 DEF GotReply, Arrived
    <2>3. request[r] = NoMessage /\ (c = "accepted" <=> r \in applied)
      BY <1>1, <2>1, <2>2, MessagesDiffer DEF StepOK
    <2>4. WalletTypeOK' /\ run'[r].pc = c /\ run'[r].nonce = run[r].nonce
      BY <1>1, <2>2 DEF WalletTypeOK
    <2>5. /\ request'[r] = NoMessage
          /\ \A q \in Run \ {r} : run'[q] = run[q] /\ request'[q] = request[q] /\ reply'[q] = reply[q]
      BY <1>1, <2>2, <2>3 DEF WalletTypeOK
    <2>6. RequestOK(r)' /\ StepOK(r)'
      BY <1>1, <2>1, <2>3, <2>4, <2>5 DEF RequestOK, StepOK
    <2> QED
      BY <1>1, <2>4, <2>5, <2>6, OneRunKeepsWallet
  <1>6. CASE CallFails(r)
    <2>1. /\ run' = [run EXCEPT ![r].pc = "failed"] /\ reply' = [reply EXCEPT ![r] = NoMessage]
          /\ request' = request \/ request' = [request EXCEPT ![r] = NoMessage]
      BY <1>6 DEF CallFails
    <2>2. WalletTypeOK' /\ run'[r].pc = "failed" /\ run'[r].nonce = run[r].nonce
      BY <1>1, <2>1 DEF WalletTypeOK
    <2>3. /\ request'[r] = NoMessage \/ request'[r] = request[r]
          /\ \A q \in Run \ {r} : run'[q] = run[q] /\ request'[q] = request[q] /\ reply'[q] = reply[q]
      BY <1>1, <2>1 DEF WalletTypeOK
    <2>4. RequestOK(r)' /\ StepOK(r)'
      BY <1>1, <2>2, <2>3 DEF RequestOK, StepOK
    <2> QED
      BY <1>1, <2>2, <2>3, <2>4, OneRunKeepsWallet
  <1>7. QED
    BY <1>2, <1>3, <1>4, <1>5, <1>6

\* What the node answers about an accepted transaction.
LEMMA AcceptedShows == ASSUME Payable, WalletInv PROVE AcceptedIsVisible
  <1> SUFFICES ASSUME NEW r \in Run, run[r].pc = "accepted"
               PROVE  /\ \A m \in handle_rpc(Request("rly_getBalance", r)) :
                             m.result.nonce >= run[r].nonce /\ m.result.balance + Amount[r] + Fee <= Funds
                      /\ r \in nodes => \A m \in handle_rpc(Request("rly_getTransaction", r)) : ~IsError(m)
                      /\ r \in applied
    BY DEF AcceptedIsVisible
  <1>1. WalletTypeOK /\ r \in applied /\ run[r].nonce <= nonce /\ run[r].nonce \in Nat
    BY DEF WalletInv, StepOK, NoncesOK, WalletTypeOK
  <1>2. ASSUME NEW m \in handle_rpc(Request("rly_getBalance", r))
        PROVE  m.result.nonce >= run[r].nonce /\ m.result.balance + Amount[r] + Fee <= Funds
    <2>1. m = success([balance |-> balance, nonce |-> nonce])
      BY DEF handle_rpc, Request, TakesParams, handle_get_balance
    <2>2. m.result.nonce = nonce /\ m.result.balance = Funds - Total(Cost, applied)
      BY <2>1 DEF success, balance
    <2>3. /\ nonce \in Nat /\ Total(Cost, applied) \in Nat
          /\ Cost[r] = Amount[r] + Fee /\ Cost[r] <= Total(Cost, applied)
      BY <1>1, LedgerNumbers DEF WalletTypeOK, nonce
    <2>4. Amount[r] \in Nat /\ Fee \in Nat /\ Funds \in Nat
      BY DEF Payable
    <2> QED
      BY ONLY <1>1, <2>2, <2>3, <2>4
  <1>3. ASSUME r \in nodes, NEW m \in handle_rpc(Request("rly_getTransaction", r)) PROVE ~IsError(m)
    <2>1. m = success(r)
      BY <1>3 DEF handle_rpc, Request, TakesParams, handle_get_transaction
    <2> QED
      BY <2>1, MessagesDiffer
  <1>4. QED
    BY <1>1, <1>2, <1>3

(***************************************************************************)
(* However requests and replies are delayed, lost and overtaken, and       *)
(* however runs are retried: what the wallet prints about a payment is     *)
(* true, and runs that have read the same nonce pay once (main.rs:156-218, *)
(* rpc.rs:344-351).                                                        *)
(***************************************************************************)
THEOREM PaymentsTold == Payable => (WalletSpec => []PaymentsAreAsTold)
<1> SUFFICES ASSUME Payable PROVE WalletSpec => []PaymentsAreAsTold
  OBVIOUS
<1>1. WalletInit => WalletInv
  BY InitWallet
<1>2. WalletInv /\ [WalletNext]_walletVars => WalletInv'
  <2> SUFFICES ASSUME WalletInv, [WalletNext]_walletVars PROVE WalletInv'
    OBVIOUS
  <2>1. CASE UNCHANGED <<applied, run, request, reply>>
    BY <2>1 DEF WalletInv, WalletTypeOK, RequestOK, StepOK, NoncesOK, NonceIsPaidOnce, nonce
  <2>2. ASSUME NEW r \in Run, Submitted(r) \/ Handle(r) PROVE WalletInv'
    BY <2>2, SubmittedKeepsWallet, HandleKeepsWallet
  <2>3. ASSUME NEW r \in Run, Begin(r) \/ GotNonce(r) \/ GotTips(r) \/ GotReply(r) \/ CallFails(r) PROVE WalletInv'
    BY <2>3, RunKeepsWallet
  <2>4. ASSUME NEW h \in Hash, NEW p \in Hash, Prune(h) \/ OthersInsert(h, p) PROVE WalletInv'
    BY <2>1, <2>4 DEF Prune, OthersInsert
  <2> QED
    BY <2>1, <2>2, <2>3, <2>4 DEF WalletNext, walletVars
<1>3. WalletInv => PaymentsAreAsTold
  <2> SUFFICES ASSUME WalletInv PROVE PaymentsAreAsTold
    OBVIOUS
  <2>1. RefusedIsNotApplied
    BY DEF WalletInv, StepOK, RefusedIsNotApplied
  <2> QED
    BY <2>1, AcceptedShows DEF PaymentsAreAsTold, WalletInv, NoncesOK
<1> QED
  BY <1>1, <1>2, <1>3, PTL DEF WalletSpec
=============================================================================
