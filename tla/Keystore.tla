------------------------------ MODULE Keystore ------------------------------
(***************************************************************************)
(* The wallet's key file (crates/relyo-wallet/src/keystore.rs, wallet.rs   *)
(* and the create and info commands of main.rs), written and read by runs  *)
(* of the program that can die at any step.  Encryption is external: a     *)
(* file opens with its own passphrase only, and a damaged one not at all.  *)
(***************************************************************************)
EXTENDS Naturals

CONSTANTS
    Process,        \* runs of the create command
    Key,            \* the key each of them generates
    OldKey,         \* key of a file from an earlier version
    Passphrase      \* the user's passphrase

VARIABLES
    file,           \* what is at the path
    pc,             \* where each run is
    announced,      \* keys whose address a run has printed
    overlapped      \* two runs of create were ever between the test and the end of the write

keyVars == <<file, pc, announced, overlapped>>

Absent == [state |-> "absent"]
Partial == [state |-> "partial"]
Complete(version, key) == [state |-> "complete", version |-> version, key |-> key, passphrase |-> Passphrase]

KeyInit ==
    /\ \/ file = Absent /\ announced = {}
       \/ file = Complete(1, OldKey) /\ announced = {OldKey}
    /\ pc = [p \in Process |-> "start"]
    /\ overlapped = FALSE

\* KeyStore::load, both versions: the key, or an error.
Opens(passphrase) == file.state = "complete" /\ file.version \in {1, 2} /\ file.passphrase = passphrase
load(passphrase) == IF Opens(passphrase) THEN file.key ELSE "error"

exists == file # Absent
Running == {p \in Process : pc[p] \in {"checked", "opened"}}

\* Mutant: only a file of this version is in the way.
CheckVersion(p) ==
    /\ pc[p] = "start"
    /\ pc' = [pc EXCEPT ![p] = IF file.state = "complete" /\ file.version = 2 THEN "refused" ELSE "checked"]
    /\ overlapped' = (overlapped \/ Running # {})
    /\ UNCHANGED <<file, announced>>

Check(p) ==
    /\ pc[p] = "start"
    /\ \/ exists /\ pc' = [pc EXCEPT ![p] = "refused"] /\ UNCHANGED overlapped
       \/ /\ ~exists /\ pc' = [pc EXCEPT ![p] = "checked"]
          /\ overlapped' = (overlapped \/ Running # {})
    /\ UNCHANGED <<file, announced>>

\* fs::write: the file is created or emptied, and then written.
OpenFile(p) ==
    /\ pc[p] = "checked"
    /\ file' = Partial
    /\ pc' = [pc EXCEPT ![p] = "opened"]
    /\ UNCHANGED <<announced, overlapped>>

WriteFile(p) ==
    /\ pc[p] = "opened"
    /\ file' = Complete(2, Key[p])
    /\ pc' = [pc EXCEPT ![p] = "saved"]
    /\ UNCHANGED <<announced, overlapped>>

Announce(p) ==
    /\ pc[p] = "saved"
    /\ announced' = announced \cup {Key[p]}
    /\ pc' = [pc EXCEPT ![p] = "done"]
    /\ UNCHANGED <<file, overlapped>>

\* The write fails or the program dies: what has been written stays.
Die(p) ==
    /\ pc[p] \in {"checked", "opened", "saved"}
    /\ pc' = [pc EXCEPT ![p] = "dead"]
    /\ UNCHANGED <<file, announced, overlapped>>

\* The user follows the advice to delete a file that does not open.
Delete ==
    /\ exists /\ load(Passphrase) = "error" /\ Running = {}
    /\ file' = Absent
    /\ UNCHANGED <<pc, announced, overlapped>>

KeyNext ==
    \/ \E p \in Process : Check(p) \/ OpenFile(p) \/ WriteFile(p) \/ Announce(p) \/ Die(p)
    \/ Delete

KeySpec == KeyInit /\ [][KeyNext]_keyVars

-----------------------------------------------------------------------------
(***************************************************************************)
(* A key whose address was printed, by this or by an earlier version, can  *)
(* be opened from the file, whatever runs have died since, as long as no   *)
(* two runs of create overlap: then the later one replaces the key of the  *)
(* earlier one (main.rs:94-100, keystore.rs:76).                           *)
(***************************************************************************)
AnnouncedKeyOpens ==
    ~overlapped => \A k \in announced : load(Passphrase) = k
=============================================================================
