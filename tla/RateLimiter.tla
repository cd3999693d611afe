----------------------------- MODULE RateLimiter ----------------------------
(***************************************************************************)
(* RateLimiter (crates/relyo-node/src/rate_limiter.rs) for one sender, as  *)
(* the windows of two senders share nothing.  A call reads the clock       *)
(* first and locks the sender's window afterwards, so that another call    *)
(* with a later instant can come first.                                    *)
(***************************************************************************)
EXTENDS Callers, Integers, Totals

CONSTANTS
    max_tps,
    Second,     \* length of the window, in ticks of the clock
    MaxTicks    \* bound on the clock

VARIABLES
    time,
    window,     \* how many of the sender's accepted transactions have each instant
    call,       \* what each thread runs, and the instant it has read
    accepted    \* how many transactions were let through at each instant

limiterVars == <<time, window, call, accepted>>

Instant == 0 .. MaxTicks
NoCall == [op |-> "idle", now |-> 0]

LimiterInit ==
    /\ time = 0
    /\ window = [i \in Instant |-> 0] /\ accepted = [i \in Instant |-> 0]
    /\ call = [t \in Thread |-> NoCall]

PassTick ==
    /\ time < MaxTicks /\ time' = time + 1
    /\ UNCHANGED <<window, call, accepted>>

ReadClock(t, op) ==
    /\ call[t] = NoCall
    /\ call' = [call EXCEPT ![t] = [op |-> op, now |-> time]]
    /\ UNCHANGED <<time, window, accepted>>

\* The list of instants is only filtered, counted and appended to, so that its order does not matter.
Recent(now) == [i \in Instant |-> IF i > now - Second THEN window[i] ELSE 0]

\* Mutant: one transaction more.
checkAbove(t) ==
    LET recent == Recent(call[t].now)
        above  == Total(recent, Instant) > max_tps
    IN  /\ call[t].op = "check"
        /\ window' = IF above THEN recent ELSE [recent EXCEPT ![call[t].now] = @ + 1]
        /\ accepted' = IF above THEN accepted ELSE [accepted EXCEPT ![time] = @ + 1]
        /\ call' = [call EXCEPT ![t] = NoCall]
        /\ UNCHANGED time

check(t) ==
    LET recent == Recent(call[t].now)
    IN  /\ call[t].op = "check"
        /\ \/ Total(recent, Instant) >= max_tps /\ window' = recent /\ UNCHANGED accepted
           \/ /\ Total(recent, Instant) < max_tps
              /\ window' = [recent EXCEPT ![call[t].now] = @ + 1]
              /\ accepted' = [accepted EXCEPT ![time] = @ + 1]
        /\ call' = [call EXCEPT ![t] = NoCall]
        /\ UNCHANGED time

cleanup(t) ==
    /\ call[t].op = "cleanup"
    /\ window' = Recent(call[t].now)
    /\ call' = [call EXCEPT ![t] = NoCall]
    /\ UNCHANGED <<time, accepted>>

LimiterNext ==
    \/ PassTick
    \/ \E t \in Thread : check(t) \/ cleanup(t) \/ \E op \in {"check", "cleanup"} : ReadClock(t, op)

LimiterSpec == LimiterInit /\ [][LimiterNext]_limiterVars

-----------------------------------------------------------------------------
\* The second that begins at an instant.
SecondFrom(from) == {i \in Instant : from <= i /\ i < from + Second}

(***************************************************************************)
(* However calls are delayed between reading the clock and locking the     *)
(* window, at most max_tps transactions and one late one for each thread   *)
(* pass within one second (rate_limiter.rs:27-42).                         *)
(***************************************************************************)
RateIsBounded ==
    \A from \in 0 .. time : Total(accepted, SecondFrom(from)) <= max_tps + Cardinality(Thread)
=============================================================================
