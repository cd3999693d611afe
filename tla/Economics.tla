----------------------------- MODULE Economics ------------------------------
(***************************************************************************)
(* The token's arithmetic: the emission schedule (relyo-core               *)
(* primitives.rs), the division of a reward pool among nodes               *)
(* (relyo-consensus rewards.rs), the fee market (relyo-core types.rs) and  *)
(* the printed form of an amount (token.rs).  The code computes in part in *)
(* floating point: what a rounding can make of a result is a choice here.  *)
(***************************************************************************)
EXTENDS Integers, SequencesExt, FiniteSetsExt

CONSTANTS
    Bps,        \* the emission's basis points in 1: 10_000
    MaxEpoch,   \* bound on the epochs that are looked at
    Precision,  \* a rounding changes a double by at most this part of it: 2^53
    base_fee, MinBps, MaxBps,   \* the fee market's constants: 1x is 10_000, the most 100_000
    Decimals    \* digits of a base unit after the point: 8

-----------------------------------------------------------------------------
(***************************************************************************)
(* EmissionSchedule.  initial_reward is total_supply * (1 - decay) as a    *)
(* float gives it: for the protocol's constants, two units too high.       *)
(***************************************************************************)
InitialRewards(total_supply, decay_bps) ==
    LET exact == (total_supply * (Bps - decay_bps)) \div Bps
    IN  exact .. exact + 2

\* Mutant: the reward is rounded up.
DecayedUp(reward, decay_bps) == (reward * decay_bps + Bps - 1) \div Bps

\* One turn of the loop of reward_at_epoch.
Decayed(reward, decay_bps) == (reward * decay_bps) \div Bps

\* reward_at_epoch: the reward of each epoch, epoch e at place e + 1.
reward_at_epoch(initial, decay_bps) ==
    FoldLeft(LAMBDA rewards, e : Append(rewards, Decayed(Last(rewards), decay_bps)),
             <<initial>>, [e \in 1..MaxEpoch |-> e])

\* total_emitted_through_epoch for each epoch, and before the cap is applied to it.
Emitted(rewards) ==
    FoldLeft(LAMBDA totals, r : Append(totals, r + (IF totals = <<>> THEN 0 ELSE Last(totals))),
             <<>>, rewards)

total_emitted_through_epoch(emitted, total_supply) ==
    [i \in DOMAIN emitted |-> Min({emitted[i], total_supply})]

(***************************************************************************)
(* The cap never bites: the rewards of all epochs add up to at most the    *)
(* supply, although the first one is rounded up, because every later one   *)
(* is rounded down (primitives.rs:605-650).  So each epoch's part of       *)
(* total_emitted_through_epoch is the whole reward.                        *)
(***************************************************************************)
RewardsFitSupply(total_supply, decay_bps) ==
    \A initial \in InitialRewards(total_supply, decay_bps) :
        LET emitted == Emitted(reward_at_epoch(initial, decay_bps))
        IN  total_emitted_through_epoch(emitted, total_supply) = emitted

-----------------------------------------------------------------------------
(***************************************************************************)
(* RewardCalculator.calculate.  compute gives a node's score in units of   *)
(* 1 / (120 * validations * bandwidth): 40% for the hours of a day it was  *)
(* up, 40% for its part of the validations, 20% for that of the bandwidth. *)
(* A total of 0 leaves its part out.                                       *)
(***************************************************************************)
compute(score, validations, bandwidth) ==
    LET v == Max({validations, 1})  b == Max({bandwidth, 1})
    IN  2 * Min({score.uptime_hours, 24}) * v * b
          + (IF validations > 0 THEN 48 * score.validated_txs * b ELSE 0)
          + (IF bandwidth > 0 THEN 24 * score.relayed_bytes * v ELSE 0)

\* The roundings on the way to a share: 7 in a score, 7 and one per node in their
\* total, 3 in the share itself.
Roundings(n) == n + 16

\* What a node but the last can get of the pool: the whole units of a number that the
\* roundings may have made larger or smaller than the exact quotient.
Share(score, total, pool, n) ==
    {k \in 0 .. 2 * pool :
        /\ k * total * Precision <= score * pool * (Precision + Roundings(n))
        /\ (k + 1) * total * Precision > score * pool * (Precision - Roundings(n))}

\* Mutant: the last node gets its share, too.
RestShare(score, total, pool, distributed) == Share(score, total, pool, 1)

\* The last node gets what is left.
Rest(score, total, pool, distributed) == {pool - distributed}

\* The rewards that calculate may return for scores in the order of the hash map.
calculate(scores, pool) ==
    LET n     == Len(scores)
        total == FoldSeq(+, 0, scores)
        Options(i, given) == IF i = n THEN Rest(scores[n], total, pool, FoldSeq(+, 0, given))
                             ELSE Share(scores[i], total, pool, n)
        upto[i \in 0..n] ==
            IF i = 0 THEN {<<>>}
            ELSE UNION {{Append(given, r) : r \in Options(i, given)} : given \in upto[i - 1]}
    IN  IF total = 0 THEN {<<>>} ELSE upto[n]

(***************************************************************************)
(* In whatever order the hash map gives the nodes and however the floats   *)
(* are rounded, the whole pool is given away, nobody's reward is negative, *)
(* which the subtraction for the last node could make it, and none is off  *)
(* the exact share by more than a unit per node (rewards.rs:45-74): as     *)
(* long as the roundings of the whole pool are less than a unit, which the *)
(* daily emission allows for 464 nodes.                                    *)
(***************************************************************************)
PoolIsDividedFairly(nodes, pool, validations, bandwidth) ==
    pool * Roundings(Len(nodes)) < Precision =>
    LET scores == [i \in DOMAIN nodes |-> compute(nodes[i], validations, bandwidth)]
        total  == FoldSeq(+, 0, scores)
    IN  \A rewards \in calculate(scores, pool) :
            rewards # <<>> =>
                /\ FoldSeq(+, 0, rewards) = pool
                /\ \A i \in DOMAIN rewards :
                       /\ rewards[i] >= 0
                       /\ rewards[i] * total <= scores[i] * pool + Len(nodes) * total
                       /\ rewards[i] * total >= scores[i] * pool - Len(nodes) * total

-----------------------------------------------------------------------------
\* FeeMarket::default
DefaultMultiplier == MinBps

\* Mutant: the multiplier has no lower bound.
LoweredFreely(multiplier) == (multiplier * 9) \div 10

Lowered(multiplier) == Max({(multiplier * 9) \div 10, MinBps})

Raised(multiplier) == Min({(multiplier * 11) \div 10, MaxBps})

\* congestion_level above 0.8 and below 0.2; it is 0.0 without a capacity.
IsCongested(size, capacity) == capacity > 0 /\ 5 * size > 4 * capacity
IsIdle(size, capacity) == 5 * size < capacity \/ capacity = 0

update_congestion(multiplier, size, capacity) ==
    IF IsCongested(size, capacity) THEN Raised(multiplier)
    ELSE IF IsIdle(size, capacity) THEN Lowered(multiplier)
    ELSE multiplier

effective_fee(multiplier) ==
    Min({Max({(base_fee * multiplier) \div MinBps, base_fee}), base_fee * 1000})

(***************************************************************************)
(* Fees follow the load from every multiplier that any sequence of loads   *)
(* leads to (types.rs:156-174): a congested mempool raises the fee until   *)
(* it is ten times the base fee, an idle one lowers it until it is the     *)
(* base fee, and nowhere does the integer division hold it.                *)
(***************************************************************************)
FeeFollowsLoad(multiplier) ==
    /\ \/ effective_fee(update_congestion(multiplier, 1, 1)) > effective_fee(multiplier)
       \/ effective_fee(multiplier) = (base_fee * MaxBps) \div MinBps
    /\ \/ effective_fee(update_congestion(multiplier, 0, 1)) < effective_fee(multiplier)
       \/ effective_fee(multiplier) = base_fee

-----------------------------------------------------------------------------
(***************************************************************************)
(* format_rly and the way back.  An amount is printed as a whole number    *)
(* and, after the point, the digits of the rest, zeros at its front kept   *)
(* and zeros at its end left out.  What the user types is read as a        *)
(* number and rly_to_base rounds it to the nearest base unit.              *)
(***************************************************************************)
Unit == 10^Decimals

Digits(n, width) == [i \in 1..width |-> (n \div 10^(width - i)) % 10]

Trimmed(digits) ==
    LET kept == {i \in DOMAIN digits : digits[i] # 0}
    IN  IF kept = {} THEN <<>> ELSE SubSeq(digits, 1, Max(kept))

\* Mutant: the zeros at the front are lost.
FractionBare(frac) ==
    LET all == Trimmed(Digits(frac, Decimals))
    IN  SelectSeq(all, LAMBDA d : d # 0)

Fraction(frac) == Trimmed(Digits(frac, Decimals))

format_rly(base) == [whole |-> base \div Unit, point |-> Fraction(base % Unit)]

\* Ten times the base units that a printed amount stands for, and half a unit.
rly_to_base(printed) ==
    LET Value(d) == FoldSeq(+, 0, [i \in DOMAIN d |-> d[i] * 10^(Decimals + 1 - i)])
    IN  (printed.whole * Unit * 10 + Value(printed.point) + 5) \div 10

(***************************************************************************)
(* What the wallet prints and the user types in again is the same amount   *)
(* (token.rs:54-60, 74-86), as long as a double holds it exactly.          *)
(***************************************************************************)
PrintedAmountReadsBack(base) == rly_to_base(format_rly(base)) = base
=============================================================================
