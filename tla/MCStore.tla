------------------------------ MODULE MCStore -------------------------------
(***************************************************************************)
(* Instances of the structures that a node's threads share, for TLC.  They *)
(* share nothing among each other, so that a behaviour exercises the one   *)
(* that part names.                                                        *)
(***************************************************************************)
EXTENDS Checkpoints, Staking, Conflicts, Tips, PeerManager, RateLimiter, TLC

CONSTANTS p1, p2, p3, Part

VARIABLE part

MCWrites ==
    {<<[table |-> "transactions", key |-> p1, value |-> "x"],
       [table |-> "transactions", key |-> p2, value |-> "y"]>>,
     <<[table |-> "balances", key |-> p1, value |-> 1]>>}
MCAddresses == <<p1, p2>>
MCPairs == {{p1, p2}, {p2, p3}}
MCPeerIds == <<p1, p2, p3>>
MCAddress == {[sep |-> ".", parts |-> <<1, 2, 3, 4>>], [sep |-> ":", parts |-> <<1, 2, 3, 4, 5>>]}

Symmetry == Permutations(Thread) \cup Permutations(Hash)

StoreVars == <<part, vars, stakingVars, detectorVars, selectorVars, peerVars, limiterVars>>

StoreInit ==
    /\ part \in Part
    /\ Init /\ StakingInit /\ DetectorInit /\ SelectorInit /\ PeersInit /\ LimiterInit

StoreNext ==
    \/ /\ part = "checkpoints" /\ Next
       /\ UNCHANGED <<part, stakingVars, detectorVars, selectorVars, peerVars, limiterVars>>
    \/ /\ part = "staking" /\ StakingNext
       /\ UNCHANGED <<part, vars, detectorVars, selectorVars, peerVars, limiterVars>>
    \/ /\ part = "conflicts" /\ DetectorNext
       /\ UNCHANGED <<part, vars, stakingVars, selectorVars, peerVars, limiterVars>>
    \/ /\ part = "tips" /\ SelectorNext
       /\ UNCHANGED <<part, vars, stakingVars, detectorVars, peerVars, limiterVars>>
    \/ /\ part = "peers" /\ PeersNext
       /\ UNCHANGED <<part, vars, stakingVars, detectorVars, selectorVars, limiterVars>>
    \/ /\ part = "rate" /\ LimiterNext
       /\ UNCHANGED <<part, vars, stakingVars, detectorVars, selectorVars, peerVars>>

StoreSpec == StoreInit /\ [][StoreNext]_StoreVars
=============================================================================
