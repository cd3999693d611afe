SPECIFICATION Spec
CONSTANTS
    n1 = n1  n2 = n2  n3 = n3
    Handler = {main}
    Admin = {a1}
    Node = {n1, n2, n3}
    Local = n1
    Hash = {t1}
    Quorum = 2
    QuorumWeight = 2
    ThresholdBps = 6667
    MinPower = 2
    Powers = {1, 2}
    Sets <- MCSets
    MaxU64 = 15
INVARIANTS
    VoterCountedOnce
    QuorumIsDecided
    StatusMatchesLastEvent
    PowerMatchesSet
