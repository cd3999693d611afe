SPECIFICATION Spec
CONSTANTS
    n1 = n1  n2 = n2  n3 = n3
    Handler = {h1, h2}
    Admin = {a1, a2}
    Node = {n1, n2, n3}
    Local = n1
    Hash = {t1}
    Quorum = 2
    QuorumWeight = 3
    ThresholdBps = 6667
    MinPower = 1
    Powers = {1}
    Sets = {}
    MaxU64 = 15
SYMMETRY Symmetry
INVARIANTS
    UndecidedIsPending
    PowerMatchesSet
