SPECIFICATION Spec
CONSTANTS
    n1 = n1  n2 = n2  n3 = n3  a = a  b = b
    x1 = x1  x2 = x2  y1 = y1  v1 = v1
    Node = {n1, n2, n3}
    Name <- MCName
    Tx = {x1, x2, y1, v1}
    Addr = {a, b}
    Sender <- MCSender
    Receiver <- MCReceiver
    Amount <- MCAmount
    Fee <- MCFee
    Nonce <- MCNonce
    Parents <- MCParents
    Valid = {x1, x2, y1, v1}
    Timestamp <- MCTimestamp
    Funds <- MCFunds
    Cap = 9
    Quorum = 2
    Link <- MCLink
    Offered <- MCOffered
    Pooled <- MCPooled
    Requests <- MCRequests
    BatchSize = 2
    MaxFaults = 1
INVARIANTS
    NoncesHaveNoGap
    AncestorsAreKnown
    AnnouncedOnce
    BanIsEnforced
    NothingIsDecided
CHECK_DEADLOCK FALSE
