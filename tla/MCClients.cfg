SPECIFICATION Spec
CONSTANTS
    Tx = {x1, x2}
    Subscriber = {s1}
    Capacity = 2
    MaxStats = 2
    Run = {r1, r2}
    Amount <- MCAmount
    Other = {o1}
    Genesis = g
    ZeroHash = z
    Fee = 1
    Funds = 5
    Process = {p1, p2, p3}
    Key <- MCKey
    OldKey = k0
    Passphrase = "secret"
INVARIANTS
    ReceivedHasNoGap
    PaymentsAreAsTold
    AnnouncedKeyOpens
    MerkleIsSound
    RoundingIsHarmless
    BytesAreUnambiguous
PROPERTY AcceptedReachesSubscriber
CHECK_DEADLOCK FALSE
