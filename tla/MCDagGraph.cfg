SPECIFICATION Spec
CONSTANTS
    a = a  b = b
    g1 = g1  g2 = g2  x1 = x1  x2 = x2  z1 = z1
    v1 = v1  w1 = w1  over = over  bad = bad
    Thread = {t1, t2}
    NoThread = NoThread
    Addr = {a, b}
    Hash = {g1, g2, x1, x2, v1, z1}
    Zero = Zero
    Tx <- MCTx
    Genesis = {g1, g2}
    BaseFee = 1
    SupplyCap = 9
    MaxU64 = 15
    MinConfirmationDepth = 0
    Reported = {"Confirmed"}
    Entry = {"submit"}
SYMMETRY Symmetry
INVARIANTS
    DebitIsCovered
    NonceLogIsExact
    TipsAreUnreferenced
    FrontierIsComplete
    DepthFollowsParents
    MaxDepthIsBound
    LedgerReplaysLog
