SPECIFICATION StoreSpec
CONSTANTS
    p1 = p1  p2 = p2  p3 = p3
    Thread = {t1, t2}
    tx_interval = 2
    Writes <- MCWrites
    MaxTxs = 4
    MaxRuns = 2
    Addresses <- MCAddresses
    Parsed = {p1}
    Amounts = {1}
    LockTime = 1  LockEpochs = 1  MaxTime = 1  MaxEpoch = 1  MaxCalls = 3
    Pairs <- MCPairs
    Hash = {h1, h2}
    Weights = {0}  WeightLimit = 3
    PeerIds <- MCPeerIds
    Address <- MCAddress
    max_peers = 1
    max_peers_per_bucket = 1
    max_tps = 2
    Second = 2
    MaxTicks = 4
    Part = {"staking"}
INVARIANT SnapshotIsPointInTime
CHECK_DEADLOCK FALSE
