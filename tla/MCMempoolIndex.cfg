SPECIFICATION Spec
CONSTANTS
    a = a  b = b  x1 = x1  x2 = x2  y1 = y1
    Inserter = {i1}
    Remover = {r1}
    Addr = {a, b}
    Hash = {x1, x2}
    NoTx = NoTx
    Sender <- MCSender
    Fee <- MCFee
    Timestamp <- MCTimestamp
    Weight <- MCFee
    MaxSize = 2
    BatchSize = 2
INVARIANTS
    IndexIsComplete
