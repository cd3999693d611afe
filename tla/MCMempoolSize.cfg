SPECIFICATION Spec
CONSTANTS
    a = a  b = b  x1 = x1  x2 = x2  y1 = y1
    Inserter = {i1, i2}
    Remover = {r1}
    Addr = {a, b}
    Hash = {x1, x2, y1}
    NoTx = NoTx
    Sender <- MCSender
    Fee <- MCNoFee
    Timestamp <- MCTimestamp
    Weight <- MCFee
    MaxSize = 1
    BatchSize = 2
SYMMETRY Symmetry
INVARIANTS
    SizeIsBounded
