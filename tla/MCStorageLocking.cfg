CONSTANTS
    Tasks = {t1, t2}
    Names = {n1, n2}
    Data = {d1, d2}
    t1 = t1
    t2 = t2
    n1 = n1
    n2 = n2
    d1 = d1
    d2 = d2
    h1 = h1
    h2 = h2
    None = None
    HexDigest <- MCHexDigest
    StartsWith <- MCStartsWith
    MaxCalls = 3
    MaxLoss = 1
    MaxCrash = 1
SPECIFICATION FairSpec
INVARIANTS UniqueNames IndexBacked
PROPERTIES BlobWrittenOnce CallsReturn ImplementsNamedIndex
CHECK_DEADLOCK FALSE
