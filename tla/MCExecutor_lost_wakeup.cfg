\* A job carrying a taken name stores some data and raises before notify_all.
CONSTANTS
    m = m  w = w  x = x  r = r  d1 = d1  d2 = d2  h1 = h1  h2 = h2
    j1 = j1  j2 = j2  j3 = j3  ds1 = ds1  ds2 = ds2
    NoName = NoName  NoJob = NoJob  Client = Client
    Names <- SharedNames
    Data = {d1, d2}
    DataOf <- SharedDataOf
    HexDigest <- MCHexDigest
    Jobs = {j1, j2, j3}
    CapFields <- MCCapFields
    Info <- SharedInfo
    Carried <- SharedCarried
    Datastores = {ds1, ds2}
    Held <- SharedHeld
    StartsWith <- ExactNames
    CapRange <- MCCapRange
    MaxBlobLoss = 1
    MaxDrop = 0
    Decodable = {j1, j2, j3}
    MaxSubmit = 1
SPECIFICATION Spec
INVARIANT NoLostWakeup
CHECK_DEADLOCK FALSE
