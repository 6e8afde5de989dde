\* Shared names, every path of the intake and the scheduler.
CONSTANTS
    m = m  w = w  x = x  r = r  d1 = d1  d2 = d2  h1 = h1  h2 = h2
    j1 = j1  j2 = j2  j3 = j3  ds1 = ds1  ds2 = ds2
    NoName = NoName  NoJob = NoJob  Client = Client
    Names <- SharedNames
    Data = {d1, d2}
    DataOf <- SharedDataOf
    HexDigest <- MCHexDigest
    Jobs = {j1, j2, j3}
    CapFields <- MCCapFields
    Info <- SharedInfo
    Carried <- RotationCarried
    Datastores = {ds1, ds2}
    Held <- SharedHeld
    StartsWith <- ExactNames
    Decodable = {j1, j2}
    CapRange <- MCCapRange
    MaxSubmit = 2
    MaxBlobLoss = 1
    MaxDrop = 1
SPECIFICATION Spec
INVARIANT TypeOK PendingInputsRequested JobsConserved
\* An idle executor with nothing queued has no step to take.
CHECK_DEADLOCK FALSE
