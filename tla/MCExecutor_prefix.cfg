\* A datastore answers a request for x with x and w, which the executor has already.
CONSTANTS
    m = m  w = w  x = x  r = r  d1 = d1  d2 = d2  h1 = h1  h2 = h2
    j1 = j1  j2 = j2  j3 = j3  ds1 = ds1  ds2 = ds2
    NoName = NoName  NoJob = NoJob  Client = Client
    Names <- UniqueNames
    Data = {d1, d2}
    DataOf <- UniqueDataOf
    HexDigest <- MCHexDigest
    Jobs = {j1, j2}
    CapFields <- MCCapFields
    Info <- UniqueInfo
    Carried <- UniqueCarried
    Datastores = {ds1}
    Held <- PrefixHeld
    StartsWith <- PrefixStartsWith
    Decodable = {j1, j2}
    CapRange <- MCCapRange
    MaxSubmit = 1
    MaxBlobLoss = 1
    MaxDrop = 0
SPECIFICATION FairSpec
PROPERTY ObtainableJobsRun
\* An idle executor with nothing queued has no step to take.
CHECK_DEADLOCK FALSE
