SPECIFICATION FairSpec
CONSTANTS
    a = a
    A = A
    b = b
    m = m
    stop = stop
    Z = Z
    z = z
    noise = noise
    long = long
    Token = {a, A, b, m, stop, Z, z, noise, long}
    Noise = {noise}
    Long = {long}
    StopLine = {stop, Z}
    Lower <- Lowers
    Hash <- Hashes
    IntMax = 127
    Document <- Documents
    MaxDocs = 3
    Query <- Queries
    MaxBatch = 3
INVARIANTS NothingDropped WeightsOfTokens QueryFinds
PROPERTY EmbedEnds
CHECK_DEADLOCK FALSE
