SPECIFICATION FairSpec
CONSTANTS
    Key = {k1}
    Object = {o1, o2}
    Field = {f1}
    Client = {c1, c2}
    Nobody = Nobody
    Op = {"put", "put_and_attach", "tracked", "attach", "release", "discard"}
    MaxBlob = 4
    MaxRef = 5
INVARIANT CountMatchesRefs
PROPERTY KeepsLedger EveryCallReturns
CHECK_DEADLOCK FALSE
