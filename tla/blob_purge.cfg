SPECIFICATION Spec
CONSTANTS
    Key = {k1}
    Object = {o1, o2, o3}
    Field = {f1}
    Client = {c1, c2}
    Nobody = Nobody
    Op = {"put_and_attach", "release", "purge"}
    MaxBlob = 5
    MaxRef = 7
SYMMETRY Alike
INVARIANT CountNeverAbove
PROPERTY KeepsLedger
CHECK_DEADLOCK FALSE
