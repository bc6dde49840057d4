SPECIFICATION Spec
CONSTANTS
    accounts = accounts
    unknown = unknown
    k1 = k1
    k2 = k2
    v1 = v1
    v2 = v2
    t1 = t1
    t2 = t2
    s1 = s1
    s2 = s2
    Schemas = {accounts, unknown}
    Registered = {accounts}
    Keys = {k1, k2}
    Values = {v1}
    Absent = Absent
    Deleted = Deleted
    Untouched = Untouched
    Txs = {t1, t2}
    Snaps = {s1, s2}
    Main = Main
    None = None
    MaxWrites = 3
SYMMETRY Symmetry
CHECK_DEADLOCK FALSE
INVARIANTS
    TypeOK
    ReadsOwnWrites
    MultiGetOfOneState
    ReleasedBeforeClose
PROPERTIES
    CommitsWhole
    SnapshotsFixed
