SPECIFICATION UpdatesSpec
CONSTANTS
    Update = {u1, u2, u3}
    Batch = {u1, u2}
    Record = {r1, r2}
    Name = {n1, n2}
    Value = {v1}
    ABSENT = ABSENT
SYMMETRY Symmetry
INVARIANTS
    NothingErased
    BatchOkMeansAllWritten
CHECK_DEADLOCK FALSE
