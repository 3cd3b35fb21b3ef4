SPECIFICATION ApplierSpec
CONSTANTS
    p1 = p1
    p2 = p2
    seed = seed
    u1 = u1
    Path = {p1, p2}
    UserLine = {u1}
    HeadLine = {seed}
    Eof = Eof
    HeadTree <- OneTracked
    MaxSubtasks = 2
INVARIANTS
    SnapshotInv
    RejectRemovesTask
PROPERTIES
    RejectKeepsUserWork
