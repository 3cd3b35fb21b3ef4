SPECIFICATION Spec
CONSTANTS
    p1 = p1
    p2 = p2
    s1 = s1
    s2 = s2
    r1 = r1
    r2 = r2
    Process = {p1, p2}
    Stage = {s1, s2}
    Pid = {r1, r2}
    None = None
    Bytes = 2
    MaxStarts = 2
    MaxChanges = 1
SYMMETRY Symmetry
INVARIANTS
    FilesInv
    FolderNeverBlocks
    RuntimeInv
PROPERTIES
    RemovesOnlyItsOwn
