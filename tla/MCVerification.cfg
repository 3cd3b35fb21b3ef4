SPECIFICATION Spec
CONSTANTS
    a = a
    b = b
    c = c
    p = p
    q = q
    lib = lib
    app = app
    doc = doc
    Job = {a, b, c}
    ProcessOf <- TwoProcesses
    Package = {lib, app, doc}
    Untested = {doc}
    Workload <- Workloads
    NoTree = NoTree
    NoJob = NoJob
    MemoSize = 1
SYMMETRY Twins
INVARIANTS
    LockInv
    VerdictInv
