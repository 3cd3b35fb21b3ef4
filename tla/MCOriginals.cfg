SPECIFICATION Spec
CONSTANTS
    a = a
    b = b
    c = c
    p = p
    q = q
    lib = lib
    app = app
    doc = doc
    Job = {a, b, c}
    ProcessOf <- TwoProcesses
    Package = {lib, app, doc}
    Untested = {doc}
    Workload <- TestEdits
    NoTree = NoTree
    NoJob = NoJob
    MemoSize = 1
INVARIANTS
    OriginalsMustPass
