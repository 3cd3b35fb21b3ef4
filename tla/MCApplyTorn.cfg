SPECIFICATION Spec
CONSTANTS
    f1 = f1
    f2 = f2
    File = {f1, f2}
    New = New
    Requests <- BatchOnly
    OnWindows = TRUE
INVARIANTS
    BatchRecoverable
