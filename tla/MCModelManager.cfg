SPECIFICATION Spec
CONSTANTS
    Process = {cli, ide}
    Sidecar = {ide}
    Model = {m}
    Digest = {w1, w2}
    Endpoint = {managed, other}
    Managed = managed
    Home <- Everywhere
    Root = {default, chosen}
    DefaultRoot = default
    AttemptCap = 1
    MaxOps = 4
    MaxChanges = 2
    None = None
SYMMETRY Symmetry
INVARIANTS
    LeaseInv
    SelectionInv
    RecordInv
