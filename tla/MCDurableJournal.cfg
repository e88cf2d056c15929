CONSTANTS
    Procs = {p1, p2}
    NoProc = nobody
    Inodes = {f1, f2, f3}
    NoInode = nofile
    light = light
    heavy = heavy
    Payloads = {light, heavy}
    Weight <- Weights
    MaxFrames = 2
    Limit = 2
    MaxPageBytes = 2
SPECIFICATION Spec
SYMMETRY Symmetry
INVARIANTS
    SoleWriter
    AckedSurvives
    PagesReassemble
