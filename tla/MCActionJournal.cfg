CONSTANTS
    Intents = {i1, i2}
    Digests = {d1, d2}
    NoDigest = none
    MaxRecords = 11
    MaxFrame = 2
    MaxBytes = 18
SPECIFICATION Spec
SYMMETRY Symmetry
INVARIANTS
    NeverCorrupt
    MapsMatchLog
    AdmittedPlanNeverStarved
    MirrorVerifies
PROPERTY
    DurableForward
