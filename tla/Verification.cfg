CONSTANTS
    Names = {n1, n2}
    MaxGen = 2
    Limits = {0, 1, 4}
    Cap = 2
    Pause = 1
    CheckTime = 3
    None = None
    Reserved = Reserved
SPECIFICATION Spec
INVARIANTS NoExportLost PairAgrees DoneIsDone WindowKept VerifyInv
PROPERTIES RunEnds
