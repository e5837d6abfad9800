CONSTANTS
    Units = {bft, execution, rpc}
    Rpc = rpc
    MaxGen = 2
    Absent = Absent
    Draft = Draft
    Foreign = Foreign
    Down = Down
SPECIFICATION FairSpec
INVARIANTS OneIdentity MixedIsLocked Recoverable MasksAccounted IInv
PROPERTIES CutoverFinishes BeginsInSync EndsDone SwitchesIdentity
