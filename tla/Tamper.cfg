CONSTANTS
    Units = {bft, rpc}
    Rpc = rpc
    MaxGen = 1
    Absent = Absent
    Draft = Draft
    Foreign = Foreign
    Down = Down
SPECIFICATION TamperSpec
PROPERTIES OnlyConfirmedPlaced OnlyVerifiedUnmasked
