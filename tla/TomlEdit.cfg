CONSTANTS
    Tables = {discovery, statesync}
    Discovery = discovery
    SeqNum = seq
    Addr = address
    Values = {v, w}
    Placeholder = Placeholder
    Zero = Zero
    Root = Root
    Odd = Odd
    None = None
    InitialLines = 4
    MaxLines = 7
SYMMETRY Symmetry
SPECIFICATION Spec
INVARIANTS TomlInv ValidIsEdited ReadAgrees EditsHold
PROPERTIES EditIsExact
