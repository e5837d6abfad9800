CONSTANTS
    Procs = {p1, p2}
    Keys = {started, other}
    Started = started
    Values = {v1, v2}
    None = None
    Torn = Torn
SPECIFICATION Spec
SYMMETRY Symmetry
INVARIANTS SavedSurvives KeepInv
PROPERTIES FreshIsSafe SetIsAtomic
