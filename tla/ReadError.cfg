CONSTANTS
    Procs = {p1}
    Keys = {started, other}
    Started = started
    Values = {v1, v2}
    None = None
    Torn = Torn
SPECIFICATION ReadErrorSpec
SYMMETRY Symmetry
INVARIANTS SavedSurvives
