CONSTANTS
    Roots <- PlainRoots
    Attempts = {a1, a2, a3}
    None = None
SYMMETRY Symmetry
SPECIFICATION Spec
INVARIANTS RecordInv NeverCorrupt OneAttempt
