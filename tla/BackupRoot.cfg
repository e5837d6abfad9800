CONSTANTS
    Roots <- OtherRoots
    Attempts = {a1}
    None = None
SPECIFICATION Spec
INVARIANTS BegunResumable
CHECK_DEADLOCK FALSE
