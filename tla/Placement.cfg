CONSTANTS
    Old = Old
    New = New
    Changed = Changed
    Torn = Torn
    Absent = Absent
SPECIFICATION Spec
INVARIANTS OldOrConfirmed PlaceInv
PROPERTIES GivenUpWhenDurable
