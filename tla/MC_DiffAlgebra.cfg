CONSTANTS
    DS <- MC_DS
    Layout <- MC_Layout
    Values <- MC_Values
    Absent = Absent
    NoDelta = NoDelta
    Conflict = Conflict
    MaxSteps = 3
    DataChangesFormat = FALSE
SPECIFICATION Spec
INVARIANTS
    TypeOK
    ConcatenationIsRangeDiff
