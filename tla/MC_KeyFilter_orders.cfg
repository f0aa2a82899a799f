CONSTANTS
    Names <- MC_OrderNames
    Globs <- MC_Globs
    Subs <- MC_Subs
    Keys <- MC_Keys
    Null = Null
    Patterns <- MC_OrderPatterns
    MaxPatterns = 3
SPECIFICATION Spec
INVARIANTS
    FilterIsUnionOfPatterns
