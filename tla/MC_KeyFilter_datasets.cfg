CONSTANTS
    Names <- MC_ExactNames
    Globs = {}
    Subs <- MC_Subs
    Keys <- MC_Keys
    Null = Null
    Patterns <- MC_DatasetsAndKeys
    MaxPatterns = 3
SPECIFICATION Spec
INVARIANTS
    TypeOK
    FilterIsUnionOfPatterns
