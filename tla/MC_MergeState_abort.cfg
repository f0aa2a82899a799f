CONSTANTS
    Keys <- MC_Keys
    Values <- MC_Values
    Absent = Absent
    ConflictMark = ConflictMark
    HeadBranch = "main"
    ForkBranch = "a"
    AheadBranch = "c"
    BaseTree <- MC_BaseTree
    InitTrees <- MC_InitTrees
    MaxCommits = 6
    Procs = {p1}
    IntoRefs = {"HEAD", "c"}
SPECIFICATION Spec
PROPERTIES
    AbortRestoresPreMergeHead
