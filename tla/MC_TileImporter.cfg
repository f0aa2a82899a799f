CONSTANTS
    Sources = {"t1", "t2"}
    Remote = {"t2"}
    Names <- MC_Names
    SrcCrs <- MC_SrcCrs
    Datasets <- MC_Datasets
    Configs <- MC_Configs
    Absent = Absent
    NoCommit = NoCommit
SPECIFICATION Spec
CHECK_DEADLOCK FALSE
INVARIANTS
    TypeOK
    ImportIsExpected
PROPERTIES
    Termination
