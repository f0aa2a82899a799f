CONSTANTS
    Importers = {i1, i2}
    DS <- MC_DS
    KeyOrder <- MC_KeyOrder
    Values = {"v1", "v2"}
    Absent = Absent
    None = None
    Missing = Missing
    NoDataset = NoDataset
    Branch = main
    InitTree <- MC_InitTree
    Opts <- MC_Opts
    MaxCommits = 7
SPECIFICATION Spec
CHECK_DEADLOCK FALSE
INVARIANTS
    TypeOK
    ShouldCompareIsMostRecentChange
PROPERTIES
    RefinesImportAbstract
