CONSTANTS
    StorageLists <- MCStorageLists
    Directory = Directory
    Other = Other
    Nothing = Nothing
    NoParent = NoParent
    Id <- MCId
    BaseName <- MCBaseName
    MaxDepth = 4
SPECIFICATION Spec
INVARIANTS
    ScanAgrees
    TreeMirrorsDisk
    LoadsWhatIsThere
    Inherits
    RunsFinal
PROPERTY LoadEnds
CHECK_DEADLOCK FALSE
