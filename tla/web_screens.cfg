SPECIFICATION Spec
CONSTANTS
    Keys <- AllKeys
    Pages <- AllPages
    Reads <- AllReads
    Layout <- AllLayout
    Saves <- AllSaves
    Near <- AllNear
    Gaps <- AllGaps
    Unguarded <- AllUnguarded
    NoData = NoData
    Asked = Asked
    Failed = Failed
    Slots = {1, 2}
    MaxVersion = 1
INVARIANTS TypeOK OwnWritesShown NoSecondSend
PROPERTIES ConfirmedWritesArrive

