CONSTANTS
    Daemons <- Either
    NoPreview = NoPreview
    NoDialog = NoDialog
    MaxApplies = 1
    MaxReverts = 1
    MaxSaves = 1
    MaxFaults = 1
    Count = 3
    Sizes <- ModeSizes
    Coords <- TypedCoords
    Arrangements <- Desks
    MaxEdits = 1
    MaxDrags = 1
    MaxLoads = 1
SPECIFICATION MCSpec
INVARIANTS UnkeptIsWatched QuitLeavesNothing DraftIsClear
PROPERTIES KeptWasShown PreviewsEnd EditsAreLocal
CONSTRAINT NoOverlap
CHECK_DEADLOCK FALSE
