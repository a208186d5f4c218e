SPECIFICATION Spec
CONSTANTS
    ExtractedEntities <- MCRow
    Tolerance = 1
    AutoLink = 85
    ReviewFloor = 80
    MaxGroupSize = 5
    DateWindow = 3
    Lookback = 14
    NameFloor = 90
    MismatchRatio = 50
    Similarity <- MCSimilarity
    NoName = ""
    Book <- ThreeDays
    Limit = 500
    MaxAttempts = 3
    MaxFaults = 2
INVARIANT DiscrepancySurfaces
CHECK_DEADLOCK FALSE
