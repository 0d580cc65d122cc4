\* Graph files written, damaged and read back.
SPECIFICATION Spec
CONSTANTS
    HalfCircle = 13
    DmUnits = 1
    Half = 16
    Group = 4
    MaxGroups = 3
    QuarterCircle = 6
    Magic = 7
    Version = 3
    Given <- AllParts
    Fragile <- FragileParts
    Written <- Cells
    None = None
INVARIANTS RoundTrip OnlyWholeFiles AcceptedIsSafe FrameIsOneToOne
