\* Networks of six nodes and up to six segments, long roads, and regions at
\* the seam.
SPECIFICATION MCSpec
CONSTANTS
    Size = 7
    Junctions = 6
    MaxSegments = 6
    Accesses <- Masks
    MaxGeo = 3
    MaxLength = 1000
    HalfTurn = 180
    Window = 210
    DmUnits = 1
    NoWalk = NoWalk
INVARIANTS MergedAsDrawn FrameIsSound ChainsDisjoint SegmentsOnce EdgesFollowRoads DistancesPreserved
