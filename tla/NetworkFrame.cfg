\* A region on one side of the seam with a node on the other side of it.
SPECIFICATION FrameSpec
CONSTANTS
    Size = 7
    Junctions = 6
    MaxSegments = 6
    Accesses <- Masks
    MaxGeo = 3
    MaxLength = 1000
    HalfTurn = 180
    Window = 210
    DmUnits = 1
    NoWalk = NoWalk
INVARIANTS AdoptedFramesCross
