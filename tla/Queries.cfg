\* Nearest node, nearest road and routes on small graphs.
SPECIFICATION ClientSpec
CONSTANTS
    car = car
    foot = foot
    HalfCircle = 120
    DmUnits = 8
    MaxCells = 64
    MaxCols = 16
    Graphs <- Named
    Calls <- AllCalls
    Profiles <- All
    Requests <- SomeRequests
    QuarterCircle = 75
    DefaultMax = 25
    Absent = Absent
    NoNumber = NoNumber
    None = None
INVARIANTS NearestFound LineFollowsRoads FallbackHonest LineIsWhatWasPriced ZeroStepsOnlyAtSeam RepliesAreTrue
