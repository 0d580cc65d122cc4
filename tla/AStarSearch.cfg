\* Searches between any two roads of small maps.
SPECIFICATION Spec
CONSTANTS
    car = car
    foot = foot
    Nodes = {0, 1, 2, 3}
    Profiles = {car, foot}
    Queries <- AllSearches
    DmUnits = 10
    Infinity = 1000
    None = None
INVARIANTS ParentsSound RouteIsReal BestUpToRounding
PROPERTIES Ends
CHECK_DEADLOCK FALSE
