\* Three runs over one region: one leaves an index, one dies, one follows.
SPECIFICATION Spec
CONSTANTS
    a = a
    b = b
    u = u
    v = v
    car = car
    foot = foot
    here = here
    there = there
    Urls = {u, v}
    Keeps = {car, foot}
    OldIndexes <- NoOldIndex
    EmptyRevs = {}
    NoFile = NoFile
    MaxRev = 1
    Ids = {a}
    Bases = {here, there}
    Manifests <- JustOne
    MaxVersion = 2
    MaxRuns = 3
PROPERTIES DiskModeHeals UpToDateUntouched IndexIsCurrent RunEnds
