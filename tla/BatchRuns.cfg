\* Two runs over two regions with every fault, in every mode.
SPECIFICATION Spec
CONSTANTS
    a = a
    b = b
    u = u
    v = v
    car = car
    foot = foot
    here = here
    there = there
    Urls = {u, v}
    Keeps = {car, foot}
    OldIndexes <- SmallOldIndexes
    EmptyRevs = {2}
    NoFile = NoFile
    MaxRev = 2
    Ids = {a, b}
    Bases = {here}
    Manifests <- SmallManifests
    MaxVersion = 1
    MaxRuns = 2
INVARIANTS OnePbfAtATime IndexHonest
PROPERTIES RefinesCatalogue IndexFollowsManifest
