\* A job publishes, one dies with its graph uploaded and the index not, and a
\* third trusts the index.
SPECIFICATION GraphsFirstSpec
CONSTANTS
    a = a
    b = b
    u = u
    v = v
    car = car
    here = here
    Ids = {a, b}
    Urls = {u, v}
    Keeps = {car}
    Bases = {here}
    OldIndexes <- NoOldIndex
    EmptyRevs = {}
    NoFile = NoFile
    MaxRev = 2
    MaxVersion = 1
    MaxRuns = 3
    Manifests <- SmallManifests
PROPERTIES TrustIsJustified
