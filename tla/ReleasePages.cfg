\* Two publisher jobs over two regions and a deployment; a job can die
\* anywhere, uploads included.
SPECIFICATION PSpec
CONSTANTS
    a = a
    b = b
    u = u
    car = car
    here = here
    Ids = {a, b}
    Urls = {u}
    Keeps = {car}
    Bases = {here}
    OldIndexes <- NoOldIndex
    EmptyRevs = {}
    NoFile = NoFile
    MaxRev = 2
    MaxVersion = 1
    MaxRuns = 2
    Manifests <- SmallManifests
    Demo = {a}
    MaxDeploys = 1
INVARIANTS ReleaseConsistent SkippedAssetUntouched
PROPERTIES FullPublishRepairs QuietDeployAgrees
