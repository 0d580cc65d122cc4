\* Two regions, one a rebuilt graph the page cannot read; failed loads, clicks,
\* drags and profile changes between them; other tabs are open on the second.
SPECIFICATION Spec
CONSTANTS
    cyprus = cyprus
    walk = walk
    old = old
    new = new
    bad = bad
    road = road
    trail = trail
    sea = sea
    None = None
    NoSha = NoSha
    Default = cyprus
    Regions = {cyprus, walk}
    Offers <- BothOrFoot
    Contents = {old, new, bad}
    Broken = {bad}
    Sites <- Releases
    HasCrypto = TRUE
    Points = {road, trail, sea}
    Snaps <- RoadsAndTrails
    ReleaseCors = TRUE
    Shared = {walk}
    MaxPoints = 3
    MaxDeploys = 1
INVARIANTS MapMatchesRouter RouteMatchesPoints GraphVerified
PROPERTIES DownloadedOnce LoadEnds
