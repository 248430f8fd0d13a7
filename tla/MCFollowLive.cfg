SPECIFICATION FairSpec
CONSTANTS
    e1 = e1  e2 = e2  f1 = f1  f2 = f2  f3 = f3
    news = news  music = music  p = p  q = q
    Ensembles <- MCOne
    Carried <- MCOneCarried
    Frequencies = {f1, f2}
    Pi <- MCPi
    DefaultFm = f1
    None = None
    LinkFm <- MCLinkFm
    LinkPi <- MCLinkPi
    Fading = {e1, f1}
    UserOps = {"tuneDab", "tuneFm", "play", "follow"}
    MaxUser = 3
    MaxSweeps = 1
    MaxFailures = 0
    Settle = 1
    Cooldown = 1
    WeakNeeded = 1
    MetadataEvery = 2
    ReturnEvery = 1
INVARIANTS SweepAlone SweepRestores
PROPERTIES ReturnsToDab LeavesWeak
CHECK_DEADLOCK FALSE
