SPECIFICATION FairSpec
CONSTANTS
    Urls <- UrlSet
    TlsUrls <- TlsUrlSet
    Writers = {httpd}
    Phones = {phone}
    Player = player
    NoOwner = nobody
    RingCap = 1
    StartFill = 1
    MaxHops = 1
    MaxGen = 2
INVARIANTS
    RingOutlivesFetch
PROPERTIES
    NewUrlPlays
    OffFreesSink
