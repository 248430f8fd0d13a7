SPECIFICATION ReceptionSpec
CONSTANTS
    e1 = e1  e2 = e2  f1 = f1  f2 = f2
    news = news  music = music  p = p  q = q
    Ensembles = {e1, e2}
    Carried <- MCCarried
    Frequencies = {f1, f2}
    Pi <- MCPi
    DefaultFm = f1
    Next100 <- MCNext100
    None = None
    NoText = NoText
    Noise = Noise
    Slots = 3
    Units = 4
    PerSector = 2
    Empty = Empty
    Spoilt = Spoilt
    Unset = Unset
    Kinds = {"name", "radiotext", "label", "slide"}
    Level <- MCLevel
    Sizes <- MCSizes
    MaxVersion = 1
    MaxFailures = 1
    MaxLost = 1
    MaxUsed = 3
INVARIANTS ShownIsOnAir ItemIsOfText SlideIsWhole
PROPERTIES ActsAsTuner CatchesUp
CHECK_DEADLOCK FALSE
