SPECIFICATION Spec
CONSTANTS
    news = news  music = music  sport = sport  e1 = e1  e2 = e2
    s0 = s0  s6 = s6  flat = flat  fine = fine
    AllStations = {news, music, sport}
    Block <- MCBlock
    MaxStations = 2
    Slots = {s0, s6}
    BackedUp = {s0}
    Factory = factory
    Sounds = {flat, fine}
    FactorySound = flat
    Coarse <- MCCoarse
    Torn = torn
    None = None
    MaxUsed = 4
INVARIANTS
    ShownIsSaved
    LastReturns
    AnsweredSurvives
    BackupIsWhole
PROPERTIES
    SwitchEnds
CHECK_DEADLOCK FALSE
