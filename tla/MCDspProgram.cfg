SPECIFICATION Spec
CONSTANTS
    Words = {0, 1}
    Cells = {0, 1, 3}
    RunReg = 3
    Frames <- MCFrames
    Embedded <- MCEmbedded
    Posted <- MCPosted
    Sectors = {1, 2}
    MaxRegions = 2
    MaxPayload = 2
    NoProgram = NoProgram
    Undefined = Undefined
    Torn = Torn
    MaxStores = 2
    MaxResets = 1
    MaxFailures = 1
CHECK_DEADLOCK FALSE

    
PROPERTIES
    StoreIsWhole
    PostTakesEffect
