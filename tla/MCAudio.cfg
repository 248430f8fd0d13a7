SPECIFICATION Spec
CONSTANTS
    Users = {http}
    Streams = {player, phone}
    UserOps = {"profile", "reapply", "volume", "power", "save", "upload"}
    Sources = {radio, esp32, beep}
    Esp32 = esp32
    Levels = {quiet, loud}
    Mute = mute
    Faded = faded
    None = none
    MaxFailures = 1
SYMMETRY AudioSymmetry
INVARIANTS
    DspAgrees
    PreviousBelongsToHolder
    SourceRestored
