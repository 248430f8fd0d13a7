SPECIFICATION BluetoothSpec
CONSTANTS
    MaxUsed = 2
    MaxPolls = 1
    MaxBusy = 2
    MaxBehind = 1
CHECK_DEADLOCK FALSE
INVARIANTS
    ConnectIsTrue
    BootedIsConfigured
    OffStaysOff
PROPERTIES
    OpsEnd
