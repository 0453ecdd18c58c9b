SPECIFICATION BufSpec
CONSTANTS
    Configs <- MCConfigs
    Datagrams <- MCDatagrams
    CacheLine = 4
    HugePage = 16
    MaxDatagrams = 4
    MaxDepth = 2
INVARIANTS
    SlotsLaidOut
    HandedInsideSlot
    OwnDatagram
CHECK_DEADLOCK FALSE
